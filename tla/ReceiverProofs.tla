--------------------------- MODULE ReceiverProofs ---------------------------
(***************************************************************************)
(* Proofs about a receiver (Receiver over Reader): its types, that frames  *)
(* are applied in order, that none is refused without a cause, and that a  *)
(* hold ends with its seat or its lease.  They hold for every set of keys, *)
(* every set of frames and any number of joins, leaves and re-seats.       *)
(*                                                                         *)
(* And about Presence, for any paths, connections, drops and lost frames:  *)
(* that the holds of a peer that goes on holding are not let lapse.        *)
(***************************************************************************)
EXTENDS Receiver, Presence, TLAPS

\* What the marks and the editions stand for: each is at least that of every frame that was
\* applied under it, and if it has moved some frame that was applied moved it there.
Marks ==
    /\ \A n \in DOMAIN Wire :
          Was(n) /\ Counted(Wire[n]) => Wire[n].counter <= reader.marks[Wire[n].id]
    /\ \A i \in Ids : reader.marks[i] = 0
          \/ \E n \in DOMAIN Wire : /\ Was(n) /\ Counted(Wire[n])
                                    /\ Wire[n].id = i /\ Wire[n].counter = reader.marks[i]

Editions ==
    /\ \A n \in DOMAIN Wire :
          Was(n) /\ Ordered(Wire[n]) => ReadPayload(Wire[n]) /\ Wire[n].load.issued <= reader.issued
    /\ \/ reader.issued = 0
       \/ \E n \in DOMAIN Wire : /\ Was(n) /\ Ordered(Wire[n])
                                 /\ Wire[n].load.issued = reader.issued

\* The committed keys are those of the newest state that was applied.
WasState(n) == Was(n) /\ Wire[n].kind = State
Table ==
    \/ reader.committed = Nobody /\ \A n \in DOMAIN Wire : ~WasState(n)
    \/ \E n \in DOMAIN Wire :
          /\ WasState(n) /\ reader.committed = Wire[n].load.peers
          /\ \A m \in DOMAIN Wire : WasState(m) /\ Wire[m] # Wire[n] =>
                Wire[m].load.issued < Wire[n].load.issued

\* A delivery under way: what was decided before its first await still stands.
Stands(read) ==
    LET f == Wire[read.frame]
    IN  /\ read.issued = reader.issued /\ read.ended = reader.ended
        /\ f.kind \in Kinds /\ CanArrive(f)
        /\ f.kind \in {Stream, Holds} => ~Replayed(reader, f)
        /\ f.kind # Announcement => read.candidates = Candidates(reader, f)
UnderWay == \A read \in reading : Stands(read)

SeatsApart == roster \cap departed = {}

Inv == TypeOK /\ Marks /\ Editions /\ Table /\ UnderWay /\ SeatsApart /\ HoldsEnd

-----------------------------------------------------------------------------
\* What the reader's steps do to each of its fields.

LEMMA FrameFacts ==
  ASSUME NEW n \in DOMAIN Wire
  PROVE  /\ Wire[n] \in Frames /\ Wire[n].id \in Ids
         /\ Counted(Wire[n]) => Wire[n].counter \in Nat /\ Wire[n].counter # 0
         /\ Ordered(Wire[n]) /\ ReadPayload(Wire[n]) =>
               Wire[n].load.issued \in Nat /\ Wire[n].load.issued # 0
         /\ Wire[n].kind = State /\ ReadPayload(Wire[n]) =>
               /\ Wire[n].load.peers \in Tables
               /\ DOMAIN Wire[n].load.peers \subseteq Keys \cup {HostKey}
<1>1. Wire[n] \in Frames
  BY DEF Frames
<1>2. Wire[n].id \in Ids /\ (Counted(Wire[n]) => Wire[n].counter \in Nat /\ Wire[n].counter # 0)
  BY <1>1, WireAssumption DEF Counted
<1>3. ASSUME Ordered(Wire[n]), ReadPayload(Wire[n])
      PROVE  Wire[n].load.issued \in Nat /\ Wire[n].load.issued # 0
  <2>1. Wire[n].load.is \in {"state", "closing"}
    BY <1>3 DEF Ordered, ReadPayload, State, Closing
  <2> QED
    BY <2>1, <1>1, WireAssumption
<1>4. ASSUME Wire[n].kind = State, ReadPayload(Wire[n])
      PROVE  /\ Wire[n].load.peers \in Tables
             /\ DOMAIN Wire[n].load.peers \subseteq Keys \cup {HostKey}
  <2>1. Wire[n].load.is = "state"
    BY <1>4 DEF ReadPayload, State
  <2> QED
    BY <2>1, <1>1, <1>4, WireAssumption DEF Tables
<1> QED
  BY <1>1, <1>2, <1>3, <1>4

LEMMA TableKeys ==
  ASSUME NEW t \in Tables
  PROVE  DOMAIN t \subseteq Keys \cup {HostKey}
<1>1. CASE t = Nobody
  BY <1>1 DEF Nobody
<1>2. CASE t # Nobody
  BY <1>2, WireAssumption DEF Tables
<1> QED
  BY <1>1, <1>2

\* Accept(): which of the reader's fields a frame of each kind moves.
LEMMA AcceptFields ==
  ASSUME NEW r \in ReaderType, NEW n \in DOMAIN Wire, Wire[n].kind \in Kinds, ReadPayload(Wire[n])
  PROVE  LET f == Wire[n]  a == Accept(r, f)
         IN  /\ a \in ReaderType
             /\ a.committed = IF f.kind = State THEN f.load.peers ELSE r.committed
             /\ a.marks = IF Counted(f)
                          THEN [r.marks EXCEPT ![f.id] = IF f.counter > @ THEN f.counter ELSE @]
                          ELSE r.marks
             /\ a.issued = IF Ordered(f) THEN f.load.issued ELSE r.issued
             /\ a.holds = IF f.kind = Holds THEN [r.holds EXCEPT ![f.id] = f.load.paths \cap Usable]
                          ELSE r.holds
<1> DEFINE f == Wire[n]
           marked == [r.marks EXCEPT ![f.id] = IF f.counter > @ THEN f.counter ELSE @]
<1> USE DEF Stream, State, Closing, Holds, Announcement
<1>1. CASE f.kind = State
  <2>1. Accept(r, f) = ApplyState(r, f.load) /\ ~Counted(f) /\ Ordered(f) /\ f.kind # Holds
    BY <1>1 DEF Accept, Advance, Counted, Ordered
  <2>2. f.load.peers \in Tables /\ f.load.issued \in Nat
    BY <1>1, <2>1, FrameFacts
  <2> QED
    BY <1>1, <2>1, <2>2, ZenonT(30) DEF ApplyState, ReaderType
<1>2. CASE f.kind = Closing
  <2>1. /\ Accept(r, f) = [r EXCEPT !.issued = f.load.issued, !.ended = TRUE]
        /\ ~Counted(f) /\ Ordered(f) /\ f.kind \notin {State, Holds}
    BY <1>2 DEF Accept, Advance, Counted, Ordered
  <2>2. f.load.issued \in Nat
    BY <2>1, FrameFacts
  <2> QED
    BY <1>2, <2>1, <2>2 DEF ReaderType
<1>3. CASE f.kind \in {Stream, Holds, Announcement}
  <2>1. Counted(f) /\ ~Ordered(f) /\ f.kind # State
    BY <1>3 DEF Counted, Ordered
  <2>2. marked \in [Ids -> Nat]
    BY <2>1, FrameFacts DEF ReaderType
  <2> DEFINE a == [r EXCEPT !.marks = marked]
  <2>3. Advance(r, f) = a
    BY <2>1 DEF Advance
  <2>4. /\ a \in ReaderType /\ a.marks = marked /\ a.committed = r.committed
        /\ a.issued = r.issued /\ a.holds = r.holds
    BY <2>2 DEF ReaderType
  <2> HIDE DEF a, marked
  <2>5. CASE f.kind = Holds
    <3>1. Accept(r, f) = [a EXCEPT !.holds[f.id] = f.load.paths \cap Usable]
      BY <2>3, <2>5 DEF Accept
    <3>2. [r.holds EXCEPT ![f.id] = f.load.paths \cap Usable] \in [Ids -> SUBSET Usable]
      BY DEF ReaderType
    <3> QED
      BY <2>1, <2>4, <2>5, <3>1, <3>2 DEF ReaderType, marked
  <2>6. CASE f.kind # Holds
    <3>1. Accept(r, f) = a
      BY <1>3, <2>3, <2>6 DEF Accept
    <3> QED
      BY <2>1, <2>4, <2>6, <3>1 DEF marked
  <2> QED
    BY <2>5, <2>6
<1> QED
  BY <1>1, <1>2, <1>3 DEF Kinds

\* A closing that is ignored leaves the reader as it was.
LEMMA PutBackUndoes ==
  ASSUME NEW r \in ReaderType, NEW n \in DOMAIN Wire, Wire[n].kind = Closing, NEW read,
         read.issued = r.issued, read.ended = r.ended
  PROVE  PutBack(Accept(r, Wire[n]), read) = r
<1> DEFINE f == Wire[n]
           a == [r EXCEPT !.issued = f.load.issued, !.ended = TRUE]
<1>1. Accept(r, f) = a
  BY DEF Accept, Advance, Counted, Stream, State, Closing, Holds, Announcement
<1>2. [a EXCEPT !.issued = r.issued, !.ended = r.ended] = r
  BY DEF ReaderType
<1> QED
  BY <1>1, <1>2 DEF PutBack

LEMMA WithoutFields ==
  ASSUME NEW r \in ReaderType, NEW ids
  PROVE  /\ Without(r, ids) \in ReaderType
         /\ Without(r, ids).committed = r.committed /\ Without(r, ids).marks = r.marks
         /\ Without(r, ids).issued = r.issued /\ Without(r, ids).ended = r.ended
         /\ \A i \in Ids : Without(r, ids).holds[i] = IF i \in ids THEN {} ELSE r.holds[i]
  BY DEF Without, ReaderType

\* What a verdict of "accepted" says of the frame.
LEMMA AcceptedFacts ==
  ASSUME NEW read, read.frame \in DOMAIN Wire, Stands(read), Outcome(read) = "accepted"
  PROVE  LET f == Wire[read.frame]
         IN  /\ ReadPayload(f)
             /\ Counted(f) => ~Replayed(reader, f)
             /\ Ordered(f) => ~Stale(reader, f)
             /\ f.kind = Holds => f.signer \in ByKeyId(reader, f.id)
<1> DEFINE f == Wire[read.frame]
<1> USE DEF Stream, State, Closing, Holds, Announcement
<1>1. CASE f.kind = Announcement
  BY <1>1 DEF Outcome, ReadAnnouncement, Counted, Ordered
<1>2. CASE f.kind # Announcement
  <2>1. Weighs(reader, f, read.candidates) = "accepted"
    BY <1>2 DEF Outcome
  <2>2. ReadPayload(f) /\ ~Stale(reader, f) /\ \E k \in read.candidates : Authentic(f, k)
    BY <2>1 DEF Weighs
  <2>3. Counted(f) => f.kind \in {Stream, Holds}
    BY <1>2 DEF Counted
  <2>4. f.kind = Holds => read.candidates = ByKeyId(reader, f.id)
    BY <1>2 DEF Stands, Candidates
  <2> QED
    BY <2>2, <2>3, <2>4 DEF Stands, Authentic
<1> QED
  BY <1>1, <1>2

-----------------------------------------------------------------------------
\* What the handlers share.

LEMMA ClockFacts == Expire \in Nat /\ Off \in Nat /\ Off > Expire /\ 0 \in Ages /\ Off \in Ages /\ MaxMoves \in Nat
  BY ReceiverAssumption DEF Off, Ages

LEMMA LapseFacts ==
  ASSUME leases \in [Ids -> Ages], NEW ids
  PROVE  /\ Lapse(ids) \in [Ids -> Ages]
         /\ \A i \in Ids : Lapse(ids)[i] = IF i \in ids THEN Off ELSE leases[i]
  BY ClockFacts DEF Lapse

LEMMA AwayFacts ==
  ASSUME hostAway \in Ages, NEW r, NEW seats, NEW restart, RefreshHostAway(r, seats, restart)
  PROVE  hostAway' \in Ages
  BY ClockFacts DEF RefreshHostAway

LEMMA OlderFacts ==
  ASSUME NEW a \in Ages
  PROVE  /\ Older(a) \in Ages
         /\ a # Off => Older(a) # Off
         /\ a \in 0..Expire => Older(a) \in 0..Expire
  BY ClockFacts DEF Older, Ages, Off

\* Nothing is said of frames, marks or tables by a step that leaves them alone.
LEMMA SameHistory ==
  ASSUME Marks, Editions, Table, accepted' = accepted, reader'.committed = reader.committed,
         reader'.marks = reader.marks, reader'.issued = reader.issued
  PROVE  Marks' /\ Editions' /\ Table'
<1>1. \A n : Was(n)' <=> Was(n)
  BY DEF Was
<1>2. \A n : WasState(n)' <=> WasState(n)
  BY <1>1 DEF WasState
<1> QED
  BY <1>1, <1>2 DEF Marks, Editions, Table

\* Holds that only go, and leases that only lapse with them.
LEMMA OnlyDrops ==
  ASSUME HoldsEnd, reader'.committed = reader.committed, departed' \subseteq departed,
         reader \in ReaderType, leases \in [Ids -> Ages], NEW ids,
         reader' = Without(reader, ids), leases' = Lapse(ids)
  PROVE  HoldsEnd'
<1>1. \A i \in Ids : reader'.holds[i] = IF i \in ids THEN {} ELSE reader.holds[i]
  BY WithoutFields
<1>2. \A i \in Ids : reader'.holds[i] # {} => leases'[i] # Off
  BY <1>1, LapseFacts DEF HoldsEnd
<1>3. \A k \in DOMAIN reader'.committed :
         SeatOf[k] \in departed' /\ Known(k)' => reader'.holds[IdOf[k]] = {}
  <2> SUFFICES ASSUME NEW k \in DOMAIN reader.committed, SeatOf[k] \in departed', Known(k)'
               PROVE  reader'.holds[IdOf[k]] = {}
    OBVIOUS
  <2>1. Known(k) /\ SeatOf[k] \in departed
    BY DEF Known, ByKeyId
  <2>2. IdOf[k] \in Ids
    BY TableKeys DEF Ids, ReaderType
  <2> QED
    BY <1>1, <2>1, <2>2 DEF HoldsEnd
<1> QED
  BY <1>2, <1>3 DEF HoldsEnd

\* dropDepartedHolds(), after a leave or a state: no key that labels a departed seat has a
\* hold left.
LEMMA DropsEnd ==
  ASSUME NEW r \in ReaderType, leases \in [Ids -> Ages], DropDeparted(r, departed'),
         \A i \in Ids : r.holds[i] # {} => leases[i] # Off
  PROVE  HoldsEnd'
<1> DEFINE ids == Departed(r, departed')
<1>1. /\ reader'.committed = r.committed
      /\ \A i \in Ids : reader'.holds[i] = IF i \in ids THEN {} ELSE r.holds[i]
  BY WithoutFields DEF DropDeparted
<1>2. \A i \in Ids : leases'[i] = IF i \in ids THEN Off ELSE leases[i]
  BY LapseFacts DEF DropDeparted
<1>3. \A i \in Ids : reader'.holds[i] # {} => leases'[i] # Off
  BY <1>1, <1>2
<1>4. \A k \in DOMAIN reader'.committed :
         SeatOf[k] \in departed' /\ Known(k)' => reader'.holds[IdOf[k]] = {}
  <2> SUFFICES ASSUME NEW k \in DOMAIN r.committed, SeatOf[k] \in departed', Known(k)'
               PROVE  reader'.holds[IdOf[k]] = {}
    BY <1>1
  <2>1. IdOf[k] \in Ids
    BY TableKeys DEF Ids, ReaderType
  <2>2. r.committed[k].seat \in departed'
    BY <1>1 DEF Known
  <2>3. IdOf[k] \in ids
    BY <2>2 DEF Departed
  <2> QED
    BY <1>1, <2>1, <2>3
<1> QED
  BY <1>3, <1>4 DEF HoldsEnd

-----------------------------------------------------------------------------
\* The steps that apply no frame.

LEMMA InitHolds == Init => Inv
<1> SUFFICES ASSUME Init PROVE Inv
  OBVIOUS
<1>1. NewReader \in ReaderType
  BY DEF NewReader, ReaderType, Tables
<1>2. TypeOK
  BY <1>1, ClockFacts DEF Init, TypeOK
<1>3. \A n \in DOMAIN Wire : ~Was(n)
  BY DEF Init, Was
<1>4. Marks /\ Editions /\ Table
  BY <1>3 DEF Init, NewReader, Marks, Editions, Table, WasState
<1>5. UnderWay /\ SeatsApart
  BY DEF Init, UnderWay, SeatsApart
<1>6. HoldsEnd
  BY DEF Init, NewReader, HoldsEnd, Nobody
<1> QED
  BY <1>2, <1>4, <1>5, <1>6 DEF Inv

LEMMA BeginsStep ==
  ASSUME Inv, NEW n \in DOMAIN Wire, DeliverBegins(n)
  PROVE  Inv'
<1> DEFINE f == Wire[n]
           read == [frame |-> n, candidates |-> Candidates(reader, f),
                    issued |-> reader.issued, ended |-> reader.ended]
<1>1. reading = {} /\ UNCHANGED <<reader, session, outbound, moves, accepted>> /\ CanArrive(f)
  BY DEF DeliverBegins, Idle
<1>2. \/ reading' = {}
      \/ /\ reading' = {read} /\ Layout(f) = "read"
         /\ f.kind = Announcement \/ Screens(reader, f) = "pending"
  BY <1>1 DEF DeliverBegins
<1>3. ASSUME reading' = {read}, Layout(f) = "read", f.kind = Announcement \/ Screens(reader, f) = "pending"
      PROVE  Stands(read)
  <2>1. f.kind \in Kinds
    BY <1>3 DEF Layout
  <2>2. f.kind \in {Stream, Holds} => ~Replayed(reader, f)
    BY <1>3 DEF Screens, Stream, Holds, Announcement
  <2> QED
    BY <1>1, <2>1, <2>2 DEF Stands
<1>4. \A r : Stands(r) => Stands(r)'
  BY <1>1 DEF session, Stands, Replayed, Candidates, ByKeyId, CanArrive
<1>5. UnderWay'
  BY <1>2, <1>3, <1>4 DEF UnderWay
<1>6. TypeOK'
  BY <1>1, <1>2 DEF Inv, TypeOK, session
<1>7. Marks' /\ Editions' /\ Table'
  BY <1>1, SameHistory DEF Inv
<1>8. SeatsApart' /\ HoldsEnd'
  BY <1>1 DEF Inv, session, SeatsApart, HoldsEnd, Known, ByKeyId
<1> QED
  BY <1>5, <1>6, <1>7, <1>8 DEF Inv

LEMMA JoinStep ==
  ASSUME Inv, NEW s \in Seats, SeatJoined(s)
  PROVE  Inv'
<1>1. /\ UNCHANGED <<reader, stateIssued, heldState, leases, hostAway, age, over, reading, accepted>>
      /\ reading = {} /\ roster' = roster \cup {s} /\ departed' = departed \ {s}
      /\ moves < MaxMoves /\ moves' = moves + 1 /\ outbound' \in {heldState, NoFrame}
  BY DEF SeatJoined, Idle
<1>2. TypeOK'
  BY <1>1, ClockFacts DEF Inv, TypeOK
<1>3. Marks' /\ Editions' /\ Table'
  BY <1>1, SameHistory DEF Inv
<1>4. UnderWay' /\ SeatsApart'
  BY <1>1 DEF Inv, UnderWay, SeatsApart
<1>5. HoldsEnd'
  BY <1>1 DEF Inv, HoldsEnd, Known, ByKeyId
<1> QED
  BY <1>2, <1>3, <1>4, <1>5 DEF Inv

LEMMA LeaveStep ==
  ASSUME Inv, NEW s \in Seats, SeatLeft(s)
  PROVE  Inv'
<1>1. /\ UNCHANGED <<stateIssued, heldState, age, over, reading, outbound, accepted>>
      /\ reading = {} /\ roster' = roster \ {s} /\ departed' = departed \cup {s}
      /\ moves < MaxMoves /\ moves' = moves + 1
      /\ DropDeparted(reader, departed') /\ RefreshHostAway(reader, roster', FALSE)
  BY DEF SeatLeft, Idle
<1>2. reader \in ReaderType /\ leases \in [Ids -> Ages] /\ hostAway \in Ages
  BY DEF Inv, TypeOK
<1>3. reader' = Without(reader, Departed(reader, departed')) /\ leases' = Lapse(Departed(reader, departed'))
  BY <1>1 DEF DropDeparted
<1>4. /\ reader' \in ReaderType /\ leases' \in [Ids -> Ages] /\ hostAway' \in Ages
      /\ reader'.committed = reader.committed /\ reader'.marks = reader.marks
      /\ reader'.issued = reader.issued
  BY <1>1, <1>2, <1>3, WithoutFields, LapseFacts, AwayFacts, ZenonT(30)
<1>5. TypeOK'
  BY <1>1, <1>4, ClockFacts DEF Inv, TypeOK
<1>6. Marks' /\ Editions' /\ Table'
  BY <1>1, <1>4, SameHistory DEF Inv
<1>7. UnderWay' /\ SeatsApart'
  BY <1>1 DEF Inv, UnderWay, SeatsApart
<1>8. HoldsEnd'
  BY <1>1, <1>2, DropsEnd DEF Inv, HoldsEnd
<1> QED
  BY <1>5, <1>6, <1>7, <1>8 DEF Inv

LEMMA ReseatStep ==
  ASSUME Inv, NEW seated \in SUBSET (Seats \ departed), Reseat(seated)
  PROVE  Inv'
<1>1. /\ UNCHANGED <<reader, stateIssued, heldState, leases, departed, hostAway, age, reading, accepted>>
      /\ reading = {} /\ roster' = seated /\ over' = "no" /\ outbound' = NoFrame
      /\ moves < MaxMoves /\ moves' = moves + 1
  BY DEF Reseat, Idle
<1>2. TypeOK'
  BY <1>1, ClockFacts DEF Inv, TypeOK
<1>3. Marks' /\ Editions' /\ Table'
  BY <1>1, SameHistory DEF Inv
<1>4. UnderWay' /\ SeatsApart'
  BY <1>1 DEF Inv, UnderWay, SeatsApart
<1>5. HoldsEnd'
  BY <1>1 DEF Inv, HoldsEnd, Known, ByKeyId
<1> QED
  BY <1>2, <1>3, <1>4, <1>5 DEF Inv

LEMMA TickStep ==
  ASSUME Inv, Tick
  PROVE  Inv'
<1> DEFINE lapsed == {i \in Ids : leases[i] = Expire}
<1>1. /\ UNCHANGED <<stateIssued, heldState, roster, departed, age, reading, outbound, moves, accepted>>
      /\ reading = {} /\ reader' = Without(reader, lapsed) /\ leases' = Lapse(lapsed)
      /\ RefreshHostAway(reader, roster, FALSE) /\ over' = WindowPassed
  BY DEF Tick, Idle, ExpireLeases
<1>2. reader \in ReaderType /\ leases \in [Ids -> Ages] /\ hostAway \in Ages
  BY DEF Inv, TypeOK
<1>3. /\ reader' \in ReaderType /\ leases' \in [Ids -> Ages] /\ hostAway' \in Ages
      /\ reader'.committed = reader.committed /\ reader'.marks = reader.marks
      /\ reader'.issued = reader.issued
  BY <1>1, <1>2, WithoutFields, LapseFacts, AwayFacts
<1>4. over' \in {"no", "closing", "host-away", "no-state"}
  BY <1>1 DEF Inv, TypeOK, WindowPassed
<1>5. TypeOK'
  BY <1>1, <1>3, <1>4 DEF Inv, TypeOK
<1>6. Marks' /\ Editions' /\ Table'
  BY <1>1, <1>3, SameHistory DEF Inv
<1>7. UnderWay' /\ SeatsApart'
  BY <1>1 DEF Inv, UnderWay, SeatsApart
<1>8. HoldsEnd'
  BY <1>1, <1>2, <1>3, OnlyDrops DEF Inv
<1> QED
  BY <1>5, <1>6, <1>7, <1>8 DEF Inv

LEMMA PassesStep ==
  ASSUME Inv, TimePasses
  PROVE  Inv'
<1>1. /\ UNCHANGED <<reader, stateIssued, heldState, roster, departed, over, reading, outbound,
                     moves, accepted>>
      /\ leases' = [i \in Ids |-> Older(leases[i])]
      /\ hostAway' = Older(hostAway) /\ age' = Older(age)
  BY DEF TimePasses
<1>2. leases \in [Ids -> Ages] /\ hostAway \in Ages /\ age \in 0..Expire /\ age \in Ages
  BY ClockFacts DEF Inv, TypeOK, Ages
<1>3. leases' \in [Ids -> Ages] /\ hostAway' \in Ages /\ age' \in 0..Expire
  BY <1>1, <1>2, OlderFacts
<1>4. TypeOK'
  BY <1>1, <1>3 DEF Inv, TypeOK
<1>5. Marks' /\ Editions' /\ Table'
  BY <1>1, SameHistory DEF Inv
<1>6. UnderWay' /\ SeatsApart'
  BY <1>1 DEF Inv, UnderWay, SeatsApart, Stands, Replayed, Candidates, ByKeyId, CanArrive
<1>7. \A i \in Ids : leases[i] # Off => leases'[i] # Off
  BY <1>1, <1>2, OlderFacts
<1>8. HoldsEnd'
  BY <1>1, <1>7 DEF Inv, HoldsEnd, Known, ByKeyId
<1> QED
  BY <1>4, <1>5, <1>6, <1>8 DEF Inv

-----------------------------------------------------------------------------
\* The step that may apply one: DeliverEnds.

\* What a frame is above when it is applied.
LEMMA AppliesAbove ==
  ASSUME Inv, NEW read \in reading, Outcome(read) = "accepted"
  PROVE  LET f == Wire[read.frame]
         IN  /\ read.frame \in DOMAIN Wire /\ f.kind \in Kinds /\ ReadPayload(f)
             /\ Counted(f) => /\ f.counter \in Nat /\ reader.marks[f.id] \in Nat
                              /\ f.counter > reader.marks[f.id]
             /\ Ordered(f) => /\ f.load.issued \in Nat /\ f.load.issued # 0
                              /\ f.load.issued > reader.issued
             /\ f.kind = Holds => f.signer \in ByKeyId(reader, f.id)
<1> DEFINE f == Wire[read.frame]
<1>1. read.frame \in DOMAIN Wire /\ Stands(read) /\ reader \in ReaderType
  BY DEF Inv, TypeOK, UnderWay
<1>2. /\ ReadPayload(f) /\ f.kind \in Kinds
      /\ Counted(f) => ~Replayed(reader, f)
      /\ Ordered(f) => ~Stale(reader, f)
      /\ f.kind = Holds => f.signer \in ByKeyId(reader, f.id)
  BY <1>1, AcceptedFacts DEF Stands
<1>3. f.id \in Ids /\ reader.marks[f.id] \in Nat /\ reader.issued \in Nat
  BY <1>1, FrameFacts DEF ReaderType
<1>4. Counted(f) => f.counter \in Nat /\ f.counter > reader.marks[f.id]
  BY <1>1, <1>2, <1>3, FrameFacts DEF Replayed
<1>5. Ordered(f) => f.load.issued \in Nat /\ f.load.issued # 0 /\ f.load.issued > reader.issued
  BY <1>1, <1>2, <1>3, FrameFacts DEF Stale
<1> QED
  BY <1>1, <1>2, <1>3, <1>4, <1>5

\* A frame that is applied comes after everything that was: its own place in Wire, which an
\* equal frame may share, among them.
LEMMA AppliedFollows ==
  ASSUME Inv, NEW read \in reading, Outcome(read) = "accepted", NEW m \in DOMAIN Wire, Was(m)
  PROVE  Follows(Wire[read.frame], Wire[m])
<1> DEFINE f == Wire[read.frame]
<1>1. /\ Counted(f) => /\ f.counter \in Nat /\ reader.marks[f.id] \in Nat
                       /\ f.counter > reader.marks[f.id]
      /\ Ordered(f) => f.load.issued \in Nat /\ f.load.issued > reader.issued
  BY AppliesAbove
<1>2. reader.issued \in Nat
  BY DEF Inv, TypeOK, ReaderType
<1>3. ASSUME Counted(f), Counted(Wire[m]), f.id = Wire[m].id
      PROVE  f.counter > Wire[m].counter
  BY <1>1, <1>3, FrameFacts DEF Inv, Marks
<1>4. ASSUME Ordered(f), Ordered(Wire[m])
      PROVE  f.load.issued > Wire[m].load.issued
  <2>1. Wire[m].load.issued <= reader.issued /\ Wire[m].load.issued \in Nat
    BY <1>4, FrameFacts DEF Inv, Editions
  <2> QED
    BY <1>1, <1>2, <1>4, <2>1
<1> QED
  BY <1>3, <1>4 DEF Follows

\* The history after a frame was applied: the frame itself, and what was applied before it.
LEMMA AppliedHistory ==
  ASSUME Inv, NEW read \in reading, Outcome(read) = "accepted",
         accepted' = IF accepted[read.frame] < 2 THEN [accepted EXCEPT ![read.frame] = @ + 1]
                     ELSE accepted,
         reader'.committed = Accept(reader, Wire[read.frame]).committed,
         reader'.marks = Accept(reader, Wire[read.frame]).marks,
         reader'.issued = Accept(reader, Wire[read.frame]).issued
  PROVE  /\ accepted' \in [DOMAIN Wire -> 0..2]
         /\ Marks' /\ Editions' /\ Table'
<1> DEFINE n == read.frame
           f == Wire[n]
<1>1. n \in DOMAIN Wire /\ reader \in ReaderType /\ accepted \in [DOMAIN Wire -> 0..2]
  BY DEF Inv, TypeOK
<1>2. /\ f.kind \in Kinds /\ ReadPayload(f)
      /\ Counted(f) => /\ f.counter \in Nat /\ reader.marks[f.id] \in Nat
                       /\ f.counter > reader.marks[f.id]
      /\ Ordered(f) => f.load.issued \in Nat /\ f.load.issued > reader.issued
  BY AppliesAbove
<1>3. f.id \in Ids /\ reader.marks \in [Ids -> Nat] /\ reader.issued \in Nat
  BY <1>1, FrameFacts DEF ReaderType
<1>4. /\ reader'.committed = IF f.kind = State THEN f.load.peers ELSE reader.committed
      /\ reader'.marks = IF Counted(f) THEN [reader.marks EXCEPT ![f.id] = f.counter] ELSE reader.marks
      /\ reader'.issued = IF Ordered(f) THEN f.load.issued ELSE reader.issued
  BY <1>1, <1>2, <1>3, AcceptFields
<1>5. accepted' \in [DOMAIN Wire -> 0..2] /\ \A m \in DOMAIN Wire : Was(m)' <=> Was(m) \/ m = n
  BY <1>1 DEF Was
<1>6. Marks'
  <2>1. ASSUME NEW m \in DOMAIN Wire, Was(m)', Counted(Wire[m])
        PROVE  Wire[m].counter <= reader'.marks[Wire[m].id]
    <3>1. Wire[m].counter \in Nat /\ Wire[m].id \in Ids
      BY <2>1, FrameFacts
    <3>2. CASE m = n
      BY <1>2, <1>3, <1>4, <2>1, <3>1, <3>2
    <3>3. CASE m # n
      <4>1. Wire[m].counter <= reader.marks[Wire[m].id]
        BY <1>5, <2>1, <3>3 DEF Inv, Marks
      <4>2. reader'.marks[Wire[m].id] \in Nat /\ reader'.marks[Wire[m].id] >= reader.marks[Wire[m].id]
        BY <1>2, <1>3, <1>4, <3>1
      <4> QED
        BY <1>3, <3>1, <4>1, <4>2
    <3> QED
      BY <3>2, <3>3
  <2>2. ASSUME NEW i \in Ids, reader'.marks[i] # 0
        PROVE  \E m \in DOMAIN Wire : /\ Was(m)' /\ Counted(Wire[m])
                                      /\ Wire[m].id = i /\ Wire[m].counter = reader'.marks[i]
    <3>1. CASE Counted(f) /\ i = f.id
      BY <1>1, <1>3, <1>4, <1>5, <3>1
    <3>2. CASE ~(Counted(f) /\ i = f.id)
      <4>1. reader'.marks[i] = reader.marks[i]
        BY <1>3, <1>4, <3>2
      <4> QED
        BY <1>5, <2>2, <4>1 DEF Inv, Marks
    <3> QED
      BY <3>1, <3>2
  <2> QED
    BY <2>1, <2>2 DEF Marks
<1>7. Editions'
  <2>1. ASSUME NEW m \in DOMAIN Wire, Was(m)', Ordered(Wire[m])
        PROVE  ReadPayload(Wire[m]) /\ Wire[m].load.issued <= reader'.issued
    <3>1. CASE m = n
      BY <1>2, <1>4, <2>1, <3>1
    <3>2. CASE m # n
      <4>1. ReadPayload(Wire[m]) /\ Wire[m].load.issued <= reader.issued
        BY <1>5, <2>1, <3>2 DEF Inv, Editions
      <4>2. Wire[m].load.issued \in Nat
        BY <2>1, <4>1, FrameFacts
      <4> QED
        BY <1>2, <1>3, <1>4, <4>1, <4>2
    <3> QED
      BY <3>1, <3>2
  <2>2. \/ reader'.issued = 0
        \/ \E m \in DOMAIN Wire : /\ Was(m)' /\ Ordered(Wire[m])
                                  /\ Wire[m].load.issued = reader'.issued
    BY <1>1, <1>4, <1>5 DEF Inv, Editions
  <2> QED
    BY <2>1, <2>2 DEF Editions
<1>8. Table'
  <2>1. CASE f.kind = State
    <3>1. Ordered(f) /\ reader'.committed = f.load.peers /\ WasState(n)'
      BY <1>1, <1>4, <1>5, <2>1 DEF Ordered, WasState
    <3>2. ASSUME NEW m \in DOMAIN Wire, WasState(m)', Wire[m] # f
          PROVE  Wire[m].load.issued < f.load.issued
      <4>1. Ordered(Wire[m]) /\ Was(m)
        BY <1>5, <3>2 DEF WasState, Ordered
      <4>2. Wire[m].load.issued <= reader.issued /\ Wire[m].load.issued \in Nat
        BY <4>1, FrameFacts DEF Inv, Editions
      <4> QED
        BY <1>2, <1>3, <3>1, <4>2
    <3> QED
      BY <1>1, <3>1, <3>2 DEF Table
  <2>2. CASE f.kind # State
    <3>1. \A m \in DOMAIN Wire : WasState(m)' <=> WasState(m)
      BY <1>5, <2>2 DEF WasState
    <3> QED
      BY <1>4, <2>2, <3>1 DEF Inv, Table
  <2> QED
    BY <2>1, <2>2
<1> QED
  BY <1>5, <1>6, <1>7, <1>8

\* fold(): what it does to the session, kind by kind.
LEMMA FoldKeeps ==
  ASSUME Inv, NEW read \in reading, Outcome(read) = "accepted", Fold(read.frame),
         departed' = departed, roster' = roster
  PROVE  LET a == Accept(reader, Wire[read.frame])
         IN  /\ reader'.committed = a.committed /\ reader'.marks = a.marks
             /\ reader'.issued = a.issued
             /\ reader' \in ReaderType /\ leases' \in [Ids -> Ages] /\ hostAway' \in Ages
             /\ stateIssued' \in Nat /\ heldState' \in DOMAIN Wire \cup {NoFrame}
             /\ stateIssued' = 0 <=> heldState' = NoFrame
             /\ over' \in {"no", "closing", "host-away", "no-state"}
             /\ HoldsEnd'
<1> DEFINE n == read.frame
           f == Wire[n]
           a == Accept(reader, f)
<1> USE DEF Stream, State, Closing, Holds, Announcement
<1>1. /\ n \in DOMAIN Wire /\ reader \in ReaderType /\ leases \in [Ids -> Ages] /\ hostAway \in Ages
      /\ stateIssued \in Nat /\ heldState \in DOMAIN Wire \cup {NoFrame}
      /\ stateIssued = 0 <=> heldState = NoFrame
      /\ over \in {"no", "closing", "host-away", "no-state"}
  BY DEF Inv, TypeOK
<1>2. /\ f.kind \in Kinds /\ ReadPayload(f) /\ f.id \in Ids
      /\ Ordered(f) => f.load.issued \in Nat /\ f.load.issued # 0
      /\ f.kind = Holds => f.signer \in ByKeyId(reader, f.id)
  BY <1>1, FrameFacts, AppliesAbove
<1>3. /\ a \in ReaderType
      /\ a.committed = IF f.kind = State THEN f.load.peers ELSE reader.committed
      /\ a.holds = IF f.kind = Holds THEN [reader.holds EXCEPT ![f.id] = f.load.paths \cap Usable]
                   ELSE reader.holds
  BY <1>1, <1>2, AcceptFields
<1>4. HoldsEnd
  BY DEF Inv
<1>5. CASE f.kind = State
  <2>1. /\ stateIssued' = f.load.issued /\ heldState' = n /\ over' = over
        /\ DropDeparted(a, departed) /\ hostAway' \in {Off, 0, hostAway}
    BY <1>5 DEF Fold, RefreshHostAway
  <2>2. reader' = Without(a, Departed(a, departed)) /\ leases' = Lapse(Departed(a, departed))
    BY <2>1 DEF DropDeparted
  <2>3. /\ reader'.committed = a.committed /\ reader'.marks = a.marks /\ reader'.issued = a.issued
        /\ reader' \in ReaderType /\ leases' \in [Ids -> Ages] /\ hostAway' \in Ages
    BY <1>1, <1>3, <2>1, <2>2, WithoutFields, LapseFacts, ClockFacts
  <2>4. f.load.issued \in Nat /\ f.load.issued # 0 /\ n # NoFrame
    BY <1>1, <1>2, <1>5, ReceiverAssumption DEF Ordered
  <2>5. \A i \in Ids : a.holds[i] # {} => leases[i] # Off
    BY <1>3, <1>4, <1>5 DEF HoldsEnd
  <2>6. DropDeparted(a, departed')
    BY <2>1
  <2>7. HoldsEnd'
    BY <1>1, <1>3, <2>5, <2>6, DropsEnd
  <2> QED
    BY <1>1, <2>1, <2>3, <2>4, <2>7
<1>6. CASE f.kind = Closing
  <2>1. reader' = a /\ over' = "closing" /\ UNCHANGED <<stateIssued, heldState, hostAway, leases>>
    BY <1>6 DEF Fold
  <2>2. HoldsEnd'
    BY <1>3, <1>4, <1>6, <2>1 DEF HoldsEnd, Known, ByKeyId
  <2> QED
    BY <1>1, <1>3, <2>1, <2>2
<1>7. CASE f.kind = Holds
  <2>1. /\ reader' = a /\ leases' = [leases EXCEPT ![f.id] = 0]
        /\ UNCHANGED <<stateIssued, heldState, hostAway, over>>
    BY <1>7 DEF Fold
  <2>2. leases' \in [Ids -> Ages]
    BY <1>1, <2>1, ClockFacts
  <2>3. reader'.committed = reader.committed /\ \A k : Known(k)' => Known(k)
    BY <1>3, <1>7, <2>1 DEF Known, ByKeyId
  <2>4. reader'.holds = [reader.holds EXCEPT ![f.id] = f.load.paths \cap Usable]
    BY <1>3, <1>7, <2>1
  <2>5. reader.holds \in [Ids -> SUBSET Usable]
    BY <1>1 DEF ReaderType
  <2>6. \A i \in Ids : reader'.holds[i] # {} => leases'[i] # Off
    BY <1>1, <1>2, <1>4, <2>1, <2>4, <2>5, ClockFacts DEF HoldsEnd
  <2>7. ASSUME NEW k \in DOMAIN reader.committed, SeatOf[k] \in departed, Known(k)
        PROVE  reader'.holds[IdOf[k]] = {}
    <3>1. reader.holds[IdOf[k]] = {} /\ IdOf[k] \in Ids
      BY <1>1, <1>4, <2>7, TableKeys DEF HoldsEnd, Ids, ReaderType
    <3>2. IdOf[k] # f.id
      <4>1. SeatOf[f.signer] \in roster
        BY <1>7 DEF Inv, UnderWay, Stands, CanArrive, Counted
      <4>2. IdOf[k] = f.id => f.signer = k
        BY <1>2, <1>7, <2>7 DEF Known
      <4> QED
        BY <2>7, <4>1, <4>2 DEF Inv, SeatsApart
    <3> QED
      BY <2>4, <2>5, <3>1, <3>2
  <2>8. HoldsEnd'
    BY <2>3, <2>6, <2>7 DEF HoldsEnd
  <2> QED
    BY <1>1, <1>3, <2>1, <2>2, <2>8
<1>8. CASE f.kind \in {Stream, Announcement}
  <2>1. reader' = a /\ UNCHANGED <<stateIssued, heldState, hostAway, leases, over>>
    <3>1. f.kind # State /\ f.kind # Closing /\ f.kind # Holds
      BY <1>8
    <3> QED
      BY <3>1 DEF Fold
  <2>2. HoldsEnd'
    BY <1>3, <1>4, <1>8, <2>1 DEF HoldsEnd, Known, ByKeyId
  <2> QED
    BY <1>1, <1>3, <2>1, <2>2
<1> QED
  BY <1>2, <1>5, <1>6, <1>7, <1>8 DEF Kinds

LEMMA EndsStep ==
  ASSUME Inv, DeliverEnds
  PROVE  Inv'
<1> PICK read \in reading :
       /\ reading' = reading \ {read}
       /\ Applied(read) \/ Ignored(read) \/ Dropped(read)
       /\ UNCHANGED <<roster, departed, age, outbound, moves>>
  BY DEF DeliverEnds
<1>1. reading' = {}
  BY DEF Inv, TypeOK
<1>2. UnderWay' /\ SeatsApart'
  BY <1>1 DEF Inv, UnderWay, SeatsApart
<1>3. CASE Applied(read)
  <2>1. /\ Outcome(read) = "accepted" /\ Fold(read.frame)
        /\ accepted' = IF accepted[read.frame] < 2 THEN [accepted EXCEPT ![read.frame] = @ + 1]
                       ELSE accepted
    BY <1>3 DEF Applied
  <2>2. /\ reader'.committed = Accept(reader, Wire[read.frame]).committed
        /\ reader'.marks = Accept(reader, Wire[read.frame]).marks
        /\ reader'.issued = Accept(reader, Wire[read.frame]).issued
        /\ reader' \in ReaderType /\ leases' \in [Ids -> Ages] /\ hostAway' \in Ages
        /\ stateIssued' \in Nat /\ heldState' \in DOMAIN Wire \cup {NoFrame}
        /\ stateIssued' = 0 <=> heldState' = NoFrame
        /\ over' \in {"no", "closing", "host-away", "no-state"}
        /\ HoldsEnd'
    BY <2>1, FoldKeeps
  <2>3. accepted' \in [DOMAIN Wire -> 0..2] /\ Marks' /\ Editions' /\ Table'
    BY <2>1, <2>2, AppliedHistory
  <2>4. TypeOK'
    BY <1>1, <2>2, <2>3 DEF Inv, TypeOK
  <2> QED
    BY <1>2, <2>2, <2>3, <2>4 DEF Inv
<1>4. CASE ~Applied(read)
  <2>1. UNCHANGED <<reader, stateIssued, heldState, hostAway, leases, over, accepted>>
    <3>1. CASE Ignored(read)
      <4>1. /\ read.frame \in DOMAIN Wire /\ reader \in ReaderType
            /\ read.issued = reader.issued /\ read.ended = reader.ended
        BY DEF Inv, TypeOK, UnderWay, Stands
      <4> QED
        BY <3>1, <4>1, PutBackUndoes DEF Ignored
    <3>2. CASE Dropped(read)
      BY <3>2 DEF Dropped
    <3> QED
      BY <1>4, <3>1, <3>2
  <2>2. TypeOK'
    BY <1>1, <2>1 DEF Inv, TypeOK
  <2>3. Marks' /\ Editions' /\ Table'
    BY <2>1, SameHistory DEF Inv
  <2>4. HoldsEnd'
    BY <2>1 DEF Inv, HoldsEnd, Known, ByKeyId
  <2> QED
    BY <1>2, <2>2, <2>3, <2>4 DEF Inv
<1> QED
  BY <1>3, <1>4

LEMMA NextKeeps == Inv /\ [Next]_vars => Inv'
<1> SUFFICES ASSUME Inv, [Next]_vars PROVE Inv'
  OBVIOUS
<1>1. CASE UNCHANGED vars
  <2>1. TypeOK' /\ UnderWay' /\ SeatsApart' /\ HoldsEnd'
    BY <1>1 DEF vars, session, Inv, TypeOK, UnderWay, Stands, Replayed, Candidates, ByKeyId, CanArrive,
                SeatsApart, HoldsEnd, Known
  <2>2. Marks' /\ Editions' /\ Table'
    BY <1>1, SameHistory DEF vars, Inv
  <2> QED
    BY <2>1, <2>2 DEF Inv
<1>2. CASE \E n \in DOMAIN Wire : DeliverBegins(n)
  BY <1>2, BeginsStep
<1>3. CASE DeliverEnds
  BY <1>3, EndsStep
<1>4. CASE \E s \in Seats : SeatJoined(s) \/ SeatLeft(s)
  BY <1>4, JoinStep, LeaveStep
<1>5. CASE \E seated \in SUBSET (Seats \ departed) : Reseat(seated)
  BY <1>5, ReseatStep
<1>6. CASE Tick
  BY <1>6, TickStep
<1>7. CASE TimePasses
  BY <1>7, PassesStep
<1> QED
  BY <1>1, <1>2, <1>3, <1>4, <1>5, <1>6, <1>7 DEF Next

-----------------------------------------------------------------------------
\* The theorems.

LEMMA Inductive == Spec => []Inv
<1> QED
  BY InitHolds, NextKeeps, PTL DEF Spec

\* A receiver's state has its type in every reachable state: the table is one a state carried,
\* a mark and an edition are counts, a state is held exactly when one was applied, and one
\* delivery at most is under way (peer.ts, PeerSession; sealed.ts, Reader).
THEOREM ReceiverTypeOK == Spec => []TypeOK
<1>1. Inv => TypeOK
  BY DEF Inv
<1> QED
  BY <1>1, Inductive, PTL

\* What is applied under one key id rises in its counter, and states and closings rise in their
\* edition, whatever the relay repeats, reorders or drops and whatever a connection's end does
\* to the roster (peer.ts, deliver; sealed.ts, advance and payloadIssued).
THEOREM ReceiverAppliesInOrder == Spec => AppliedInOrder
<1>1. ASSUME Inv, [Next]_vars
      PROVE  [\A n \in DOMAIN Wire : accepted'[n] > accepted[n] =>
                 \A m \in DOMAIN Wire : Was(m) => Follows(Wire[n], Wire[m])]_vars
  <2> SUFFICES ASSUME NEW n \in DOMAIN Wire, accepted'[n] > accepted[n],
                      NEW m \in DOMAIN Wire, Was(m)
               PROVE  Follows(Wire[n], Wire[m])
    OBVIOUS
  <2>1. accepted \in [DOMAIN Wire -> 0..2] /\ accepted' # accepted
    BY <1>1 DEF Inv, TypeOK
  <2>2. DeliverEnds
    BY <1>1, <2>1 DEF Next, vars, session, DeliverBegins, SeatJoined, SeatLeft, Reseat, Tick, TimePasses
  <2>3. PICK read \in reading : Applied(read) \/ Ignored(read) \/ Dropped(read)
    BY <2>2 DEF DeliverEnds
  <2>4. /\ Outcome(read) = "accepted"
        /\ accepted' = IF accepted[read.frame] < 2 THEN [accepted EXCEPT ![read.frame] = @ + 1]
                       ELSE accepted
    BY <2>1, <2>3 DEF Applied, Ignored, Dropped
  <2>5. n = read.frame
    BY <2>1, <2>4
  <2> QED
    BY <1>1, <2>4, <2>5, AppliedFollows
<1> QED
  BY <1>1, Inductive, PTL DEF Spec, AppliedInOrder

\* The newest of the states that were applied is one frame at most, and the table is its own.
LEMMA NewestIsTable ==
  ASSUME Inv, NEW ks
  PROVE  RolesNow(ks) = {reader.committed[k].role : k \in ks \cap DOMAIN reader.committed}
<1>1. CASE \A n \in DOMAIN Wire : ~WasState(n)
  <2>1. reader.committed = Nobody
    BY <1>1 DEF Inv, Table
  <2>2. {g \in Given : Newest(g)} = {}
    BY <1>1 DEF Given, Newest, WasState
  <2> QED
    BY <2>1, <2>2 DEF RolesNow, Nobody
<1>2. CASE ~\A n \in DOMAIN Wire : ~WasState(n)
  <2>1. PICK n \in DOMAIN Wire :
           /\ WasState(n) /\ reader.committed = Wire[n].load.peers
           /\ \A m \in DOMAIN Wire : WasState(m) /\ Wire[m] # Wire[n] =>
                 Wire[m].load.issued < Wire[n].load.issued
    BY <1>2 DEF Inv, Table
  <2>2. \A m \in DOMAIN Wire : WasState(m) =>
           Wire[m].load.issued \in Nat /\ Ordered(Wire[m]) /\ ~Counted(Wire[m])
    <3> SUFFICES ASSUME NEW m \in DOMAIN Wire, WasState(m)
                 PROVE  Wire[m].load.issued \in Nat /\ Ordered(Wire[m]) /\ ~Counted(Wire[m])
      OBVIOUS
    <3>1. Ordered(Wire[m]) /\ ~Counted(Wire[m]) /\ Was(m)
      BY DEF WasState, Ordered, Counted, Stream, State, Closing, Holds, Announcement
    <3> QED
      BY <3>1, FrameFacts DEF Inv, Editions
  <2>3. Wire[n] \in Given /\ Newest(Wire[n])
    BY <2>1, <2>2 DEF Given, Newest, Follows, WasState
  <2>4. ASSUME NEW g \in Given, Newest(g)
        PROVE  g = Wire[n]
    <3>1. PICK m \in DOMAIN Wire : g = Wire[m] /\ WasState(m)
      BY <2>4 DEF Given, Newest, WasState
    <3>2. g # Wire[n] => g.load.issued > Wire[n].load.issued
      BY <2>1, <2>2, <2>3, <2>4, <3>1 DEF Newest, Follows, WasState
    <3> QED
      BY <2>1, <2>2, <3>1, <3>2
  <2>5. {g \in Given : Newest(g)} = {Wire[n]}
    BY <2>3, <2>4
  <2> QED
    BY <2>1, <2>5 DEF RolesNow
<1> QED
  BY <1>1, <1>2

\* No frame is refused for what came before unless something that was applied supersedes it,
\* or the newest state that was applied does not let its sender say it: a frame that was
\* refused, or a closing that was ignored, costs nothing (sealed.ts, Reader.readOne; peer.ts,
\* ignores).
THEOREM ReceiverRefusesForCause == Spec => []RefusedForCause
<1>1. ASSUME Inv PROVE RefusedForCause
  <2> SUFFICES ASSUME NEW n \in DOMAIN Wire
               PROVE  LET f == Wire[n]
                          v == Verdict(reader, f)
                      IN  /\ v = "replayed_counter" =>
                                \E g \in Given : Counted(g) /\ g.id = f.id /\ g.counter >= f.counter
                          /\ v = "stale_issued" =>
                                \E g \in Given : Ordered(g) /\ g.load.issued >= f.load.issued
                          /\ v = "uncommitted_key" /\ f.kind \in {Stream, Holds} =>
                                RolesNow({k \in Keys : IdOf[k] = f.id}) = {}
                          /\ v = "unauthorised_content" => RolesNow({f.signer}) = {"viewer"}
    BY DEF RefusedForCause, Frames
  <2> DEFINE f == Wire[n]
             v == Verdict(reader, f)
  <2> USE DEF Stream, State, Closing, Holds, Announcement
  <2>1. reader \in ReaderType /\ f.id \in Ids
    BY <1>1, FrameFacts DEF Inv, TypeOK
  <2>2. ASSUME v = "replayed_counter"
        PROVE  \E g \in Given : Counted(g) /\ g.id = f.id /\ g.counter >= f.counter
    <3>1. Replayed(reader, f) /\ Counted(f)
      BY <2>2 DEF Verdict, Layout, ReadAnnouncement, Screens, Weighs, Counted
    <3>2. f.counter \in Nat /\ f.counter # 0 /\ reader.marks[f.id] \in Nat
      BY <2>1, <3>1, FrameFacts DEF ReaderType
    <3>3. reader.marks[f.id] # 0 /\ reader.marks[f.id] >= f.counter
      BY <3>1, <3>2 DEF Replayed
    <3>4. PICK m \in DOMAIN Wire : /\ Was(m) /\ Counted(Wire[m])
                                   /\ Wire[m].id = f.id /\ Wire[m].counter = reader.marks[f.id]
      BY <1>1, <2>1, <3>3 DEF Inv, Marks
    <3> QED
      BY <3>3, <3>4 DEF Given
  <2>3. ASSUME v = "stale_issued"
        PROVE  \E g \in Given : Ordered(g) /\ g.load.issued >= f.load.issued
    <3>1. Stale(reader, f) /\ ReadPayload(f) /\ Ordered(f)
      BY <2>3 DEF Verdict, Layout, ReadAnnouncement, Screens, Weighs, Stale
    <3>2. f.load.issued \in Nat /\ f.load.issued # 0 /\ reader.issued \in Nat
      BY <2>1, <3>1, FrameFacts DEF ReaderType
    <3>3. reader.issued # 0 /\ reader.issued >= f.load.issued
      BY <3>1, <3>2 DEF Stale
    <3>4. PICK m \in DOMAIN Wire : Was(m) /\ Ordered(Wire[m]) /\ Wire[m].load.issued = reader.issued
      BY <1>1, <3>3 DEF Inv, Editions
    <3> QED
      BY <3>3, <3>4 DEF Given
  <2>4. ASSUME v = "uncommitted_key", f.kind \in {Stream, Holds}
        PROVE  RolesNow({k \in Keys : IdOf[k] = f.id}) = {}
    <3>1. Candidates(reader, f) = {}
      BY <2>4 DEF Verdict, Layout, Screens, Weighs
    <3>2. ByKeyId(reader, f.id) = {}
      BY <2>4, <3>1 DEF Candidates
    <3>3. {k \in Keys : IdOf[k] = f.id} \cap DOMAIN reader.committed = {}
      BY <3>2 DEF ByKeyId
    <3> QED
      BY <1>1, <3>3, NewestIsTable
  <2>5. ASSUME v = "unauthorised_content"
        PROVE  RolesNow({f.signer}) = {"viewer"}
    <3>1. RoleOfKey(reader, f.signer) = "viewer"
      BY <2>5 DEF Verdict, Layout, ReadAnnouncement, Screens, Weighs
    <3>2. f.signer \in DOMAIN reader.committed /\ reader.committed[f.signer].role = "viewer"
      BY <3>1 DEF RoleOfKey
    <3> QED
      BY <1>1, <3>2, NewestIsTable
  <2> QED
    BY <2>2, <2>3, <2>4, <2>5
<1> QED
  BY <1>1, Inductive, PTL

\* What a peer is held to ends with its seat, whichever of the leave, the holds and the state
\* comes last, and otherwise with a lease that runs (peer.ts, dropDepartedHolds, expireLeases).
THEOREM ReceiverEndsHolds == Spec => []HoldsEnd
<1>1. Inv => HoldsEnd
  BY DEF Inv
<1> QED
  BY <1>1, Inductive, PTL

-----------------------------------------------------------------------------
(* What a peer says of itself, and another shows of it (Presence).         *)

\* The entries, and the frames, of the peer's connections.
Entries == [state : Carets \cup {None}, fresh : BOOLEAN]
PresenceFrames ==
    [what : {"holds"}, from : Conns, holds : SUBSET Paths]
        \cup [what : {"caret"}, from : Conns, entry : Entries]
        \cup [what : {"joined", "left", "state"}, from : Conns]

PresenceTypes ==
    /\ conn \in Conns /\ known \in 0..MaxConns /\ host \in 0..MaxConns /\ commits \in 0..MaxConns
    /\ detached \in BOOLEAN /\ minting \in BOOLEAN
    /\ lost \in Nat /\ kept \in SUBSET held
    /\ held \in SUBSET Paths /\ holdsSent \in SUBSET Paths /\ holdsAge \in 0..Never(Renew)
    /\ local \in Carets \cup {None} /\ own \in Entries /\ tickAge \in 0..Renew
    /\ inbox \in Seq([commits : Conns]) /\ wire \in Seq(PresenceFrames)
    /\ gone \in SUBSET Conns
    /\ shown \in [Conns -> SUBSET Paths] /\ shownLeases \in [Conns -> 0..Never(ExpireAfter)]

\* On the way to the watcher: holds, and those of this connection.
HoldsAt(i) == wire[i].what = "holds"
StateAt(i) == wire[i].what = "state"
Mine(i)    == HoldsAt(i) /\ wire[i].from = conn

\* One connection after another.
Numbers ==
    /\ minting => detached
    /\ detached => conn < MaxConns /\ inbox = <<>>
    /\ \A i \in DOMAIN inbox : inbox[i].commits = conn
    /\ host <= conn /\ commits <= host
    /\ \A n \in gone : n <= conn /\ (n = conn => detached)
    /\ \A n \in Conns : n > conn => shown[n] = {}
    /\ shown[conn] # {} => known = conn /\ commits = conn

\* The frames on the way are in the order of their connections, and what is said under the
\* present one has just been said.
InTurn ==
    /\ \A i \in DOMAIN wire :
          /\ wire[i].what = "left" => wire[i].from <= conn /\ (wire[i].from = conn => detached)
          /\ HoldsAt(i) => wire[i].from <= conn
          /\ HoldsAt(i) /\ wire[i].from # conn => shown[conn] = {}
          /\ Mine(i) => known = conn /\ holdsAge = 0
          /\ StateAt(i) => commits <= wire[i].from /\ wire[i].from <= host
    /\ \A i, j \in DOMAIN wire :
          /\ i < j /\ HoldsAt(i) /\ HoldsAt(j) => wire[i].from <= wire[j].from
          /\ i < j /\ StateAt(i) /\ StateAt(j) => wire[i].from <= wire[j].from

\* How long it is until the peer says its holds again, if nothing has it say them before: to
\* its next tick, or to the one after it when a change has put the renewal off.
UntilDue == IF holdsAge >= tickAge THEN Renew - tickAge ELSE 2 * Renew - tickAge

\* A lease that the watcher counts is renewed before it is Span(lost) old: what was lost of the
\* renewals counts, and what is on the way or comes next is soon enough.
InTime ==
    ~detached /\ shown[conn] \cap kept # {} =>
        /\ shownLeases[conn] < Span(lost)
        /\ (\A i \in DOMAIN wire : ~Mine(i)) => shownLeases[conn] + UntilDue < Span(lost)

PresenceInv == PresenceTypes /\ Numbers /\ InTurn /\ InTime

-----------------------------------------------------------------------------
(* What is published.                                                      *)

\* What a peer says, under its present connection.
Said(frames) ==
    /\ frames \in Seq(PresenceFrames)
    /\ \A i \in DOMAIN frames : frames[i].what \in {"holds", "caret"} /\ frames[i].from = conn

LEMMA FramesAreSaid ==
    ASSUME PresenceTypes
    PROVE  /\ HoldsFrame \in PresenceFrames /\ HoldsFrame.what = "holds" /\ HoldsFrame.from = conn
           /\ CaretFrame(own) \in PresenceFrames /\ CaretFrame(own).what = "caret"
           /\ CaretFrame(own).from = conn
           /\ Said(<<HoldsFrame>>) /\ Said(<<CaretFrame(own)>>) /\ Said(<<>>)
           /\ Said(<<CaretFrame(own)>> \o <<HoldsFrame>>)
           /\ Said(<<CaretFrame(own)>> \o <<>>)
           /\ Said(<<>> \o <<HoldsFrame>>) /\ Said(<<>> \o <<>>)
<1>1. /\ HoldsFrame \in PresenceFrames /\ HoldsFrame.what = "holds" /\ HoldsFrame.from = conn
      /\ CaretFrame(own) \in PresenceFrames /\ CaretFrame(own).what = "caret"
      /\ CaretFrame(own).from = conn
  BY DEF PresenceTypes, HoldsFrame, CaretFrame, PresenceFrames
<1> DEFINE h == HoldsFrame
           c == CaretFrame(own)
<1> HIDE DEF h, c
<1>2. /\ h \in PresenceFrames /\ h.what = "holds" /\ h.from = conn
      /\ c \in PresenceFrames /\ c.what = "caret" /\ c.from = conn
  BY <1>1 DEF h, c
<1>3. /\ Said(<<h>>) /\ Said(<<c>>) /\ Said(<<>>) /\ Said(<<c>> \o <<h>>)
      /\ Said(<<c>> \o <<>>) /\ Said(<<>> \o <<h>>) /\ Said(<<>> \o <<>>)
  BY <1>2 DEF Said
<1> QED
  BY <1>1, <1>3 DEF h, c

\* What is left of a sequence when one element is taken out: the others, and nothing else.
LEMMA RemovedKeeps ==
    ASSUME NEW frames \in Seq(PresenceFrames), NEW i \in DOMAIN frames
    PROVE  /\ \A n \in DOMAIN RemoveAt(frames, i) :
                 \E j \in DOMAIN frames : RemoveAt(frames, i)[n] = frames[j]
           /\ \A j \in DOMAIN frames : j # i =>
                 \E n \in DOMAIN RemoveAt(frames, i) : RemoveAt(frames, i)[n] = frames[j]
<1> DEFINE tail == RemoveAt(frames, i)
           front == SubSeq(frames, 1, i - 1)
           back == SubSeq(frames, i + 1, Len(frames))
<1>1. /\ Len(frames) \in Nat /\ i \in 1..Len(frames) /\ DOMAIN frames = 1..Len(frames)
      /\ tail = front \o back
  BY DEF RemoveAt
<1>2. /\ front \in Seq(PresenceFrames) /\ Len(front) = i - 1
      /\ \A k \in 1..(i - 1) : front[k] = frames[k]
  BY <1>1
<1>3. /\ back \in Seq(PresenceFrames) /\ Len(back) = Len(frames) - i
      /\ \A k \in 1..(Len(frames) - i) : back[k] = frames[k + i]
  <2> DEFINE l == Len(frames)
             m == i + 1
  <2>1. m \in Nat /\ l \in Nat /\ m >= 1 /\ m <= l + 1 /\ l - i = l - m + 1
    BY <1>1
  <2>2. \A k \in m..l : k \in DOMAIN frames
    BY <1>1, <2>1
  <2> HIDE DEF m, l
  <2>3. SubSeq(frames, m, l) \in Seq(PresenceFrames)
    BY <2>1, <2>2
  <2>4. Len(SubSeq(frames, m, l)) = l - m + 1
    BY <2>1
  <2>5. \A k \in 1..(l - m + 1) : SubSeq(frames, m, l)[k] = frames[m + k - 1]
    BY <2>1
  <2>6. \A k \in 1..(l - i) : m + k - 1 = k + i
    BY <1>1 DEF m, l
  <2> QED
    BY <2>1, <2>3, <2>4, <2>5, <2>6 DEF m, l
<1> DEFINE l == Len(frames)
<1> HIDE DEF front, back, tail, l
<1>4. /\ l \in Nat /\ i \in Nat /\ 1 <= i /\ i <= l /\ DOMAIN frames = 1..l
      /\ tail = front \o back /\ Len(front) = i - 1 /\ Len(back) = l - i
  BY <1>1, <1>2, <1>3 DEF l
<1>5. /\ DOMAIN tail = 1..(l - 1)
      /\ \A n \in 1..(l - 1) : tail[n] = IF n < i THEN front[n] ELSE back[n - (i - 1)]
  <2>1. /\ Len(front \o back) = Len(front) + Len(back)
        /\ DOMAIN (front \o back) = 1..(Len(front) + Len(back))
        /\ \A n \in 1..(Len(front) + Len(back)) :
              (front \o back)[n] = IF n <= Len(front) THEN front[n] ELSE back[n - Len(front)]
    <3>1. front \in Seq(PresenceFrames) /\ back \in Seq(PresenceFrames)
      BY ONLY <1>2, <1>3
    <3>2. /\ Len(front \o back) = Len(front) + Len(back)
          /\ DOMAIN (front \o back) = 1..(Len(front) + Len(back))
      BY ONLY <3>1
    <3>3. ASSUME NEW n \in 1..(Len(front) + Len(back))
          PROVE  (front \o back)[n] = IF n <= Len(front) THEN front[n] ELSE back[n - Len(front)]
      BY ONLY <3>1, <3>3
    <3> QED
      BY ONLY <3>2, <3>3
  <2>2. Len(front) + Len(back) = l - 1
    BY ONLY <1>4
  <2>3. \A n \in 1..(l - 1) : n <= i - 1 <=> n < i
    BY ONLY <1>4
  <2> QED
    BY ONLY <1>4, <2>1, <2>2, <2>3
<1>6. \A n \in DOMAIN tail : \E j \in DOMAIN frames : tail[n] = frames[j]
  <2> TAKE n \in DOMAIN tail
  <2>0. n \in 1..(l - 1)
    BY ONLY <1>5, n \in DOMAIN tail
  <2>1. CASE n < i
    <3>1. n \in 1..(i - 1) /\ n \in DOMAIN frames
      BY ONLY <1>4, <2>1, <2>0
    <3> QED
      BY ONLY <1>2, <1>5, <2>1, <3>1, <2>0
  <2>2. CASE ~(n < i)
    <3>1. /\ n - (i - 1) \in 1..(l - i) /\ n - (i - 1) + i = n + 1
          /\ n + 1 \in DOMAIN frames
      BY ONLY <1>4, <2>2, <2>0
    <3>2. back[n - (i - 1)] = frames[n + 1]
      BY ONLY <1>3, <3>1 DEF l
    <3> QED
      BY ONLY <1>5, <2>2, <3>1, <3>2, <2>0
  <2> QED
    BY ONLY <2>1, <2>2
<1>7. \A j \in DOMAIN frames : j # i => \E n \in DOMAIN tail : tail[n] = frames[j]
  <2> TAKE j \in DOMAIN frames
  <2> HAVE j # i
  <2>0. j \in 1..l /\ j # i
    BY ONLY <1>4, j \in DOMAIN frames, j # i
  <2>1. CASE j < i
    <3>1. j \in 1..(i - 1) /\ j \in 1..(l - 1)
      BY ONLY <1>4, <2>1, <2>0
    <3>2. tail[j] = frames[j]
      BY ONLY <1>2, <1>5, <2>1, <3>1
    <3> QED
      BY ONLY <1>5, <3>1, <3>2
  <2>2. CASE ~(j < i)
    <3> DEFINE k == j - i
    <3>1. /\ j - 1 \in 1..(l - 1) /\ ~(j - 1 < i) /\ (j - 1) - (i - 1) = k
          /\ k \in 1..(l - i) /\ k + i = j
      <4>1. l \in Nat /\ i \in Nat /\ j \in Nat /\ 1 <= i /\ i < j /\ j <= l
        BY ONLY <1>4, <2>2, <2>0
      <4> QED
        BY ONLY <4>1
    <3> HIDE DEF k
    <3>2. back[k] = frames[j]
      BY ONLY <1>3, <3>1 DEF l
    <3>3. tail[j - 1] = frames[j]
      BY ONLY <1>5, <3>1, <3>2
    <3> QED
      BY ONLY <1>5, <3>1, <3>3
  <2> QED
    BY ONLY <2>1, <2>2
<1> QED
  BY <1>6, <1>7 DEF tail

LEMMA LosingIs ==
    ASSUME PresenceTypes, NEW frames, Losing(frames)
    PROVE  /\ lost' \in {lost, lost + 1} /\ lost' \in Nat
           /\ (\E i \in DOMAIN frames : frames[i].what = "holds") => lost' = lost + 1
BY DEF Losing, PresenceTypes

\* What went out of what was to be said has the holds, or they are counted as lost.
Went(frames, tail) ==
    \/ lost' = lost + 1
    \/ /\ lost' = lost
       /\ \A j \in DOMAIN frames :
             frames[j].what = "holds" => \E i \in DOMAIN tail : tail[i] = frames[j]

\* A part of what was to be said goes out: all of it, or all but a frame.
LEMMA PublishIs ==
    ASSUME PresenceTypes, NEW frames, Said(frames), Publish(frames)
    PROVE  \E tail \in Seq(PresenceFrames) :
              /\ wire' = wire \o tail
              /\ Said(tail)
              /\ \A i \in DOMAIN tail : \E j \in DOMAIN frames : tail[i] = frames[j]
              /\ lost' \in Nat /\ Went(frames, tail)
<1>1. CASE wire' = wire \o frames /\ UNCHANGED faults
  <2>1. lost' = lost /\ lost \in Nat
    BY <1>1 DEF faults, PresenceTypes
  <2>2. frames \in Seq(PresenceFrames)
    BY DEF Said
  <2>3. Went(frames, frames)
    BY <2>1 DEF Went
  <2> QED
    BY <1>1, <2>1, <2>2, <2>3
<1>2. ASSUME NEW i \in DOMAIN frames, wire' = wire \o RemoveAt(frames, i),
             Losing(<<frames[i]>>)
      PROVE  \E tail \in Seq(PresenceFrames) :
              /\ wire' = wire \o tail
              /\ Said(tail)
              /\ \A n \in DOMAIN tail : \E j \in DOMAIN frames : tail[n] = frames[j]
              /\ lost' \in Nat /\ Went(frames, tail)
  <2> DEFINE tail == RemoveAt(frames, i)
  <2>1. frames \in Seq(PresenceFrames)
    BY DEF Said
  <2>2. tail \in Seq(PresenceFrames)
    BY <2>1 DEF RemoveAt
  <2>3. \A n \in DOMAIN tail : \E j \in DOMAIN frames : tail[n] = frames[j]
    BY <2>1, RemovedKeeps
  <2>4. Said(tail)
    BY <2>2, <2>3 DEF Said
  <2>5. \A j \in DOMAIN frames : j # i => \E n \in DOMAIN tail : tail[n] = frames[j]
    BY <2>1, RemovedKeeps
  <2> HIDE DEF tail
  <2>6. wire' = wire \o tail
    BY <1>2 DEF tail
  <2> DEFINE g == frames[i]
  <2> HIDE DEF g
  <2>7. Losing(<<g>>) /\ 1 \in DOMAIN <<g>> /\ <<g>>[1] = g
    BY <1>2 DEF g
  <2>8. lost' \in {lost, lost + 1} /\ lost' \in Nat /\ (g.what = "holds" => lost' = lost + 1)
    BY <2>7, LosingIs
  <2>9. Went(frames, tail)
    BY <2>5, <2>8 DEF Went, g
  <2> QED
    BY <2>2, <2>3, <2>4, <2>6, <2>8, <2>9
<1> QED
  BY <1>1, <1>2 DEF Publish

\* Nothing that goes out disturbs the order on the wire.
LEMMA LongerInTurn ==
    ASSUME PresenceTypes, InTurn, NEW tail \in Seq(PresenceFrames), Said(tail),
           wire' = wire \o tail, UNCHANGED <<conn, detached, shown, host, commits>>,
           known' \in {known, conn}, holdsAge' \in {holdsAge, 0},
           \A i \in DOMAIN tail : tail[i].what = "holds" => known' = conn /\ holdsAge' = 0
    PROVE  InTurn'
<1>1. /\ wire \in Seq(PresenceFrames)
      /\ DOMAIN wire' = 1..(Len(wire) + Len(tail))
      /\ \A i \in DOMAIN wire : wire'[i] = wire[i]
      /\ \A i \in DOMAIN wire' \ DOMAIN wire :
            i - Len(wire) \in DOMAIN tail /\ wire'[i] = tail[i - Len(wire)]
      /\ Len(wire) \in Nat /\ Len(tail) \in Nat /\ DOMAIN wire = 1..Len(wire)
  BY DEF PresenceTypes
<1>2. \A i \in DOMAIN wire' \ DOMAIN wire :
         /\ wire'[i].what \in {"holds", "caret"} /\ wire'[i].from = conn
         /\ wire'[i].what = "holds" => known' = conn /\ holdsAge' = 0
  BY <1>1 DEF Said
<1>3. conn \in Nat
  BY DEF PresenceTypes, Conns
<1>4. \A i \in DOMAIN wire' :
          /\ wire'[i].what = "left" => wire'[i].from <= conn /\ (wire'[i].from = conn => detached)
          /\ wire'[i].what = "holds" => wire'[i].from <= conn
          /\ wire'[i].what = "holds" /\ wire'[i].from # conn => shown[conn] = {}
          /\ wire'[i].what = "holds" /\ wire'[i].from = conn => known' = conn /\ holdsAge' = 0
          /\ wire'[i].what = "state" => commits <= wire'[i].from /\ wire'[i].from <= host
  <2> TAKE i \in DOMAIN wire'
  <2>1. CASE i \in DOMAIN wire
    BY <1>1, <2>1 DEF InTurn, HoldsAt, StateAt, Mine
  <2>2. CASE i \notin DOMAIN wire
    BY <1>2, <1>3, <2>2
  <2> QED
    BY <2>1, <2>2
<1>5. \A i, j \in DOMAIN wire' :
          /\ i < j /\ wire'[i].what = "holds" /\ wire'[j].what = "holds"
                => wire'[i].from <= wire'[j].from
          /\ i < j /\ wire'[i].what = "state" /\ wire'[j].what = "state"
                => wire'[i].from <= wire'[j].from
  <2> TAKE i, j \in DOMAIN wire'
  <2>1. CASE i \in DOMAIN wire /\ j \in DOMAIN wire
    BY <1>1, <2>1 DEF InTurn, HoldsAt, StateAt
  <2>2. CASE i \notin DOMAIN wire /\ j \in DOMAIN wire
    BY <1>1, <2>2
  <2>3. CASE j \notin DOMAIN wire
    BY <1>2, <1>4, <2>3
  <2> QED
    BY <2>1, <2>2, <2>3
<1> QED
  BY <1>4, <1>5 DEF InTurn, HoldsAt, StateAt, Mine

\* The frame that is heard is taken off.
LEMMA HeadAndTail ==
    ASSUME PresenceTypes, wire # <<>>, wire' = Tail(wire)
    PROVE  /\ 1 \in DOMAIN wire /\ Head(wire) = wire[1] /\ Head(wire) \in PresenceFrames
           /\ wire' \in Seq(PresenceFrames)
           /\ \A i \in DOMAIN wire' : i + 1 \in DOMAIN wire /\ wire'[i] = wire[i + 1] /\ i \in Nat
<1>1. wire \in Seq(PresenceFrames)
  BY DEF PresenceTypes
<1>2. Len(wire) \in Nat \ {0} /\ DOMAIN wire = 1..Len(wire)
  BY <1>1
<1>3. /\ wire' \in Seq(PresenceFrames) /\ Len(wire') = Len(wire) - 1
      /\ DOMAIN wire' = 1..(Len(wire) - 1)
  BY <1>1, <1>2
<1>4. \A i \in 1..(Len(wire) - 1) : wire'[i] = wire[i + 1]
  BY <1>1, <1>2
<1>5. Head(wire) = wire[1] /\ wire[1] \in PresenceFrames
  BY <1>1, <1>2
<1> QED
  BY <1>2, <1>3, <1>4, <1>5

-----------------------------------------------------------------------------
LEMMA PresenceInitKeeps == PresenceInit => PresenceInv
<1> SUFFICES ASSUME PresenceInit PROVE PresenceInv
  OBVIOUS
<1> USE PresenceAssumption DEF PresenceInit
<1>1. PresenceTypes
  <2>1. inbox \in Seq([commits : Conns]) /\ wire \in Seq(PresenceFrames)
    OBVIOUS
  <2>2. /\ conn \in Conns /\ known \in 0..MaxConns /\ host \in 0..MaxConns
        /\ commits \in 0..MaxConns /\ tickAge \in 0..Renew /\ holdsAge \in 0..Never(Renew)
    BY DEF Conns, Never
  <2>3. own \in Entries
    BY DEF Gone, Entries
  <2>4. shown \in [Conns -> SUBSET Paths] /\ shownLeases \in [Conns -> 0..Never(ExpireAfter)]
    BY DEF Never
  <2> QED
    BY <2>1, <2>2, <2>3, <2>4 DEF PresenceTypes
<1>2. Numbers
  BY <1>1, PresenceAssumption DEF PresenceInit, Numbers, PresenceTypes, Conns
<1>3. InTurn /\ InTime
  BY <1>1 DEF PresenceInit, InTurn, InTime, PresenceTypes, HoldsAt, StateAt, Mine
<1> QED
  BY <1>1, <1>2, <1>3 DEF PresenceInv
-----------------------------------------------------------------------------
(* One action after another.                                               *)

LEMMA SpanIs ==
    ASSUME NEW n \in Nat
    PROVE  /\ Span(n) \in Nat /\ Span(n) >= 2 * Renew
           /\ Span(n + 1) = Span(n) + Renew
           /\ Span(0) = 2 * Renew
BY PresenceAssumption DEF Span

LEMMA SpansAre ==
    ASSUME PresenceTypes
    PROVE  /\ lost \in Nat /\ Renew \in Nat /\ Span(lost) \in Nat /\ Span(lost + 1) \in Nat
           /\ Span(lost + 1) = Span(lost) + Renew /\ Span(lost) <= Span(lost + 1)
<1>1. lost \in Nat
  BY DEF PresenceTypes
<1>2. Renew \in Nat /\ lost + 1 \in Nat
  BY ONLY <1>1, PresenceAssumption
<1>3. Span(lost) \in Nat /\ Span(lost + 1) \in Nat /\ Span(lost + 1) = Span(lost) + Renew
  BY ONLY <1>1, <1>2, SpanIs
<1> QED
  BY ONLY <1>1, <1>2, <1>3

LEMMA AgesAre ==
    ASSUME PresenceTypes
    PROVE  shownLeases[conn] \in Nat /\ tickAge \in Nat /\ tickAge \in 0..Renew /\ holdsAge \in Nat
<1>1. Renew \in Nat /\ Never(ExpireAfter) \in Nat /\ Never(Renew) \in Nat
  BY PresenceAssumption DEF Never
<1>2. shownLeases[conn] \in 0..Never(ExpireAfter) /\ tickAge \in 0..Renew
      /\ holdsAge \in 0..Never(Renew)
  BY DEF PresenceTypes
<1> QED
  BY ONLY <1>1, <1>2

\* What HoldsAreKept says of a step.
StaysShown ==
    \A p \in shown[conn] :
        ~detached /\ ~detached' /\ Span(lost) <= ExpireAfter /\ p \in kept' /\ OnTheWay(p)
            => p \in shown'[conn]

\* A step that loses frames but leaves the lease and what the peer owes as they were.
LEMMA LosesInTime ==
    ASSUME PresenceTypes, InTime, lost' \in {lost, lost + 1},
           UNCHANGED <<conn, detached, shown, shownLeases, kept, holdsAge, tickAge>>,
           (\A i \in DOMAIN wire' : ~Mine(i)') => \A i \in DOMAIN wire : ~Mine(i)
    PROVE  InTime'
<1>1. /\ Span(lost) \in Nat /\ Span(lost') \in Nat /\ Span(lost) <= Span(lost')
      /\ shownLeases[conn] \in Nat /\ tickAge \in Nat /\ holdsAge \in Nat /\ Renew \in Nat
  <2>1. lost' = lost \/ lost' = lost + 1
    OBVIOUS
  <2> QED
    BY ONLY <2>1, SpansAre, AgesAre, PresenceTypes
<1>2. UntilDue' = UntilDue /\ UntilDue \in Int
  BY <1>1 DEF UntilDue
<1>3. Span(lost)' = Span(lost')
  BY DEF Span
<1> QED
  BY <1>1, <1>2, <1>3 DEF InTime

\* A step in which the peer says its holds, or has them lost: the next are a renewal further off.
LEMMA SaidInTime ==
    ASSUME PresenceTypes, InTime, holdsAge' = 0,
           tickAge' = tickAge \/ (tickAge = Renew /\ tickAge' = 0),
           UNCHANGED <<conn, detached, shown, shownLeases, kept>>,
           lost' = lost + 1 \/ (lost' = lost /\ \E i \in DOMAIN wire' : Mine(i)'),
           (\A i \in DOMAIN wire' : ~Mine(i)') => \A i \in DOMAIN wire : ~Mine(i)
    PROVE  InTime'
<1>1. /\ lost \in Nat /\ Span(lost) \in Nat /\ Span(lost + 1) = Span(lost) + Renew
      /\ shownLeases[conn] \in Nat /\ tickAge \in 0..Renew /\ holdsAge \in Nat /\ Renew \in Nat
  BY ONLY SpansAre, AgesAre, PresenceTypes
<1>2. UntilDue' <= UntilDue + Renew /\ UntilDue \in Int /\ UntilDue' \in Int
  BY <1>1 DEF UntilDue
<1>3. Span(lost)' = Span(lost')
  BY DEF Span
<1> SUFFICES ASSUME ~detached', (shown[conn] \cap kept)' # {}
             PROVE  /\ shownLeases'[conn'] < Span(lost')
                    /\ (\A i \in DOMAIN wire' : ~Mine(i)')
                          => shownLeases'[conn'] + UntilDue' < Span(lost')
  BY <1>3 DEF InTime
<1>4. shownLeases[conn] < Span(lost)
  BY DEF InTime
<1>5. CASE lost' = lost + 1
  BY <1>1, <1>2, <1>4, <1>5 DEF InTime
<1>6. CASE lost' = lost /\ \E i \in DOMAIN wire' : Mine(i)'
  BY <1>4, <1>6
<1> QED
  BY <1>5, <1>6

\* What is said leaves the wire in turn, and on its way before what was said now.
LEMMA SaysInTurn ==
    ASSUME PresenceInv, NEW frames, Said(frames), Publish(frames),
           UNCHANGED <<conn, detached, shown, host, commits>>,
           known' \in {known, conn}, holdsAge' \in {holdsAge, 0},
           \A i \in DOMAIN frames : frames[i].what = "holds" => known' = conn /\ holdsAge' = 0
    PROVE  /\ InTurn' /\ wire' \in Seq(PresenceFrames) /\ lost' \in Nat /\ Went(frames, wire')
           /\ (\A i \in DOMAIN wire' : ~Mine(i)') => \A i \in DOMAIN wire : ~Mine(i)
<1>1. PICK tail \in Seq(PresenceFrames) :
              /\ wire' = wire \o tail
              /\ Said(tail)
              /\ \A i \in DOMAIN tail : \E j \in DOMAIN frames : tail[i] = frames[j]
              /\ lost' \in Nat /\ Went(frames, tail)
  BY PublishIs DEF PresenceInv
<1>2. \A i \in DOMAIN tail : tail[i].what = "holds" => known' = conn /\ holdsAge' = 0
  BY <1>1
<1>3. InTurn'
  BY <1>1, <1>2, LongerInTurn DEF PresenceInv
<1>4. wire \in Seq(PresenceFrames)
  BY DEF PresenceInv, PresenceTypes
<1>5. \A i \in DOMAIN wire : i \in DOMAIN wire' /\ wire'[i] = wire[i]
  BY <1>1, <1>4
<1>6. wire' \in Seq(PresenceFrames)
  BY <1>1, <1>4
<1>7. Went(frames, wire')
  <2>1. ASSUME NEW i \in DOMAIN tail
        PROVE  Len(wire) + i \in DOMAIN wire' /\ wire'[Len(wire) + i] = tail[i]
    BY <1>1, <1>4, <2>1
  <2>2. \A i \in DOMAIN tail : \E k \in DOMAIN wire' : wire'[k] = tail[i]
    BY ONLY <2>1
  <2>3. Went(frames, tail)
    BY <1>1
  <2> QED
    BY ONLY <2>2, <2>3 DEF Went
<1> QED
  BY <1>1, <1>3, <1>5, <1>6, <1>7 DEF Mine, HoldsAt

LEMMA EntriesAre ==
    \A v \in Carets \cup {None} : [state |-> v, fresh |-> FALSE] \in Entries
BY DEF Entries

LEMMA PersonKeeps ==
    ASSUME PresenceInv, Person
    PROVE  PresenceInv' /\ StaysShown
<1> USE DEF PresenceInv
<1>1. UNCHANGED <<peer, host, inbox, wire, watcher, timers, faults, holdsSent, holdsAge>>
  BY DEF Person, Open, Release, holds
<1>2. /\ UNCHANGED <<conn, detached, minting, known, host, inbox, wire, gone, commits, shown,
                     shownLeases, tickAge, lost, holdsSent, holdsAge>>
  BY <1>1 DEF peer, watcher, timers, faults
<1>3. held' \in SUBSET Paths /\ kept' \in SUBSET held' /\ kept' \subseteq kept
  BY DEF Person, Open, Release, holds, PresenceTypes
<1>4. local' \in Carets \cup {None} /\ own' \in Entries
  <2>1. \/ UNCHANGED <<local, own>>
        \/ \E v \in Carets \cup {None} : local' = v /\ own' = [state |-> v, fresh |-> FALSE]
    BY DEF Person, SetAwareness, SetLocalState, caret
  <2>2. local \in Carets \cup {None} /\ own \in Entries
    BY DEF PresenceTypes
  <2> QED
    BY <2>1, <2>2, EntriesAre
<1>5. PresenceTypes'
  BY <1>2, <1>3, <1>4 DEF PresenceTypes
<1>6. Numbers' /\ InTurn' /\ InTime'
  BY <1>2, <1>3 DEF Numbers, InTurn, InTime, UntilDue, Span, HoldsAt, StateAt, Mine
<1> QED
  BY <1>2, <1>5, <1>6 DEF StaysShown

LEMMA JobKeeps ==
    ASSUME PresenceInv, Job
    PROVE  PresenceInv' /\ StaysShown
<1> USE DEF PresenceInv
<1>1. /\ UNCHANGED <<conn, detached, minting, known, host, inbox, gone, commits, shown,
                     shownLeases, tickAge, held, holdsSent, holdsAge, local, own, kept>>
  BY DEF Job, peer, watcher, timers, holds, doings
<1>2. /\ InTurn' /\ wire' \in Seq(PresenceFrames) /\ lost' \in Nat /\ lost' \in {lost, lost + 1}
      /\ (\A i \in DOMAIN wire' : ~Mine(i)') => \A i \in DOMAIN wire : ~Mine(i)
  <2>1. CASE MayPublish
    <3>1. Publish(<<CaretFrame(own)>>)
      BY <2>1 DEF Job
    <3>2. Said(<<CaretFrame(own)>>) /\ CaretFrame(own).what = "caret"
      BY FramesAreSaid
    <3> DEFINE c == CaretFrame(own)
    <3> HIDE DEF c
    <3>3. \A i \in DOMAIN <<c>> : <<c>>[i].what # "holds"
      BY <3>2 DEF c
    <3>4. Publish(<<c>>) /\ Said(<<c>>)
      BY <3>1, <3>2 DEF c
    <3> QED
      BY <1>1, <3>3, <3>4, SaysInTurn DEF Went
  <2>2. CASE ~MayPublish
    <3>1. UNCHANGED <<wire, lost>>
      BY <2>2 DEF Job, faults
    <3> QED
      BY <1>1, <3>1 DEF InTurn, HoldsAt, StateAt, Mine, PresenceTypes
  <2> QED
    BY <2>1, <2>2
<1>3. PresenceTypes' /\ Numbers'
  BY <1>1, <1>2 DEF PresenceTypes, Numbers
<1>4. InTime'
  BY <1>1, <1>2, LosesInTime
<1> QED
  BY <1>1, <1>2, <1>3, <1>4 DEF StaysShown

LEMMA PresenceTickKeeps ==
    ASSUME PresenceInv, PresenceTick
    PROVE  PresenceInv' /\ StaysShown
<1> USE DEF PresenceInv
<1> DEFINE owed == MayPublish /\ OwesHolds
<1>1. /\ UNCHANGED <<conn, detached, minting, known, host, inbox, gone, commits, shown,
                     shownLeases, held, local, kept>>
  BY DEF PresenceTick, peer, watcher, AnnounceHolds, Announced, RenewAwareness, caret, holds,
         doings
<1>2. own' \in Entries
  <2>1. own' \in {own, [state |-> local, fresh |-> FALSE]}
    BY DEF PresenceTick, RenewAwareness, SetLocalState, caret
  <2>2. local \in Carets \cup {None} /\ own \in Entries
    BY DEF PresenceTypes
  <2> QED
    BY <2>1, <2>2, EntriesAre
<1>3. /\ tickAge' = IF tickAge = Renew THEN 0 ELSE tickAge
      /\ IF owed THEN holdsSent' = held /\ holdsAge' = 0 ELSE UNCHANGED <<holdsSent, holdsAge>>
      /\ IF owed THEN Publish(<<HoldsFrame>>) ELSE UNCHANGED <<wire, lost>>
  BY DEF PresenceTick, AnnounceHolds, Announced, holds, faults
<1>4. /\ InTurn' /\ wire' \in Seq(PresenceFrames) /\ lost' \in Nat
      /\ owed => lost' = lost + 1 \/ (lost' = lost /\ \E i \in DOMAIN wire' : Mine(i)')
      /\ (\A i \in DOMAIN wire' : ~Mine(i)') => \A i \in DOMAIN wire : ~Mine(i)
  <2>1. CASE owed
    <3> DEFINE h == HoldsFrame
    <3>1. Publish(<<h>>) /\ known' = conn /\ holdsAge' = 0
      BY <1>1, <1>3, <2>1 DEF MayPublish
    <3>2. Said(<<h>>) /\ h.what = "holds" /\ h.from = conn
      BY FramesAreSaid
    <3> HIDE DEF h, owed
    <3>3. /\ InTurn' /\ wire' \in Seq(PresenceFrames) /\ lost' \in Nat /\ Went(<<h>>, wire')
          /\ (\A i \in DOMAIN wire' : ~Mine(i)') => \A i \in DOMAIN wire : ~Mine(i)
      BY <1>1, <3>1, <3>2, SaysInTurn
    <3>4. ASSUME lost' # lost + 1
          PROVE  lost' = lost /\ \E i \in DOMAIN wire' : Mine(i)'
      <4>1. 1 \in DOMAIN <<h>> /\ <<h>>[1] = h
        OBVIOUS
      <4>2. PICK i \in DOMAIN wire' : wire'[i] = h
        BY <3>2, <3>3, <3>4, <4>1 DEF Went
      <4> QED
        BY <1>1, <3>2, <3>3, <3>4, <4>2 DEF Mine, HoldsAt, Went
    <3> QED
      BY <3>3, <3>4
  <2>2. CASE ~owed
    <3> HIDE DEF owed
    <3> QED
      BY <1>1, <1>3, <2>2 DEF InTurn, HoldsAt, StateAt, Mine, PresenceTypes
  <2> QED
    BY <2>1, <2>2
<1>5. PresenceTypes' /\ Numbers'
  <2> HIDE DEF owed
  <2>1. tickAge' \in 0..Renew /\ holdsAge' \in 0..Never(Renew) /\ holdsSent' \in SUBSET Paths
    BY <1>3, PresenceAssumption DEF PresenceTypes, Never
  <2> QED
    BY <1>1, <1>2, <1>4, <2>1 DEF PresenceTypes, Numbers
<1>6. InTime'
  <2> HIDE DEF owed
  <2>1. CASE owed
    BY <1>1, <1>3, <1>4, <2>1, SaidInTime
  <2>2. CASE ~owed
    <3> SUFFICES ASSUME ~detached, shown[conn] \cap kept # {}
                 PROVE  /\ shownLeases[conn] < Span(lost)
                        /\ (\A i \in DOMAIN wire' : ~Mine(i)')
                              => shownLeases[conn] + UntilDue' < Span(lost)
      BY <1>1, <1>3, <2>2 DEF InTime, Span
    <3>1. known = conn /\ held # {}
      BY DEF Numbers, PresenceTypes
    <3>2. holdsAge < Renew /\ holdsAge \in Nat /\ tickAge \in 0..Renew /\ Renew \in Nat
      BY <2>2, <3>1, PresenceAssumption
         DEF MayPublish, OwesHolds, NothingToSay, HoldsDue, Due, Never, PresenceTypes, owed
    <3>3. UntilDue' = UntilDue
      BY <1>3, <2>2, <3>2 DEF UntilDue
    <3> QED
      BY <1>4, <3>3 DEF InTime
  <2> QED
    BY <2>1, <2>2
<1> QED
  BY <1>1, <1>4, <1>5, <1>6 DEF StaysShown

LEMMA HearStateKeeps ==
    ASSUME PresenceInv, HearState
    PROVE  PresenceInv' /\ StaysShown
<1> USE DEF PresenceInv
<1>1. /\ UNCHANGED <<conn, detached, minting, host, gone, commits, shown, shownLeases, held,
                     tickAge, local, own, kept>>
      /\ inbox # <<>> /\ inbox' = Tail(inbox) /\ known' = Head(inbox).commits
  BY DEF HearState, watcher, timers, Flush, Announced, holds, doings
<1>2. /\ inbox \in Seq([commits : Conns]) /\ Head(inbox) = inbox[1] /\ 1 \in DOMAIN inbox
      /\ inbox' \in Seq([commits : Conns])
      /\ \A i \in DOMAIN inbox' : i + 1 \in DOMAIN inbox /\ inbox'[i] = inbox[i + 1]
  BY <1>1 DEF PresenceTypes
<1>3. known' = conn /\ ~detached /\ ~minting
  BY <1>1, <1>2 DEF Numbers
<1>4. Flush
  BY <1>3 DEF HearState
<1> DEFINE said == HeldBackAwareness \o (IF OwesHolds THEN <<HoldsFrame>> ELSE <<>>)
<1>5. /\ Publish(said)
      /\ IF OwesHolds THEN holdsSent' = held /\ holdsAge' = 0 ELSE UNCHANGED <<holdsSent, holdsAge>>
  BY <1>4 DEF Flush, Announced, holds
<1>6. /\ Said(said)
      /\ ~OwesHolds => \A i \in DOMAIN said : said[i].what # "holds"
      /\ OwesHolds => \E i \in DOMAIN said : said[i].what = "holds" /\ said[i].from = conn
  <2> DEFINE h == HoldsFrame
             c == CaretFrame(own)
  <2>1. /\ h.what = "holds" /\ h.from = conn /\ c.what = "caret"
        /\ Said(<<h>>) /\ Said(<<c>>) /\ Said(<<>>)
        /\ Said(<<c>> \o <<h>>) /\ Said(<<c>> \o <<>>) /\ Said(<<>> \o <<h>>) /\ Said(<<>> \o <<>>)
    BY FramesAreSaid
  <2>2. said \in IF OwesHolds THEN {<<c>> \o <<h>>, <<>> \o <<h>>}
                 ELSE {<<c>> \o <<>>, <<>> \o <<>>}
    BY DEF HeldBackAwareness
  <2> HIDE DEF h, c, said
  <2>3. 2 \in DOMAIN (<<c>> \o <<h>>) /\ (<<c>> \o <<h>>)[2] = h
    OBVIOUS
  <2>4. 1 \in DOMAIN (<<>> \o <<h>>) /\ (<<>> \o <<h>>)[1] = h
    OBVIOUS
  <2>5. \A i \in DOMAIN (<<c>> \o <<>>) : (<<c>> \o <<>>)[i] = c
    OBVIOUS
  <2>6. DOMAIN (<<>> \o <<>>) = {}
    OBVIOUS
  <2> QED
    BY <2>1, <2>2, <2>3, <2>4, <2>5, <2>6
<1> HIDE DEF said
<1>7. /\ InTurn' /\ wire' \in Seq(PresenceFrames) /\ lost' \in Nat /\ Went(said, wire')
      /\ (\A i \in DOMAIN wire' : ~Mine(i)') => \A i \in DOMAIN wire : ~Mine(i)
  BY <1>1, <1>3, <1>5, <1>6, SaysInTurn
<1>8. PresenceTypes' /\ Numbers'
  <2>1. holdsAge' \in 0..Never(Renew) /\ holdsSent' \in SUBSET Paths
    BY <1>5, PresenceAssumption DEF PresenceTypes, Never
  <2>2. known' \in 0..MaxConns
    BY <1>3 DEF PresenceTypes, Conns
  <2>3. PresenceTypes'
    BY <1>1, <1>2, <1>7, <2>1, <2>2 DEF PresenceTypes
  <2>4. Numbers'
    BY <1>1, <1>2, <1>3 DEF Numbers
  <2> QED
    BY <2>3, <2>4
<1>9. InTime'
  <2>1. CASE OwesHolds
    <3>1. PICK i \in DOMAIN said : said[i].what = "holds" /\ said[i].from = conn
      BY <1>6, <2>1
    <3>2. lost' = lost + 1 \/ (lost' = lost /\ \E n \in DOMAIN wire' : Mine(n)')
      BY <1>1, <1>7, <3>1 DEF Went, Mine, HoldsAt
    <3> QED
      BY <1>1, <1>5, <1>7, <2>1, <3>2, SaidInTime
  <2>2. CASE ~OwesHolds
    <3>1. lost' \in {lost, lost + 1} /\ holdsAge' = holdsAge
      BY <1>5, <1>7, <2>2 DEF Went
    <3> QED
      BY <1>1, <1>7, <3>1, LosesInTime
  <2> QED
    BY <2>1, <2>2
<1> QED
  BY <1>1, <1>7, <1>8, <1>9 DEF StaysShown

\* A frame of the server's: the peer is let go or let in, or a state names its key.
LEMMA ServerInTurn ==
    ASSUME PresenceInv, NEW f \in PresenceFrames, wire' = Append(wire, f),
           f.what \in {"joined", "left", "state"},
           f.what = "left" => f.from = conn /\ detached',
           f.what = "state" => f.from = conn /\ host' = conn,
           UNCHANGED <<conn, known, holdsAge, shown, commits>>,
           detached => detached', host' \in {host, conn}
    PROVE  /\ InTurn' /\ wire' \in Seq(PresenceFrames)
           /\ (\A i \in DOMAIN wire' : ~Mine(i)') => \A i \in DOMAIN wire : ~Mine(i)
<1> USE DEF PresenceInv
<1>1. /\ wire \in Seq(PresenceFrames) /\ wire' \in Seq(PresenceFrames)
      /\ Len(wire) \in Nat /\ DOMAIN wire = 1..Len(wire) /\ DOMAIN wire' = 1..(Len(wire) + 1)
      /\ \A i \in DOMAIN wire : wire'[i] = wire[i]
      /\ wire'[Len(wire) + 1] = f
  BY DEF PresenceTypes
<1>2. conn \in Nat /\ host \in Nat /\ commits \in Nat /\ host <= conn /\ commits <= host
  BY DEF PresenceTypes, Conns, Numbers
<1>3. \A i \in DOMAIN wire : wire[i].what = "state" => wire[i].from \in Nat
  BY <1>1 DEF PresenceFrames, Conns
<1>4. \A i \in DOMAIN wire' :
          /\ wire'[i].what = "left" => wire'[i].from <= conn /\ (wire'[i].from = conn => detached')
          /\ wire'[i].what = "holds" => wire'[i].from <= conn
          /\ wire'[i].what = "holds" /\ wire'[i].from # conn => shown[conn] = {}
          /\ wire'[i].what = "holds" /\ wire'[i].from = conn => known = conn /\ holdsAge = 0
          /\ wire'[i].what = "state" => commits <= wire'[i].from /\ wire'[i].from <= host'
  <2> TAKE i \in DOMAIN wire'
  <2>1. CASE i \in DOMAIN wire
    BY <1>1, <1>2, <1>3, <2>1 DEF InTurn, HoldsAt, StateAt, Mine
  <2>2. CASE i = Len(wire) + 1
    BY <1>1, <1>2, <2>2
  <2> QED
    BY <1>1, <2>1, <2>2
<1>5. \A i, j \in DOMAIN wire' :
          /\ i < j /\ wire'[i].what = "holds" /\ wire'[j].what = "holds"
                => wire'[i].from <= wire'[j].from
          /\ i < j /\ wire'[i].what = "state" /\ wire'[j].what = "state"
                => wire'[i].from <= wire'[j].from
  <2> TAKE i, j \in DOMAIN wire'
  <2>1. CASE i \in DOMAIN wire /\ j \in DOMAIN wire
    BY <1>1, <2>1 DEF InTurn, HoldsAt, StateAt
  <2>2. CASE i = Len(wire) + 1 /\ j \in DOMAIN wire'
    BY <1>1, <2>2
  <2>3. CASE i \in DOMAIN wire /\ j = Len(wire) + 1
    <3>1. wire'[i].what = "state" => wire'[i].from <= conn
      BY <1>1, <1>2, <1>3, <2>3 DEF InTurn, HoldsAt, StateAt
    <3> QED
      BY <1>1, <2>3, <3>1
  <2> QED
    BY <1>1, <2>1, <2>2, <2>3
<1>6. InTurn'
  BY <1>4, <1>5 DEF InTurn, HoldsAt, StateAt, Mine
<1> QED
  BY <1>1, <1>6 DEF Mine, HoldsAt

LEMMA DropKeeps ==
    ASSUME PresenceInv, Drop
    PROVE  PresenceInv' /\ StaysShown
<1> USE DEF PresenceInv
<1>1. /\ UNCHANGED <<conn, minting, known, host, gone, commits, shown, shownLeases, held,
                     holdsSent, holdsAge, tickAge, local, own, lost, kept>>
      /\ ~detached /\ conn < MaxConns /\ detached' = TRUE /\ inbox' = <<>>
  BY DEF Drop, holds, caret, watcher, timers, faults, doings
<1>2. InTurn' /\ wire' \in Seq(PresenceFrames)
  <2> DEFINE f == [what |-> "left", from |-> conn]
  <2>1. f \in PresenceFrames /\ f.what = "left" /\ f.from = conn
    BY DEF PresenceTypes, PresenceFrames
  <2>2. wire' = Append(wire, f)
    BY DEF Drop
  <2> HIDE DEF f
  <2> QED
    BY <1>1, <2>1, <2>2, ServerInTurn
<1>3. inbox' \in Seq([commits : Conns]) /\ DOMAIN inbox' = {}
  BY <1>1
<1>4. PresenceTypes'
  BY <1>1, <1>2, <1>3 DEF PresenceTypes
<1>5. Numbers' /\ InTime'
  BY <1>1, <1>3 DEF Numbers, InTime
<1> QED
  BY <1>1, <1>2, <1>4, <1>5 DEF StaysShown

LEMMA ReseatBeginsKeeps ==
    ASSUME PresenceInv, ReseatBegins
    PROVE  PresenceInv' /\ StaysShown
<1> USE DEF PresenceInv
<1>1. /\ UNCHANGED <<conn, detached, known, host, inbox, gone, commits, shown, shownLeases, held,
                     holdsSent, holdsAge, tickAge, local, own, lost, kept>>
      /\ detached /\ minting' = TRUE
  BY DEF ReseatBegins, holds, caret, watcher, timers, faults, doings
<1>2. InTurn' /\ wire' \in Seq(PresenceFrames)
  <2> DEFINE f == [what |-> "joined", from |-> conn + 1]
  <2>1. f \in PresenceFrames /\ f.what = "joined"
    BY <1>1, PresenceAssumption, SMTT(20) DEF PresenceTypes, PresenceFrames, Conns, Numbers
  <2>2. wire' = Append(wire, f)
    BY DEF ReseatBegins
  <2> HIDE DEF f
  <2> QED
    BY <1>1, <2>1, <2>2, ServerInTurn
<1>3. PresenceTypes'
  BY <1>1, <1>2 DEF PresenceTypes
<1>4. Numbers' /\ InTime'
  BY <1>1 DEF Numbers, InTime
<1> QED
  BY <1>1, <1>2, <1>3, <1>4 DEF StaysShown

LEMMA HostCommitsKeeps ==
    ASSUME PresenceInv, HostCommits
    PROVE  PresenceInv' /\ StaysShown
<1> USE DEF PresenceInv
<1>1. /\ UNCHANGED <<conn, detached, minting, known, gone, commits, shown, shownLeases, held,
                     holdsSent, holdsAge, tickAge, local, own, lost, kept>>
      /\ ~detached /\ host' = conn /\ inbox' = Append(inbox, [commits |-> conn])
  BY DEF HostCommits, peer, holds, caret, watcher, timers, faults, doings
<1>2. /\ InTurn' /\ wire' \in Seq(PresenceFrames)
      /\ (\A i \in DOMAIN wire' : ~Mine(i)') => \A i \in DOMAIN wire : ~Mine(i)
  <2> DEFINE f == [what |-> "state", from |-> conn]
  <2>1. f \in PresenceFrames /\ f.what = "state" /\ f.from = conn
    BY DEF PresenceTypes, PresenceFrames
  <2>2. wire' = Append(wire, f)
    BY DEF HostCommits
  <2> HIDE DEF f
  <2> QED
    BY <1>1, <2>1, <2>2, ServerInTurn
<1>3. /\ inbox' \in Seq([commits : Conns])
      /\ \A i \in DOMAIN inbox' : inbox'[i].commits = conn
  <2> DEFINE s == [commits |-> conn]
  <2>1. s \in [commits : Conns] /\ s.commits = conn
    BY DEF PresenceTypes
  <2>2. inbox' = Append(inbox, s) /\ inbox \in Seq([commits : Conns])
        /\ \A i \in DOMAIN inbox : inbox[i].commits = conn
    BY <1>1 DEF PresenceTypes, Numbers
  <2> HIDE DEF s
  <2> QED
    BY <2>1, <2>2
<1>4. conn \in 0..MaxConns /\ commits <= conn /\ conn <= conn
  <2>1. conn \in Nat /\ commits \in Nat /\ host \in Nat /\ conn \in 0..MaxConns
    BY PresenceAssumption DEF PresenceTypes, Conns
  <2>2. commits <= host /\ host <= conn
    BY DEF Numbers
  <2> QED
    BY <2>1, <2>2
<1>5. PresenceTypes'
  BY <1>1, <1>2, <1>3, <1>4 DEF PresenceTypes
<1>6. Numbers'
  BY <1>1, <1>3, <1>4 DEF Numbers
<1>7. InTime'
  <2>1. lost' \in {lost, lost + 1} /\ UNCHANGED <<shown, shownLeases, kept, holdsAge, tickAge>>
    BY <1>1
  <2> QED
    BY <1>1, <1>2, <2>1, LosesInTime
<1> QED
  BY <1>1, <1>2, <1>5, <1>6, <1>7 DEF StaysShown

LEMMA ReseatEndsKeeps ==
    ASSUME PresenceInv, ReseatEnds
    PROVE  PresenceInv' /\ StaysShown
<1> USE DEF PresenceInv
<1>1. /\ UNCHANGED <<known, host, inbox, wire, gone, commits, shown, shownLeases, held,
                     holdsSent, tickAge, local, lost, kept>>
      /\ minting /\ conn' = conn + 1 /\ detached' = FALSE /\ minting' = FALSE
      /\ own' = Gone /\ holdsAge' = Never(Renew)
  BY DEF ReseatEnds, watcher, timers, faults, doings
<1>2. detached /\ conn < MaxConns /\ inbox = <<>> /\ conn \in Nat /\ conn >= 1
  BY <1>1 DEF Numbers, PresenceTypes, Conns
<1>3. conn' \in Conns /\ conn' > conn /\ shown[conn'] = {}
  BY <1>1, <1>2, PresenceAssumption DEF Conns, Numbers
<1>4. PresenceTypes'
  <2>1. own' \in Entries
    BY <1>1, EntriesAre DEF Gone, Entries
  <2>2. holdsAge' \in 0..Never(Renew)
    BY <1>1, PresenceAssumption DEF Never
  <2> QED
    BY <1>1, <1>3, <2>1, <2>2 DEF PresenceTypes
<1>5. Numbers'
  <2>1. \A n \in gone : n \in Nat /\ n <= conn
    BY DEF Numbers, PresenceTypes, Conns
  <2>2. \A n \in gone : n <= conn' /\ n # conn'
    BY <1>1, <1>2, <2>1
  <2>3. \A n \in Conns : n > conn' => shown[n] = {}
    BY <1>1, <1>2 DEF Numbers, Conns
  <2>4. host \in Nat /\ host <= conn /\ host <= conn'
    BY <1>1, <1>2 DEF Numbers, PresenceTypes
  <2>5. \A i \in DOMAIN inbox' : inbox'[i].commits = conn'
    BY <1>1, <1>2
  <2>6. commits' <= host'
    BY <1>1 DEF Numbers
  <2> QED
    BY <1>1, <1>3, <2>2, <2>3, <2>4, <2>5, <2>6 DEF Numbers
<1>6. InTurn'
  <2>1. \A i \in DOMAIN wire : wire[i].what \in {"holds", "left"} => wire[i].from \in Nat
    BY DEF PresenceTypes, PresenceFrames, Conns
  <2>2. \A i \in DOMAIN wire :
          wire[i].what \in {"holds", "left"} => wire[i].from <= conn' /\ wire[i].from # conn'
    BY <1>1, <1>2, <2>1 DEF InTurn, HoldsAt
  <2> QED
    BY <1>1, <1>3, <2>2 DEF InTurn, HoldsAt, StateAt, Mine
<1>7. InTime'
  BY <1>1, <1>3 DEF InTime
<1> QED
  BY <1>2, <1>4, <1>5, <1>6, <1>7 DEF StaysShown

LEMMA WatchTickKeeps ==
    ASSUME PresenceInv, WatchTick
    PROVE  PresenceInv' /\ StaysShown
<1> USE DEF PresenceInv
<1>1. /\ UNCHANGED <<conn, detached, minting, known, host, inbox, wire, gone, commits, held,
                     holdsSent, holdsAge, tickAge, local, own, lost, kept>>
      /\ LapseLeases
  BY DEF WatchTick, peer, holds, caret, faults, doings
<1>2. conn \in Conns
  BY DEF PresenceTypes
<1>3. /\ shown' \in [Conns -> SUBSET Paths]
      /\ shownLeases' \in [Conns -> 0..Never(ExpireAfter)]
      /\ \A n \in Conns : shown'[n] \in {{}, shown[n]}
      /\ shownLeases[conn] # ExpireAfter
            => shown'[conn] = shown[conn] /\ shownLeases'[conn] = shownLeases[conn]
  BY <1>1, <1>2, PresenceAssumption DEF LapseLeases, PresenceTypes, Never
<1>4. PresenceTypes' /\ Numbers' /\ InTurn'
  BY <1>1, <1>2, <1>3 DEF PresenceTypes, Numbers, InTurn, HoldsAt, StateAt, Mine
<1>5. StaysShown
  <2> SUFFICES ASSUME NEW p \in shown[conn], ~detached, Span(lost) <= ExpireAfter, p \in kept
               PROVE  p \in shown'[conn]
    BY <1>1 DEF StaysShown
  <2>1. shownLeases[conn] < Span(lost) /\ shownLeases[conn] \in Nat /\ Span(lost) \in Nat
    BY <1>2, SpanIs, PresenceAssumption DEF InTime, PresenceTypes, Never
  <2> QED
    BY <1>3, <2>1, PresenceAssumption
<1>6. InTime'
  <2>1. UntilDue' = UntilDue /\ Span(lost)' = Span(lost)
    BY <1>1 DEF UntilDue, Span
  <2>2. CASE shownLeases[conn] # ExpireAfter
    BY <1>1, <1>3, <2>1, <2>2 DEF InTime, Mine, HoldsAt
  <2>3. CASE shownLeases[conn] = ExpireAfter
    <3>1. shown'[conn] = {}
      BY <1>1, <1>2, <2>3 DEF LapseLeases
    <3> QED
      BY <1>1, <3>1 DEF InTime
  <2> QED
    BY <2>2, <2>3
<1> QED
  BY <1>4, <1>5, <1>6

LEMMA WatcherReseatsKeeps ==
    ASSUME PresenceInv, WatcherReseats
    PROVE  PresenceInv' /\ StaysShown
<1> USE DEF PresenceInv
<1>1. /\ UNCHANGED <<conn, detached, minting, known, host, inbox, gone, commits, shown,
                     shownLeases, held, holdsSent, tickAge, local, own, kept>>
      /\ Losing(wire)
      /\ wire' = IF host = 0 THEN <<>> ELSE <<[what |-> "state", from |-> host]>>
      /\ IF detached THEN holdsAge' = holdsAge ELSE holdsAge' = Never(Renew)
  BY DEF WatcherReseats, peer, caret, watcher, timers, HearsJoiner, holds, doings
<1>2. /\ wire' \in Seq(PresenceFrames)
      /\ \A i \in DOMAIN wire' : i = 1 /\ wire'[i].what = "state" /\ wire'[i].from = host
  <2> DEFINE f == [what |-> "state", from |-> host]
  <2>1. host # 0 => f \in PresenceFrames /\ f.what = "state" /\ f.from = host
    BY DEF PresenceTypes, PresenceFrames, Conns
  <2>2. wire' = IF host = 0 THEN <<>> ELSE <<f>>
    BY <1>1
  <2> HIDE DEF f
  <2> QED
    BY <2>1, <2>2
<1>3. commits <= host /\ host <= host
  BY DEF Numbers, PresenceTypes
<1>4. PresenceTypes'
  <2>1. holdsAge' \in 0..Never(Renew)
    BY <1>1, PresenceAssumption DEF Never, PresenceTypes
  <2>2. lost' \in Nat
    BY <1>1, LosingIs
  <2> QED
    BY <1>1, <1>2, <2>1, <2>2 DEF PresenceTypes
<1>5. Numbers' /\ InTime'
  <2>1. Numbers'
    BY <1>1 DEF Numbers
  <2>2. /\ lost' \in {lost, lost + 1} /\ lost \in Nat
        /\ (\E i \in DOMAIN wire : Mine(i)) => lost' = lost + 1
    BY <1>1, LosingIs DEF Mine, HoldsAt, PresenceTypes
  <2>3. /\ Span(lost) \in Nat /\ Span(lost + 1) = Span(lost) + Renew
        /\ shownLeases[conn] \in Nat /\ tickAge \in 0..Renew /\ holdsAge \in Nat /\ Renew \in Nat
    BY ONLY SpansAre, AgesAre, PresenceTypes
  <2>4. Span(lost)' = Span(lost')
    BY DEF Span
  <2> SUFFICES ASSUME ~detached, shown[conn] \cap kept # {}
               PROVE  shownLeases[conn] + UntilDue' < Span(lost') /\ shownLeases[conn] < Span(lost')
    BY <1>1, <2>1, <2>4 DEF InTime
  <2>5. UntilDue' = Renew - tickAge
    BY <1>1, <2>3 DEF UntilDue, Never
  <2>6. Renew - tickAge <= UntilDue /\ UntilDue \in Int
    BY <2>3 DEF UntilDue
  <2>7. shownLeases[conn] < Span(lost)
    BY DEF InTime
  <2>8. CASE \E i \in DOMAIN wire : Mine(i)
    BY <2>2, <2>3, <2>5, <2>7, <2>8
  <2>9. CASE ~\E i \in DOMAIN wire : Mine(i)
    BY <2>2, <2>3, <2>5, <2>6, <2>7, <2>9 DEF InTime
  <2> QED
    BY <2>8, <2>9
<1>6. InTurn'
  BY <1>1, <1>2, <1>3 DEF InTurn, HoldsAt, StateAt, Mine
<1> QED
  BY <1>1, <1>4, <1>5, <1>6 DEF StaysShown

LEMMA ClockRunsKeeps ==
    ASSUME PresenceInv, ClockRuns
    PROVE  PresenceInv' /\ StaysShown
<1> USE DEF PresenceInv
<1>1. /\ UNCHANGED <<conn, detached, minting, known, host, inbox, wire, gone, commits, shown, held,
                     holdsSent, local, own, lost, kept>>
      /\ wire = <<>> /\ tickAge < Renew /\ tickAge' = tickAge + 1
      /\ holdsAge' = Aged(holdsAge, Renew)
      /\ shownLeases' = [n \in Conns |-> Aged(shownLeases[n], ExpireAfter)]
  BY DEF ClockRuns, peer, faults, doings
<1>2. /\ Renew \in Nat /\ Renew >= 1 /\ ExpireAfter \in Nat
      /\ conn \in Conns /\ tickAge \in 0..Renew /\ holdsAge \in 0..Never(Renew)
      /\ shownLeases \in [Conns -> 0..Never(ExpireAfter)]
  BY PresenceAssumption DEF PresenceTypes
<1>3. tickAge' \in 0..Renew /\ holdsAge' \in 0..Never(Renew)
  BY <1>1, <1>2 DEF Aged, Never
<1>4. \A a \in 0..Never(ExpireAfter) : Aged(a, ExpireAfter) \in 0..Never(ExpireAfter)
  BY <1>2 DEF Aged, Never
<1>5. shownLeases' \in [Conns -> 0..Never(ExpireAfter)]
  BY <1>1, <1>2, <1>4
<1>6. shownLeases'[conn] = Aged(shownLeases[conn], ExpireAfter) /\ shownLeases[conn] \in Nat
  BY <1>1, <1>2 DEF Never
<1>7. PresenceTypes'
  BY <1>1, <1>3, <1>5 DEF PresenceTypes
<1>8. DOMAIN wire' = {} /\ DOMAIN wire = {}
  BY <1>1
<1>9. Numbers' /\ InTurn'
  BY <1>1, <1>8 DEF Numbers, InTurn
<1>10. InTime'
  <2>1. Span(lost)' = Span(lost) /\ Span(lost) \in Nat
    BY <1>1, SpanIs DEF Span, PresenceTypes
  <2>2. holdsAge' = (IF holdsAge < Renew THEN holdsAge + 1 ELSE holdsAge)
    BY <1>1 DEF Aged
  <2>3. UntilDue' = UntilDue - 1 /\ UntilDue >= 1 /\ UntilDue \in Int
    BY <1>1, <1>2, <2>2 DEF UntilDue, Never
  <2>4. shownLeases'[conn] <= shownLeases[conn] + 1 /\ shownLeases'[conn] \in Nat
    BY <1>2, <1>6 DEF Aged
  <2> SUFFICES ASSUME ~detached, shown[conn] \cap kept # {}
               PROVE  /\ shownLeases'[conn] < Span(lost)
                      /\ shownLeases'[conn] + UntilDue' < Span(lost)
    BY <1>1, <2>1 DEF InTime
  <2>5. shownLeases[conn] + UntilDue < Span(lost)
    BY <1>8 DEF InTime
  <2> QED
    BY <1>6, <2>1, <2>3, <2>4, <2>5
<1> QED
  BY <1>1, <1>7, <1>9, <1>10 DEF StaysShown

\* What DropGone leaves: the view of a connection that is not gone.
LEMMA DropGoneIs ==
    ASSUME PresenceTypes, NEW n \in 0..MaxConns, NEW lefts \in SUBSET Conns, DropGone(n, lefts)
    PROVE  /\ shown' \in [Conns -> SUBSET Paths]
           /\ shownLeases' \in [Conns -> 0..Never(ExpireAfter)]
           /\ \A m \in Conns : shown'[m] \in {{}, shown[m]}
           /\ \A m \in Conns \ lefts : shown'[m] = shown[m] /\ shownLeases'[m] = shownLeases[m]
BY PresenceAssumption DEF DropGone, PresenceTypes, Never

LEMMA HearKeeps ==
    ASSUME PresenceInv, Hear
    PROVE  PresenceInv' /\ StaysShown
<1> USE DEF PresenceInv
<1> DEFINE f == Head(wire)
<1>1. /\ UNCHANGED <<conn, detached, minting, known, host, inbox, held, holdsSent, holdsAge,
                     tickAge, local, own>>
      /\ wire # <<>> /\ wire' = Tail(wire)
      /\ IF f.what = "holds" /\ f.from = commits
         THEN lost' = 0 /\ kept' = f.holds \cap held
         ELSE UNCHANGED <<lost, kept>>
      /\ \/ f.what = "joined" /\ HearJoined(f.from)
         \/ f.what = "left"   /\ HearLeft(f.from)
         \/ f.what = "state"  /\ HearsState(f.from)
         \/ f.what = "holds"  /\ HearHolds(f.from, f.holds)
         \/ f.what = "caret"  /\ HearCaret(f.from, f.entry)
  BY DEF Hear, peer, holds, caret, timers
<1>2. /\ 1 \in DOMAIN wire /\ f = wire[1] /\ f \in PresenceFrames
      /\ wire' \in Seq(PresenceFrames)
      /\ \A i \in DOMAIN wire' : i + 1 \in DOMAIN wire /\ wire'[i] = wire[i + 1] /\ i \in Nat
      /\ \A i \in DOMAIN wire : i # 1 => i - 1 \in DOMAIN wire' /\ wire'[i - 1] = wire[i]
  BY <1>1, HeadAndTail
<1>3. conn \in Conns /\ conn \in Nat /\ commits \in Nat /\ host \in Nat
      /\ commits <= host /\ host <= conn
  BY DEF PresenceTypes, Conns, Numbers
<1>4. f.from \in Conns /\ (f.what = "holds" => f.holds \in SUBSET Paths)
  BY <1>2 DEF PresenceFrames
<1>5. lost' \in Nat /\ kept' \in SUBSET held
  BY <1>1 DEF PresenceTypes
<1> HIDE DEF f
\* What every frame leaves: the rest of the wire in its order.
<1>6. ASSUME \A i \in DOMAIN wire' :
                wire'[i].what = "holds" /\ wire'[i].from # conn => shown'[conn] = {},
             \A i \in DOMAIN wire' : wire'[i].what = "state" => commits' <= wire'[i].from
      PROVE  InTurn'
  <2>1. ASSUME NEW i \in DOMAIN wire'
        PROVE  /\ wire'[i].what = "left"
                     => wire'[i].from <= conn /\ (wire'[i].from = conn => detached)
               /\ wire'[i].what = "holds" => wire'[i].from <= conn
               /\ wire'[i].what = "holds" /\ wire'[i].from # conn => shown'[conn] = {}
               /\ wire'[i].what = "holds" /\ wire'[i].from = conn => known = conn /\ holdsAge = 0
               /\ wire'[i].what = "state" => commits' <= wire'[i].from /\ wire'[i].from <= host
    <3>1. i + 1 \in DOMAIN wire /\ wire'[i] = wire[i + 1]
      BY <1>2
    <3> QED
      BY <1>6, <3>1 DEF InTurn, HoldsAt, StateAt, Mine
  <2>2. ASSUME NEW i \in DOMAIN wire', NEW j \in DOMAIN wire', i < j
        PROVE  /\ wire'[i].what = "holds" /\ wire'[j].what = "holds"
                     => wire'[i].from <= wire'[j].from
               /\ wire'[i].what = "state" /\ wire'[j].what = "state"
                     => wire'[i].from <= wire'[j].from
    <3>1. /\ i + 1 \in DOMAIN wire /\ wire'[i] = wire[i + 1]
          /\ j + 1 \in DOMAIN wire /\ wire'[j] = wire[j + 1]
          /\ i + 1 < j + 1
      BY <1>2, <2>2
    <3> QED
      BY <3>1 DEF InTurn, HoldsAt, StateAt
  <2> QED
    BY <1>1, <2>1, <2>2 DEF InTurn, HoldsAt, StateAt, Mine
<1>7. ASSUME f.what # "holds"
      PROVE  /\ UNCHANGED <<lost, kept>> /\ UntilDue' = UntilDue /\ Span(lost)' = Span(lost)
             /\ (\A i \in DOMAIN wire' : ~Mine(i)') => \A i \in DOMAIN wire : ~Mine(i)
  <2>1. UNCHANGED <<lost, kept>> /\ UntilDue' = UntilDue /\ Span(lost)' = Span(lost)
    BY <1>1, <1>7 DEF UntilDue, Span
  <2>2. \A i \in DOMAIN wire : ~Mine(i) \/ (i - 1 \in DOMAIN wire' /\ Mine(i - 1)')
    BY <1>1, <1>2, <1>7 DEF Mine, HoldsAt
  <2> QED
    BY <2>1, <2>2
<1>8. ASSUME NEW i \in DOMAIN wire', wire'[i].what = "holds", wire'[i].from # conn
       PROVE  shown[conn] = {}
  <2>1. i + 1 \in DOMAIN wire /\ wire'[i] = wire[i + 1]
    BY <1>2
  <2> QED
    BY <1>8, <2>1 DEF InTurn, HoldsAt
\* A frame that leaves the shown holds and the state that is committed as they were.
<1>9. ASSUME gone' \in SUBSET Conns, \A n \in gone' : n <= conn /\ (n = conn => detached),
             UNCHANGED <<commits, shown, shownLeases>>, f.what # "holds"
      PROVE  PresenceInv' /\ StaysShown
  <2>1. PresenceTypes'
    BY <1>1, <1>2, <1>5, <1>9 DEF PresenceTypes
  <2>2. Numbers'
    BY <1>1, <1>9 DEF Numbers
  <2>3. InTurn'
    BY <1>2, <1>6, <1>9 DEF InTurn, HoldsAt, StateAt
  <2>4. InTime'
    BY <1>1, <1>7, <1>9 DEF InTime
  <2> QED
    BY <1>9, <2>1, <2>2, <2>3, <2>4 DEF StaysShown
<1>10. CASE f.what = "joined" /\ HearJoined(f.from)
  <2>1. gone' = gone \ {f.from} /\ UNCHANGED <<commits, shown, shownLeases>>
    BY <1>10 DEF HearJoined
  <2> QED
    BY <1>9, <1>10, <2>1 DEF Numbers, PresenceTypes
<1>11. CASE f.what = "caret" /\ HearCaret(f.from, f.entry)
  <2>1. gone' = gone /\ UNCHANGED <<commits, shown, shownLeases>>
    BY <1>11 DEF HearCaret
  <2> QED
    BY <1>9, <1>11, <2>1 DEF Numbers, PresenceTypes
<1>12. CASE f.what = "left" /\ HearLeft(f.from)
  <2>1. gone' = gone \cup {f.from} /\ commits' = commits /\ DropGone(commits, gone')
    BY <1>12 DEF HearLeft
  <2>2. f.from <= conn /\ (f.from = conn => detached)
    BY <1>2, <1>12 DEF InTurn
  <2>3. gone' \in SUBSET Conns /\ commits \in 0..MaxConns
    BY <1>4, <2>1 DEF PresenceTypes
  <2>4. /\ shown' \in [Conns -> SUBSET Paths]
        /\ shownLeases' \in [Conns -> 0..Never(ExpireAfter)]
        /\ \A m \in Conns : shown'[m] \in {{}, shown[m]}
        /\ \A m \in Conns \ gone' : shown'[m] = shown[m] /\ shownLeases'[m] = shownLeases[m]
    BY <2>1, <2>3, DropGoneIs
  <2>5. ~detached => conn \notin gone'
    BY <2>1, <2>2 DEF Numbers
  <2>6. PresenceTypes'
    BY <1>1, <1>2, <1>5, <2>1, <2>3, <2>4 DEF PresenceTypes
  <2>7. Numbers'
    BY <1>1, <1>3, <2>1, <2>2, <2>4 DEF Numbers
  <2>8. InTurn'
    <3>1. \A i \in DOMAIN wire' :
             wire'[i].what = "holds" /\ wire'[i].from # conn => shown'[conn] = {}
      BY <1>3, <1>8, <2>4
    <3>2. \A i \in DOMAIN wire' : wire'[i].what = "state" => commits' <= wire'[i].from
      BY <1>2, <2>1 DEF InTurn, StateAt
    <3> QED
      BY <1>6, <3>1, <3>2
  <2>9. InTime'
    BY <1>1, <1>3, <1>7, <1>12, <2>4, <2>5 DEF InTime
  <2> QED
    BY <1>3, <2>4, <2>5, <2>6, <2>7, <2>8, <2>9 DEF StaysShown
<1>13. CASE f.what = "state" /\ HearsState(f.from)
  <2>1. gone' = gone /\ commits' = f.from /\ DropGone(f.from, gone)
    BY <1>13 DEF HearsState
  <2>2. commits <= f.from /\ f.from <= host /\ f.from \in Nat /\ f.from \in 0..MaxConns
    BY <1>2, <1>4, <1>13 DEF InTurn, StateAt, Conns
  <2>3. /\ shown' \in [Conns -> SUBSET Paths]
        /\ shownLeases' \in [Conns -> 0..Never(ExpireAfter)]
        /\ \A m \in Conns : shown'[m] \in {{}, shown[m]}
        /\ \A m \in Conns \ gone : shown'[m] = shown[m] /\ shownLeases'[m] = shownLeases[m]
    BY <2>1, <2>2, DropGoneIs DEF PresenceTypes
  <2>4. ~detached => conn \notin gone
    BY DEF Numbers
  <2>5. PresenceTypes'
    BY <1>1, <1>2, <1>5, <2>1, <2>2, <2>3 DEF PresenceTypes
  <2>6. commits = conn => f.from = conn
    BY <1>3, <2>2
  <2>7. Numbers'
    BY <1>1, <1>3, <2>1, <2>2, <2>3, <2>6 DEF Numbers
  <2>8. \A i \in DOMAIN wire' : wire'[i].what = "state" => commits' <= wire'[i].from
    <3> TAKE i \in DOMAIN wire'
    <3>1. i + 1 \in DOMAIN wire /\ wire'[i] = wire[i + 1] /\ 1 < i + 1
      BY <1>2, SMTT(20) DEF PresenceTypes
    <3> QED
      BY <1>2, <1>13, <2>1, <3>1 DEF InTurn, StateAt
  <2>9. \A i \in DOMAIN wire' : wire'[i].what = "holds" /\ wire'[i].from # conn => shown'[conn] = {}
    BY <1>3, <1>8, <2>3
  <2>10. InTurn'
    BY <1>6, <2>8, <2>9
  <2>11. InTime'
    BY <1>1, <1>3, <1>7, <1>13, <2>3, <2>4 DEF InTime
  <2> QED
    BY <1>3, <2>3, <2>4, <2>5, <2>7, <2>10, <2>11 DEF StaysShown
<1>14. CASE f.what = "holds" /\ HearHolds(f.from, f.holds)
  <2> DEFINE n == f.from
  <2>1. /\ UNCHANGED <<gone, commits>>
        /\ IF commits = n
           THEN /\ shown' = [shown EXCEPT ![n] = f.holds]
                /\ shownLeases' = [shownLeases EXCEPT ![n] = 0]
           ELSE UNCHANGED <<shown, shownLeases>>
    BY <1>14 DEF HearHolds
  <2>2. /\ n \in Nat /\ n <= conn /\ n \in Conns
        /\ n # conn => shown[conn] = {}
        /\ n = conn => known = conn /\ holdsAge = 0
    BY <1>2, <1>4, <1>14 DEF InTurn, HoldsAt, Mine, Conns
  <2>3. /\ shown' \in [Conns -> SUBSET Paths]
        /\ shownLeases' \in [Conns -> 0..Never(ExpireAfter)]
        /\ \A m \in Conns : m # n => shown'[m] = shown[m] /\ shownLeases'[m] = shownLeases[m]
        /\ commits = n => shown'[n] = f.holds /\ shownLeases'[n] = 0
    <3>1. 0 \in 0..Never(ExpireAfter) /\ f.holds \in SUBSET Paths /\ n \in Conns
      BY <1>4, <1>14, <2>2, PresenceAssumption DEF Never
    <3>2. shown \in [Conns -> SUBSET Paths] /\ shownLeases \in [Conns -> 0..Never(ExpireAfter)]
      BY DEF PresenceTypes
    <3> HIDE DEF n, PresenceInv
    <3> QED
      BY <2>1, <3>1, <3>2
  <2>4. PresenceTypes'
    BY <1>1, <1>2, <1>5, <2>1, <2>3 DEF PresenceTypes
  <2> HIDE DEF n
  <2>5. shown'[conn] # {} => n = conn /\ commits = conn
    <3>1. CASE n # conn
      BY <1>3, <2>2, <2>3, <3>1
    <3>2. CASE n = conn /\ commits # conn
      BY <2>1, <3>2 DEF Numbers
    <3> QED
      BY <3>1, <3>2
  <2>6. Numbers'
    <3>1. ASSUME NEW m \in Conns, m > conn PROVE shown'[m] = {}
      <4>1. m # n
        BY ONLY <1>3, <2>2, <3>1 DEF Conns
      <4>2. shown[m] = {}
        BY <3>1 DEF Numbers
      <4> QED
        BY ONLY <2>3, <4>1, <4>2, <3>1
    <3> QED
      BY <1>1, <2>1, <2>2, <2>5, <3>1 DEF Numbers
  <2>7. \A i \in DOMAIN wire' : wire'[i].what = "holds" /\ wire'[i].from # conn => shown'[conn] = {}
    <3> SUFFICES ASSUME NEW i \in DOMAIN wire', wire'[i].what = "holds", n = conn
                 PROVE  wire'[i].from = conn
      BY <2>5
    <3>1. i + 1 \in DOMAIN wire /\ wire'[i] = wire[i + 1] /\ 1 < i + 1
      BY <1>2, SMTT(20) DEF PresenceTypes
    <3>2. wire[i + 1].from \in Nat
      <4>1. wire \in Seq(PresenceFrames)
        BY DEF PresenceTypes
      <4>2. wire[i + 1] \in PresenceFrames
        BY ONLY <3>1, <4>1
      <4> QED
        BY ONLY <4>2 DEF PresenceFrames, Conns
    <3>3. conn <= wire[i + 1].from /\ wire[i + 1].from <= conn
      BY <1>2, <1>14, <3>1 DEF InTurn, HoldsAt, n
    <3> QED
      BY <1>3, <3>1, <3>2, <3>3
  <2>8. \A i \in DOMAIN wire' : wire'[i].what = "state" => commits' <= wire'[i].from
    BY <1>2, <2>1 DEF InTurn, StateAt
  <2>9. InTurn'
    BY <1>6, <2>7, <2>8
  <2>10. InTime'
    <3> SUFFICES ASSUME shown'[conn] # {}
                 PROVE  /\ shownLeases'[conn] < Span(lost')
                        /\ shownLeases'[conn] + UntilDue' < Span(lost')
      BY <1>1 DEF InTime, Span
    <3>1. shownLeases'[conn] = 0 /\ tickAge \in 0..Renew /\ holdsAge = 0 /\ lost' = 0
      BY <1>1, <1>14, <2>2, <2>3, <2>5 DEF PresenceTypes, n
    <3>2. Span(lost') = 2 * Renew /\ Renew \in Nat /\ Renew >= 1
      BY <3>1, SpanIs, PresenceAssumption
    <3> QED
      BY <1>1, <3>1, <3>2 DEF UntilDue
  <2>11. StaysShown
    <3> SUFFICES ASSUME NEW p \in shown[conn], OnTheWay(p)
                 PROVE  p \in shown'[conn]
      BY DEF StaysShown
    <3>1. n = conn /\ commits = conn
      BY <2>2 DEF Numbers
    <3>2. p \in f.holds
      BY <1>2, <1>14, <3>1 DEF OnTheWay, n
    <3> QED
      BY <2>3, <3>1, <3>2
  <2> QED
    BY <2>4, <2>6, <2>9, <2>10, <2>11
<1> QED
  BY <1>1, <1>10, <1>11, <1>12, <1>13, <1>14

LEMMA PresenceStep ==
    ASSUME PresenceInv, [PresenceNext]_presenceVars
    PROVE  PresenceInv' /\ StaysShown
<1>1. CASE UNCHANGED presenceVars
  <2>1. UNCHANGED <<conn, detached, minting, known, host, inbox, wire, gone, commits, shown,
                    shownLeases, held, holdsSent, holdsAge, tickAge, local, own, lost, kept>>
    BY <1>1 DEF presenceVars, peer, holds, caret, watcher, timers, faults, doings
  <2>2. PresenceInv'
    BY <2>1 DEF PresenceInv, PresenceTypes, Numbers, InTurn, InTime, UntilDue, Span, HoldsAt,
                StateAt, Mine
  <2> QED
    BY <2>1, <2>2 DEF StaysShown
<1> QED
  BY <1>1, PersonKeeps, JobKeeps, PresenceTickKeeps, HearStateKeeps, DropKeeps,
     ReseatBeginsKeeps, ReseatEndsKeeps, HostCommitsKeeps, HearKeeps, WatchTickKeeps,
     WatcherReseatsKeeps, ClockRunsKeeps DEF PresenceNext

-----------------------------------------------------------------------------
\* The peer's connections, counts and frames keep their types.
THEOREM PresenceTypesHold == PresenceSpec => []PresenceTypes
<1>1. PresenceInv => PresenceTypes
  BY DEF PresenceInv
<1>2. PresenceInv /\ [PresenceNext]_presenceVars => PresenceInv'
  BY PresenceStep
<1> QED
  BY <1>1, <1>2, PresenceInitKeeps, PTL DEF PresenceSpec

\* A path a seated peer goes on holding does not disappear from another's view: whenever the
\* holds last changed, the renewal comes before a lease of two renewals lapses, and each frame
\* lost to a failed seal or a drop of the watcher costs no more than one renewal (peer.ts,
\* announceHolds, seatJoined, expireLeases).
THEOREM PresenceHoldsAreKept == PresenceSpec => HoldsAreKept
<1>1. PresenceInv /\ [PresenceNext]_presenceVars => PresenceInv'
  BY PresenceStep
<1>2. PresenceInv /\ [PresenceNext]_presenceVars
        => [\A p \in shown[conn] :
                /\ ~detached /\ ~detached' /\ Span(lost) <= ExpireAfter
                /\ p \in kept' /\ OnTheWay(p)
                => p \in shown'[conn]]_presenceVars
  BY PresenceStep DEF StaysShown
<1> QED
  BY <1>1, <1>2, PresenceInitKeeps, PTL DEF PresenceSpec, HoldsAreKept
=============================================================================
