----------------------------- MODULE PeerProofs -----------------------------
(***************************************************************************)
(* What holds of the chains of a session.                                  *)
(*                                                                         *)
(* Of Peer, for every set of edits, every renewal and any number of states *)
(* and seats: its types, that no edit is lost between the queue, the       *)
(* frames and what is held back, that the text of a viewer never leaves,   *)
(* and that requests are paced.                                            *)
(*                                                                         *)
(* Of Rename, for any calls and drops: that one request is out at a time   *)
(* and each call is answered by its own reply.  Of Fetch, for any paths,   *)
(* presses, polls and sessions: that what is saved is the room's answer    *)
(* and that what is said of it stands.                                     *)
(***************************************************************************)
EXTENDS Peer, Rename, Fetch, FiniteSetTheorems, TLAPS

-----------------------------------------------------------------------------
\* Types.

\* What a step leaves alone keeps its type.
LEMMA Untouched ==
    /\ KeyOK /\ UNCHANGED key => KeyOK'
    /\ RoomOK /\ UNCHANGED room => RoomOK'
    /\ TextOK /\ UNCHANGED text => TextOK'
    /\ TaskOK /\ UNCHANGED task => TaskOK'
    /\ WireOK /\ UNCHANGED wire => WireOK'
    /\ ClocksOK /\ UNCHANGED clocks => ClocksOK'
    /\ OwedOK /\ UNCHANGED owed => OwedOK'
<1>1. KeyOK /\ UNCHANGED key => KeyOK'
  BY DEF KeyOK, key
<1>2. RoomOK /\ UNCHANGED room => RoomOK'
  BY DEF RoomOK, room
<1>3. TextOK /\ UNCHANGED text => TextOK'
  BY DEF TextOK, text
<1>4. TaskOK /\ UNCHANGED task => TaskOK'
  BY DEF TaskOK, task
<1>5. WireOK /\ UNCHANGED wire => WireOK'
  BY DEF WireOK, wire
<1>6. ClocksOK /\ UNCHANGED clocks => ClocksOK'
  BY DEF ClocksOK, clocks
<1>7. OwedOK /\ UNCHANGED owed => OwedOK'
  BY DEF OwedOK, owed
<1> QED BY <1>1, <1>2, <1>3, <1>4, <1>5, <1>6, <1>7

\* What is published of a replica is edits, and so is what is held back.
LEMMA HeldType ==
    ASSUME TextOK
    PROVE  /\ PublicationDoc \in Writes
           /\ Held \subseteq Edits /\ AcceptedUnsent \subseteq Entry
           /\ Settled \subseteq Entry /\ Speculative \subseteq Edits
BY DEF TextOK, PublicationDoc, Held, AcceptedUnsent, Entries, Settled, Speculative, Entry,
       Writes

\* An age starts and ends within its range.
LEMMA AgeRange == 0 \in Ages /\ Never \in Ages /\ \A age \in Ages : Older(age) \in Ages
BY PeerAssumption DEF Older, Ages, Never

\* The first seat, the next one, and the first state are within their bounds.
LEMMA BoundRange ==
    /\ 1 \in 1..MaxSeats /\ \A s \in 1..MaxSeats : s < MaxSeats => s + 1 \in 1..MaxSeats
    /\ 0 \in 0..MaxStates /\ \A n \in 0..MaxStates : n < MaxStates => n + 1 \in 0..MaxStates
BY PeerAssumption

\* A frame whose seal is asked for.
LEMMA BeginsType ==
    ASSUME NEW what \in Kinds, NEW load \in Writes, what = "flush" => load \subseteq Edits,
           Begins(what, load)
    PROVE  sealing' \in Frames
<1>1. Allowed(what) \in BOOLEAN
  BY DEF Allowed
<1>2. CASE what = "flush"
  BY <1>1, <1>2 DEF Begins, Frames
<1>3. CASE what # "flush"
  BY <1>1, <1>3 DEF Begins, Frames
<1> QED BY <1>2, <1>3

\* A history that is settled, or not.
LEMMA SettlesType ==
    ASSUME TextOK, jobs' \in Seq(Edits),
           Accept \/ Discard \/ UNCHANGED <<doc, baseline, unsent, banned>>
    PROVE  TextOK'
<1>1. CASE Accept
  BY <1>1, HeldType DEF Accept, TextOK
<1>2. CASE Discard
  BY <1>2, HeldType DEF Discard, TextOK
<1>3. CASE UNCHANGED <<doc, baseline, unsent, banned>>
  BY <1>3 DEF TextOK
<1> QED BY <1>1, <1>2, <1>3

LEMMA InitTypeOK == Init => TypeOK
<1> SUFFICES ASSUME Init PROVE TypeOK
  OBVIOUS
<1>1. KeyOK /\ RoomOK /\ OwedOK
  BY BoundRange DEF Init, KeyOK, RoomOK, OwedOK, Roles
<1>2. TextOK
  <2>1. jobs \in Seq(Edits)
    BY DEF Init
  <2> QED BY <2>1 DEF Init, TextOK, Writes
<1>5. WireOK
  BY DEF Init, WireOK, Writes
<1>3. TaskOK
  BY DEF Init, TaskOK
<1>4. ClocksOK
  BY AgeRange DEF Init, ClocksOK
<1> QED BY <1>1, <1>2, <1>3, <1>4, <1>5 DEF TypeOK

\* What happens outside the serial queue.
LEMMA OutsideTypeOK ==
    ASSUME TypeOK,
           \/ \E e \in Edits : Edit(e)
           \/ Detach \/ TakeOutbound \/ NoteStep1Failure \/ Advance
    PROVE  TypeOK'
<1> USE Untouched DEF TypeOK
<1>1. ASSUME NEW e \in Edits, Edit(e) PROVE TypeOK'
  <2>1. unsent' \subseteq Entry
    <3>1. (~IsWriter) \in BOOLEAN
      OBVIOUS
    <3>2. [edit |-> e, speculative |-> ~IsWriter] \in Entry
      BY <3>1 DEF Entry
    <3> QED BY <1>1, <3>2 DEF Edit, TextOK
  <2>2. jobs' \in Seq(Edits)
    BY <1>1 DEF Edit, TextOK
  <2>3. doc' \in Writes /\ (baseline' = NoCopy \/ baseline' \subseteq doc')
    BY <1>1 DEF Edit, TextOK, Writes
  <2>4. TextOK'
    BY <1>1, <2>1, <2>2, <2>3 DEF Edit, TextOK
  <2> QED BY <1>1, <2>4 DEF Edit
<1>2. CASE Detach
  <2>1. KeyOK' /\ WireOK'
    BY <1>2 DEF Detach, KeyOK, WireOK
  <2> QED BY <1>2, <2>1 DEF Detach
<1>3. CASE TakeOutbound
  <2>1. WireOK'
    BY <1>3 DEF TakeOutbound, WireOK
  <2> QED BY <1>3, <2>1 DEF TakeOutbound
<1>4. CASE NoteStep1Failure
  <2>1. ClocksOK'
    BY <1>4, AgeRange DEF NoteStep1Failure, ClocksOK
  <2> QED BY <1>4, <2>1 DEF NoteStep1Failure
<1>5. CASE Advance
  <2>1. ClocksOK'
    BY <1>5, AgeRange DEF Advance, ClocksOK
  <2> QED BY <1>5, <2>1 DEF Advance
<1> QED BY <1>1, <1>2, <1>3, <1>4, <1>5

\* The tasks of the serial queue.
LEMMA TaskTypeOK ==
    ASSUME TypeOK,
           \/ \E r \in Roles, w \in BOOLEAN : DeliverState(r, w)
           \/ \E e \in RemoteEdits : DeliverEdit(e)
           \/ DeliverRequest \/ RefuseContent \/ Tick \/ Ends \/ Reseat \/ EditsTurn
    PROVE  TypeOK'
<1> USE Untouched DEF TypeOK
<1>1. ASSUME NEW r \in Roles, NEW w \in BOOLEAN, DeliverState(r, w) PROVE TypeOK'
  <2>1. TextOK'
    BY <1>1, SettlesType DEF DeliverState, TextOK
  <2>2. RoomOK'
    BY <1>1, BoundRange DEF DeliverState, RoomOK
  <2>3. OwedOK'
    BY <1>1 DEF DeliverState, PruneReciprocal, Readiness, OwedOK
  <2>4. TaskOK'
    <3>1. <<"announce">> \in Seq(Steps) /\ <<"handshake", "flush">> \in Seq(Steps)
      BY DEF Steps
    <3> QED BY <1>1, <3>1 DEF DeliverState, StepsAfter, TaskOK
  <2> QED BY <1>1, <2>1, <2>2, <2>3, <2>4 DEF DeliverState
<1>2. ASSUME NEW e \in RemoteEdits, DeliverEdit(e) PROVE TypeOK'
  <2>1. TextOK'
    BY <1>2 DEF DeliverEdit, TextOK, Writes
  <2> QED BY <1>2, <2>1 DEF DeliverEdit
<1>3. CASE DeliverRequest
  <2>1. OwedOK'
    <3>1. CASE served
      BY <1>3, <3>1 DEF DeliverRequest, ArmReciprocal, OwedOK
    <3>2. CASE ~served
      BY <1>3, <3>2 DEF DeliverRequest, ArmReciprocal, OwedOK
    <3> QED BY <3>1, <3>2
  <2>2. sealing' \in Frames \cup {NoFrame}
    <3>1. PublicationDoc \in Writes /\ "reply" \in Kinds
      BY HeldType DEF Kinds
    <3>2. CASE MayPublish /\ IsWriter
      BY <1>3, <3>1, <3>2, BeginsType DEF DeliverRequest
    <3>3. CASE ~(MayPublish /\ IsWriter)
      BY <1>3, <3>3 DEF DeliverRequest, TaskOK
    <3> QED BY <3>2, <3>3
  <2>3. TaskOK'
    BY <1>3, <2>2 DEF DeliverRequest, TaskOK
  <2> QED BY <1>3, <2>1, <2>3 DEF DeliverRequest
<1>4. CASE RefuseContent
  <2>1. OwedOK'
    BY <1>4 DEF RefuseContent, OwedOK
  <2> QED BY <1>4, <2>1 DEF RefuseContent
<1>5. CASE Tick
  <2>1. <<"reannounce", "resync">> \in Seq(Steps)
    BY DEF Steps
  <2>2. TaskOK'
    BY <1>5, <2>1 DEF Tick, TaskOK
  <2> QED BY <1>5, <2>2 DEF Tick
<1>6. CASE Ends
  <2>1. KeyOK'
    BY <1>6 DEF Ends, KeyOK
  <2> QED BY <1>6, <2>1 DEF Ends
<1>7. CASE Reseat
  <2>1. KeyOK'
    BY <1>7, BoundRange DEF Reseat, KeyOK
  <2>2. RoomOK' /\ OwedOK'
    BY <1>7 DEF Reseat, RoomOK, OwedOK, Roles
  <2>3. ClocksOK'
    BY <1>7, AgeRange DEF Reseat, ClocksOK
  <2> QED BY <1>7, <2>1, <2>2, <2>3 DEF Reseat
<1>8. CASE EditsTurn
  <2>1. Head(jobs) \in Edits /\ jobs' \in Seq(Edits)
    BY <1>8 DEF EditsTurn, TextOK
  <2>2. TextOK'
    BY <1>8, <2>1, SettlesType DEF EditsTurn
  <2>3. sealing' \in Frames \cup {NoFrame}
    BY <1>8, <2>1, BeginsType DEF EditsTurn, Kinds, Writes, TaskOK
  <2>4. TaskOK'
    BY <1>8, <2>3 DEF EditsTurn, TaskOK
  <2> QED BY <1>8, <2>2, <2>4 DEF EditsTurn
<1> QED BY <1>1, <1>2, <1>3, <1>4, <1>5, <1>6, <1>7, <1>8

\* A step of a task that publishes, or is passed over.
LEMMA SealsType ==
    ASSUME TaskOK, todo # <<>>, NEW what \in Kinds, NEW load \in Writes,
           what = "flush" => load \subseteq Edits,
           Seals(what, load) \/ Passed
    PROVE  TaskOK'
<1>1. todo' \in Seq(Steps)
  BY DEF Seals, Passed, TaskOK
<1> QED BY <1>1, BeginsType DEF Seals, Passed, TaskOK

\* A publication that was not.
LEMMA UnpublishedType ==
    ASSUME TypeOK, sealing \in Frames, Unpublished(sealing.what, sealing.load)
    PROVE  unsent' \subseteq Entry /\ ClocksOK' /\ OwedOK'
<1>1. unsent' \subseteq Entry
  BY DEF Unpublished, PutBack, Entries, Entry, Frames, TypeOK, TextOK
<1>2. ClocksOK'
  BY AgeRange DEF Unpublished, TypeOK, ClocksOK
<1> QED BY <1>1, <1>2, Untouched DEF Unpublished, TypeOK

\* The steps of a task, and the ends of the seals they await.
LEMMA StepTypeOK ==
    ASSUME TypeOK, Step
    PROVE  TypeOK'
<1> USE Untouched DEF TypeOK
<1>1. CASE Announce
  <2>1. TaskOK'
    BY <1>1, SealsType DEF Announce, Reached, Kinds, Writes
  <2> QED BY <1>1, <2>1 DEF Announce
<1>2. CASE Handshake
  <2>1. TaskOK'
    BY <1>2, HeldType, SealsType DEF Handshake, Reached, Kinds
  <2> QED BY <1>2, <2>1 DEF Handshake
<1>3. CASE Resync
  <2>1. TaskOK'
    BY <1>3, HeldType, SealsType DEF Resync, Reached, Kinds
  <2> QED BY <1>3, <2>1 DEF Resync
<1>4. CASE Flush
  <2>1. TaskOK'
    <3>1. Held \in Writes
      BY HeldType DEF Writes
    <3> QED BY <1>4, <3>1, HeldType, SealsType DEF Flush, Reached, Kinds
  <2>2. TextOK'
    BY <1>4, HeldType DEF Flush, TextOK
  <2> QED BY <1>4, <2>1, <2>2 DEF Flush
<1>5. ASSUME sealing \in Frames, sealing' = NoFrame, UNCHANGED <<doc, baseline, jobs, banned, todo>>,
             unsent' \subseteq Entry
      PROVE  TextOK' /\ TaskOK'
  BY <1>5 DEF TextOK, TaskOK
<1>6. CASE Sealed
  <2>1. sealing \in Frames
    BY <1>6 DEF Sealed, TaskOK
  <2>2. CASE sealing.begun /\ StillAllowed(sealing.what)
    <3>1. WireOK'
      BY <1>6, <2>1, <2>2 DEF Sealed, Frames, WireOK, KeyOK, Kinds, Writes
    <3>2. unsent' \subseteq Entry
      BY <1>6, <2>2 DEF Sealed, Published, TextOK
    <3>3. ClocksOK' /\ OwedOK'
      BY <1>6, <2>2, AgeRange DEF Sealed, Published, ClocksOK, OwedOK
    <3> QED BY <1>5, <1>6, <2>1, <3>1, <3>2, <3>3 DEF Sealed
  <2>3. CASE ~(sealing.begun /\ StillAllowed(sealing.what))
    <3>1. UNCHANGED wire
      BY <1>6, <2>3 DEF Sealed, wire
    <3> QED BY <1>5, <1>6, <2>1, <2>3, <3>1, UnpublishedType DEF Sealed
  <2> QED BY <2>2, <2>3
<1>7. CASE SealFails
  <2>1. sealing \in Frames
    BY <1>7 DEF SealFails, TaskOK, NoFrame
  <2>2. UNCHANGED wire
    BY <1>7 DEF SealFails, wire
  <2> QED BY <1>5, <1>7, <2>1, <2>2, UnpublishedType DEF SealFails
<1> QED BY <1>1, <1>2, <1>3, <1>4, <1>6, <1>7 DEF Step

\* Every variable keeps its type: ages stay in their window, and what is sealed, held back
\* or queued is edits of the room (peer.ts, PeerSession).
THEOREM PeerTypeOK == Spec => []TypeOK
<1>1. TypeOK /\ [Next]_vars => TypeOK'
  <2> SUFFICES ASSUME TypeOK, [Next]_vars PROVE TypeOK'
    OBVIOUS
  <2>1. CASE UNCHANGED vars
    BY <2>1, Untouched DEF TypeOK, vars
  <2> QED BY <2>1, OutsideTypeOK, TaskTypeOK, StepTypeOK DEF Next
<1> QED BY <1>1, InitTypeOK, PTL DEF Spec
-----------------------------------------------------------------------------
\* What becomes of the text.

SettledEdits == {x.edit : x \in Settled}

\* The replica less what may be rolled back holds everything a frame has carried, carries
\* or will carry; what may be rolled back is in none of them, and a writer has nothing of
\* the kind.
SpeculationApart ==
    /\ role = "guest" => baseline = NoCopy
    /\ Held \subseteq doc
    /\ SettledEdits \subseteq PublicationDoc
    /\ exported \subseteq PublicationDoc
    /\ sealing.load \subseteq PublicationDoc
    /\ Speculative \cap PublicationDoc = {}
    /\ banned \cap doc = {}

\* What is held back is settled or may be rolled back.
LEMMA HeldParts == Held = SettledEdits \cup Speculative
BY DEF Held, SettledEdits, Speculative, Settled

LEMMA UnsentUntouched ==
    ASSUME UNCHANGED unsent
    PROVE  UNCHANGED <<Held, SettledEdits, Speculative>>
BY DEF Held, SettledEdits, Speculative, Settled

\* What each change of unsent makes of the three.
LEMMA EditParts ==
    ASSUME TextOK, NEW e \in Edits, NEW b \in BOOLEAN,
           unsent' = unsent \cup {[edit |-> e, speculative |-> b]}
    PROVE  /\ Held' = Held \cup {e}
           /\ SettledEdits' = IF b THEN SettledEdits ELSE SettledEdits \cup {e}
           /\ Speculative' = IF b THEN Speculative \cup {e} ELSE Speculative
<1> DEFINE new == [edit |-> e, speculative |-> b]
<1>1. new.edit = e /\ new.speculative = b
  OBVIOUS
<1> HIDE DEF new
<1>2. unsent' = unsent \cup {new}
  BY DEF new
<1>3. Held' = Held \cup {e}
  BY <1>1, <1>2 DEF Held
<1>4. CASE b
  <2>1. Settled' = Settled /\ (unsent \ Settled)' = (unsent \ Settled) \cup {new}
    BY <1>1, <1>2, <1>4 DEF Settled
  <2> QED BY <1>1, <1>3, <1>4, <2>1 DEF SettledEdits, Speculative
<1>5. CASE ~b
  <2>1. Settled' = Settled \cup {new} /\ (unsent \ Settled)' = unsent \ Settled
    BY <1>1, <1>2, <1>5 DEF Settled
  <2> QED BY <1>1, <1>3, <1>5, <2>1 DEF SettledEdits, Speculative
<1> QED BY <1>4, <1>5

LEMMA EntriesParts ==
    ASSUME NEW es
    PROVE  /\ \A x \in Entries(es) : x.edit \in es /\ x.speculative = FALSE
           /\ \A e \in es : \E x \in Entries(es) : x.edit = e
<1>1. \A e \in es : [edit |-> e, speculative |-> FALSE] \in Entries(es)
  BY DEF Entries
<1> QED BY <1>1 DEF Entries

LEMMA AcceptedParts ==
    ASSUME TextOK, unsent' = AcceptedUnsent
    PROVE  Held' = Held /\ SettledEdits' = Held /\ Speculative' = {}
<1>1. /\ \A x \in unsent' : x.edit \in Held /\ x.speculative = FALSE
      /\ \A e \in Held : \E x \in unsent' : x.edit = e
  BY EntriesParts DEF AcceptedUnsent
<1>2. Settled' = unsent'
  BY <1>1 DEF Settled
<1>3. Held' = Held
  BY <1>1 DEF Held
<1> QED BY <1>2, <1>3 DEF Held, SettledEdits, Speculative

LEMMA KeptParts ==
    ASSUME TextOK, unsent' = Settled
    PROVE  Held' = SettledEdits /\ SettledEdits' = SettledEdits /\ Speculative' = {}
BY DEF TextOK, Entry, Held, SettledEdits, Speculative, Settled

LEMMA PutBackParts ==
    ASSUME TextOK, NEW load, unsent' = Entries(load) \cup unsent
    PROVE  /\ Held' = load \cup Held /\ SettledEdits' = load \cup SettledEdits
           /\ Speculative' = Speculative
<1> DEFINE back == Entries(load)
<1>1. /\ \A x \in back : x.edit \in load /\ x.speculative = FALSE
      /\ \A e \in load : \E x \in back : x.edit = e
  BY EntriesParts
<1> HIDE DEF back
<1>2. unsent' = back \cup unsent
  BY DEF back
<1>3. Held' = load \cup Held
  BY <1>1, <1>2 DEF Held
<1>4. Settled' = back \cup Settled /\ (unsent \ Settled)' = unsent \ Settled
  BY <1>1, <1>2 DEF Settled
<1>5. SettledEdits' = load \cup SettledEdits
  BY <1>1, <1>4 DEF SettledEdits
<1> QED BY <1>3, <1>4, <1>5 DEF Speculative

LEMMA SubsetParts ==
    ASSUME unsent' \subseteq unsent
    PROVE  /\ Held' \subseteq Held /\ SettledEdits' \subseteq SettledEdits
           /\ Speculative' \subseteq Speculative
BY DEF Held, SettledEdits, Speculative, Settled

\* The text is where it should be: apart, and accounted for.
TextInv == SpeculationApart /\ EveryEditIsAccountedFor

LEMMA InitTextInv == Init => TextInv
BY DEF Init, TextInv, SpeculationApart, EveryEditIsAccountedFor, Held, SettledEdits, Settled,
       Speculative, PublicationDoc, NoFrame, None

\* A step that leaves the text alone may begin a frame of what is published.
LEMMA FrameTextInv ==
    ASSUME TextInv, UNCHANGED <<doc, baseline, unsent, banned, exported>>,
           role' = "guest" => role = "guest",
           \/ sealing' = sealing
           \/ sealing = NoFrame /\ sealing'.load \subseteq PublicationDoc
    PROVE  TextInv'
<1>1. UNCHANGED <<Held, SettledEdits, Speculative, PublicationDoc>>
  BY UnsentUntouched DEF PublicationDoc
<1>2. SpeculationApart'
  BY <1>1 DEF TextInv, SpeculationApart
<1>3. EveryEditIsAccountedFor'
  BY <1>1 DEF TextInv, EveryEditIsAccountedFor, NoFrame
<1> QED BY <1>2, <1>3 DEF TextInv

\* A local edit: before the room has said "guest" it may be rolled back, and then what was
\* there before it is kept clean.
LEMMA EditTextInv ==
    ASSUME TypeOK, TextInv, NEW e \in Edits, Edit(e)
    PROVE  TextInv'
<1> USE DEF TextInv, SpeculationApart
<1>1. TextOK /\ doc \in Writes
  BY DEF TypeOK, TextOK
<1>2. /\ Held' = Held \cup {e}
      /\ SettledEdits' = IF ~IsWriter THEN SettledEdits ELSE SettledEdits \cup {e}
      /\ Speculative' = IF ~IsWriter THEN Speculative \cup {e} ELSE Speculative
  <2>1. (~IsWriter) \in BOOLEAN
    OBVIOUS
  <2> QED BY <1>1, <2>1, EditParts DEF Edit
<1>3. baseline # NoCopy => PublicationDoc = baseline
  BY DEF PublicationDoc
<1>4. baseline = NoCopy => PublicationDoc = doc
  BY DEF PublicationDoc
<1>5. PublicationDoc \subseteq doc
  BY <1>1 DEF PublicationDoc, TextOK
<1>6. /\ sealing' = sealing /\ exported' = exported /\ banned' = banned /\ role' = role
      /\ doc' = doc \cup {e} /\ e \notin doc \cup banned
  BY DEF Edit, task, wire, room
<1>7. CASE IsWriter
  <2>1. baseline' = NoCopy /\ PublicationDoc' = doc'
    BY <1>7 DEF Edit, IsWriter, PublicationDoc
  <2>2. SpeculationApart'
    <3>1. PublicationDoc = doc /\ Speculative = {}
      BY <1>4, <1>7, HeldParts DEF IsWriter
    <3> QED BY <1>2, <1>6, <1>7, <2>1, <3>1
  <2>3. EveryEditIsAccountedFor'
    BY <1>2, <1>6 DEF EveryEditIsAccountedFor
  <2> QED BY <2>2, <2>3
<1>8. CASE ~IsWriter
  <2>1. baseline' = PublicationDoc
    BY <1>3, <1>4, <1>8 DEF Edit, IsWriter
  <2>2. PublicationDoc' = PublicationDoc
    <3>1. PublicationDoc # NoCopy
      BY <1>1, <1>5, NoCopyAssumption DEF Writes
    <3> QED BY <2>1, <3>1 DEF PublicationDoc
  <2>3. SpeculationApart'
    BY <1>2, <1>5, <1>6, <1>8, <2>2 DEF IsWriter
  <2>4. EveryEditIsAccountedFor'
    BY <1>2, <1>6 DEF EveryEditIsAccountedFor
  <2> QED BY <2>3, <2>4
<1> QED BY <1>7, <1>8

\* What accepting the history does: everything held is settled.
LEMMA AcceptTextInv ==
    ASSUME TypeOK, TextInv, Accept, sealing = NoFrame, UNCHANGED exported,
           sealing'.load \subseteq doc
    PROVE  TextInv'
<1>1. Held' = Held /\ SettledEdits' = Held /\ Speculative' = {}
  BY AcceptedParts DEF Accept, TypeOK
<1>2. doc' = doc /\ baseline' = NoCopy /\ PublicationDoc' = doc /\ banned' = banned
  BY DEF Accept, PublicationDoc
<1>3. PublicationDoc \subseteq doc
  BY DEF TypeOK, TextOK, PublicationDoc
<1>4. SpeculationApart'
  BY <1>1, <1>2, <1>3 DEF TextInv, SpeculationApart
<1>5. EveryEditIsAccountedFor'
  BY <1>1, <1>2 DEF TextInv, EveryEditIsAccountedFor, NoFrame
<1> QED BY <1>4, <1>5 DEF TextInv

\* A room state: a viewer's history is rolled back, a writer's is accepted.
LEMMA StateTextInv ==
    ASSUME TypeOK, TextInv, NEW r \in Roles, NEW w \in BOOLEAN, DeliverState(r, w)
    PROVE  TextInv'
<1>1. sealing = NoFrame /\ sealing' = sealing /\ UNCHANGED exported /\ role' = r
  BY DEF DeliverState, Idle, wire
<1>2. CASE r = "guest"
  BY <1>1, <1>2, AcceptTextInv DEF DeliverState, None, NoFrame
<1>3. CASE r = "viewer"
  <2>1. Discard
    BY <1>3 DEF DeliverState, None
  <2>2. Held' = SettledEdits /\ SettledEdits' = SettledEdits /\ Speculative' = {}
    BY <2>1, KeptParts DEF Discard, TypeOK
  <2>3. /\ doc' = PublicationDoc /\ baseline' = NoCopy /\ PublicationDoc' = PublicationDoc
        /\ banned' = banned \cup Speculative
    BY <2>1 DEF Discard, PublicationDoc
  <2>4. PublicationDoc \subseteq doc
    BY DEF TypeOK, TextOK, PublicationDoc
  <2>5. SpeculationApart'
    BY <1>1, <2>2, <2>3, <2>4 DEF TextInv, SpeculationApart
  <2>6. EveryEditIsAccountedFor'
    BY <1>1, <2>2, <2>3, <2>4, HeldParts
    DEF TextInv, SpeculationApart, EveryEditIsAccountedFor, NoFrame
  <2> QED BY <2>5, <2>6 DEF TextInv
<1>4. CASE r = None
  BY <1>1, <1>4, FrameTextInv DEF DeliverState, None
<1> QED BY <1>2, <1>3, <1>4 DEF Roles

\* What the other writer brings is in both replicas.
LEMMA DeliverEditTextInv ==
    ASSUME TypeOK, TextInv, NEW e \in RemoteEdits, DeliverEdit(e)
    PROVE  TextInv'
<1>1. UNCHANGED <<Held, SettledEdits, Speculative>>
  BY UnsentUntouched DEF DeliverEdit
<1>2. /\ sealing' = sealing /\ exported' = exported /\ banned' = banned /\ role' = role
      /\ doc' = doc \cup {e} /\ e \notin doc
  BY DEF DeliverEdit, task, wire, room
<1>3. e \notin Edits
  BY PeerAssumption
<1>4. baseline # NoCopy => baseline \cup {e} # NoCopy
  BY NoCopyAssumption DEF TypeOK, TextOK, Writes
<1>5. PublicationDoc' = PublicationDoc \cup {e}
  BY <1>2, <1>4 DEF DeliverEdit, PublicationDoc
<1>6. Speculative \subseteq Edits /\ banned \subseteq Edits
  BY HeldType DEF TypeOK, TextOK
<1>7. (role = "guest" => baseline = NoCopy)'
  BY <1>2 DEF DeliverEdit, TextInv, SpeculationApart
<1>8. SpeculationApart'
  BY <1>1, <1>2, <1>3, <1>5, <1>6, <1>7 DEF TextInv, SpeculationApart
<1>9. EveryEditIsAccountedFor'
  BY <1>1, <1>2, <1>3 DEF TextInv, EveryEditIsAccountedFor
<1> QED BY <1>8, <1>9 DEF TextInv

\* The turn of an edit's publication.
LEMMA EditsTurnTextInv ==
    ASSUME TypeOK, TextInv, EditsTurn
    PROVE  TextInv'
<1>1. sealing = NoFrame /\ UNCHANGED exported /\ role' = role
  BY DEF EditsTurn, Idle, wire, room
<1>2. CASE StillHeld(Head(jobs))
  <2>1. Accept /\ sealing'.load = {Head(jobs)}
    BY <1>2 DEF EditsTurn, Begins
  <2>2. Head(jobs) \in doc
    BY <1>2 DEF StillHeld, TextInv, SpeculationApart
  <2> QED BY <1>1, <2>1, <2>2, AcceptTextInv
<1>3. CASE ~StillHeld(Head(jobs))
  BY <1>1, <1>3, FrameTextInv DEF EditsTurn
<1> QED BY <1>2, <1>3

\* A flush: what was held back is in the frame, or is held still.
LEMMA FlushTextInv ==
    ASSUME TypeOK, TextInv, Flush
    PROVE  TextInv'
<1>1. /\ sealing = NoFrame /\ UNCHANGED <<doc, banned, exported, role>>
  BY DEF Flush, Reached, wire, room
<1>2. PublicationDoc \subseteq doc
  BY DEF TypeOK, TextOK, PublicationDoc
<1>3. CASE IsWriter /\ unsent # {} /\ MayPublish
  <2>1. unsent' = {} /\ baseline' = NoCopy /\ sealing'.load = Held /\ sealing'.what = "flush"
    BY <1>3 DEF Flush, Seals, Begins
  <2>2. Held' = {} /\ SettledEdits' = {} /\ Speculative' = {} /\ PublicationDoc' = doc
    BY <1>1, <2>1 DEF Held, SettledEdits, Speculative, Settled, PublicationDoc
  <2>3. SpeculationApart'
    BY <1>1, <1>2, <2>1, <2>2 DEF TextInv, SpeculationApart
  <2>4. EveryEditIsAccountedFor'
    BY <1>1, <2>1, <2>2 DEF TextInv, EveryEditIsAccountedFor, NoFrame
  <2> QED BY <2>3, <2>4 DEF TextInv
<1>4. CASE IsWriter /\ unsent # {} /\ ~MayPublish
  BY <1>1, <1>4, AcceptTextInv DEF Flush, Passed, Accept, NoFrame
<1>5. CASE ~(IsWriter /\ unsent # {})
  BY <1>1, <1>5, FrameTextInv DEF Flush, Passed
<1> QED BY <1>3, <1>4, <1>5

\* A frame that did not go out: a flush is held again.
LEMMA UnpublishedTextInv ==
    ASSUME TypeOK, TextInv, Unpublished(sealing.what, sealing.load), sealing' = NoFrame,
           UNCHANGED <<doc, baseline, banned, exported, role>>
    PROVE  TextInv'
<1>1. UNCHANGED PublicationDoc /\ PublicationDoc \subseteq doc
  BY DEF PublicationDoc, TypeOK, TextOK
<1>2. CASE sealing.what = "flush"
  <2>1. /\ Held' = sealing.load \cup Held /\ SettledEdits' = sealing.load \cup SettledEdits
        /\ Speculative' = Speculative
    BY <1>2, PutBackParts DEF Unpublished, PutBack, TypeOK
  <2>2. SpeculationApart'
    BY <1>1, <2>1 DEF TextInv, SpeculationApart, NoFrame
  <2>3. EveryEditIsAccountedFor'
    BY <2>1 DEF TextInv, EveryEditIsAccountedFor
  <2> QED BY <2>2, <2>3 DEF TextInv
<1>3. CASE sealing.what # "flush"
  <2>1. UNCHANGED <<Held, SettledEdits, Speculative>>
    BY <1>3, UnsentUntouched DEF Unpublished, PutBack
  <2>2. SpeculationApart'
    BY <1>1, <2>1 DEF TextInv, SpeculationApart, NoFrame
  <2>3. EveryEditIsAccountedFor'
    BY <1>3, <2>1 DEF TextInv, EveryEditIsAccountedFor
  <2> QED BY <2>2, <2>3 DEF TextInv
<1> QED BY <1>2, <1>3

\* A seal that is done.
LEMMA SealedTextInv ==
    ASSUME TypeOK, TextInv, Sealed
    PROVE  TextInv'
<1>1. /\ sealing' = NoFrame /\ UNCHANGED <<doc, baseline, banned, role>>
  BY DEF Sealed, room
<1>2. CASE sealing.begun /\ StillAllowed(sealing.what)
  <2>1. UNCHANGED PublicationDoc
    BY <1>1 DEF PublicationDoc
  <2>2. exported' = IF IsContent(sealing.what) THEN exported \cup sealing.load ELSE exported
    BY <1>2 DEF Sealed
  <2>3. unsent' = IF sealing.what = "edit" THEN {x \in unsent : x.edit \notin sealing.load}
                  ELSE unsent
    BY <1>2 DEF Sealed, Published
  <2>4. /\ Held' \subseteq Held /\ SettledEdits' \subseteq SettledEdits
        /\ Speculative' \subseteq Speculative
    BY <2>3, SubsetParts
  <2>5. SpeculationApart'
    BY <1>1, <2>1, <2>2, <2>4 DEF TextInv, SpeculationApart, NoFrame
  <2>6. \A e \in Held : e \in Held' \/ e \in exported'
    BY <2>2, <2>3 DEF Held, IsContent
  <2>7. EveryEditIsAccountedFor'
    BY <1>1, <2>2, <2>6 DEF TextInv, EveryEditIsAccountedFor, IsContent
  <2> QED BY <2>5, <2>7 DEF TextInv
<1>3. CASE ~(sealing.begun /\ StillAllowed(sealing.what))
  BY <1>1, <1>3, UnpublishedTextInv DEF Sealed
<1> QED BY <1>2, <1>3

\* Every step keeps the text where it should be.
LEMMA NextTextInv ==
    ASSUME TypeOK, TextInv, [Next]_vars
    PROVE  TextInv'
<1>1. ASSUME \/ Detach \/ TakeOutbound \/ NoteStep1Failure \/ Advance
             \/ RefuseContent \/ Tick \/ Ends \/ Reseat \/ UNCHANGED vars
      PROVE  TextInv'
  <2>1. /\ UNCHANGED <<doc, baseline, unsent, banned, exported, sealing>>
        /\ role' = role \/ role' = None
    BY <1>1
    DEF Detach, TakeOutbound, NoteStep1Failure, Advance, RefuseContent, Tick, Ends, Reseat,
        vars, text, wire, task, room
  <2> QED BY <2>1, FrameTextInv DEF None
<1>2. CASE DeliverRequest
  <2>1. /\ UNCHANGED <<doc, baseline, unsent, banned, exported, role>> /\ sealing = NoFrame
        /\ sealing' = sealing \/ sealing'.load = PublicationDoc
    BY <1>2 DEF DeliverRequest, Idle, Begins, text, wire, room
  <2> QED BY <2>1, FrameTextInv
<1>3. ASSUME Announce \/ Handshake \/ Resync PROVE TextInv'
  <2>1. /\ UNCHANGED <<doc, baseline, unsent, banned, exported, role>> /\ sealing = NoFrame
        /\ \/ sealing' = sealing \/ sealing'.load = PublicationDoc \/ sealing'.load = {}
    BY <1>3
    DEF Announce, Handshake, Resync, Reached, Seals, Passed, Begins, text, wire, room
  <2> QED BY <2>1, FrameTextInv
<1>4. CASE SealFails
  BY <1>4, UnpublishedTextInv DEF SealFails, room
<1> QED
  BY <1>1, <1>2, <1>3, <1>4, EditTextInv, StateTextInv, DeliverEditTextInv, EditsTurnTextInv,
     FlushTextInv, SealedTextInv
  DEF Next, Step

LEMMA SpecTextInv == Spec => []TextInv
BY InitTextInv, NextTextInv, PeerTypeOK, PTL DEF Spec

\* No local edit is lost between the replica, what is held back and the frames, whatever
\* fails, drops or is answered in between (peer.ts, publishEdit, flushHeldBackEdits, publish).
THEOREM PeerKeepsEveryEdit == Spec => []EveryEditIsAccountedFor
BY SpecTextInv, PTL DEF TextInv

\* What was typed before the room said "viewer" is in no replica and no frame after it, and
\* no later promotion brings it back (peer.ts, discardSpeculative, reply).
THEOREM PeerViewerTextStays == Spec => []ViewerTextStaysHere
<1>1. TypeOK /\ TextInv => ViewerTextStaysHere
  BY DEF TextInv, SpeculationApart, ViewerTextStaysHere, TypeOK, TextOK, PublicationDoc
<1> QED BY <1>1, PeerTypeOK, SpecTextInv, PTL

-----------------------------------------------------------------------------
\* Requests.

\* A request waits out its interval from the step that asks for its seal to the frame, and
\* an eligibility that armed a request has been served by it.
Paced ==
    /\ sealing.what = "step1" => handshakenAge >= Renew
    /\ armed <= 1 /\ (armed = 0 \/ served)

LEMMA InitPaced == Init => Paced
BY DEF Init, Paced, NoFrame

\* No seal of a request is in hand, or it was asked for in time, or its age only grows.
LEMMA StepPaced ==
    ASSUME TypeOK, Paced, [Next]_vars
    PROVE  (sealing.what = "step1" => handshakenAge >= Renew)'
<1> USE DEF TypeOK, ClocksOK
<1>1. ASSUME UNCHANGED <<sealing, handshakenAge>>
      PROVE  (sealing.what = "step1" => handshakenAge >= Renew)'
  BY <1>1 DEF Paced
<1>2. ASSUME sealing'.what # "step1"
      PROVE  (sealing.what = "step1" => handshakenAge >= Renew)'
  BY <1>2
<1>3. CASE Advance
  <2>1. sealing' = sealing /\ (handshakenAge >= Renew => handshakenAge' = handshakenAge)
    BY <1>3, PeerAssumption DEF Advance, Older, Ages, Never, task
  <2> QED BY <2>1 DEF Paced
<1>4. ASSUME DeliverRequest \/ EditsTurn \/ Reseat
      PROVE  (sealing.what = "step1" => handshakenAge >= Renew)'
  <2>1. sealing'.what # "step1"
    BY <1>4 DEF DeliverRequest, EditsTurn, Reseat, Begins, Idle, NoFrame, task
  <2> QED BY <1>2, <2>1
<1>5. ASSUME Announce \/ Flush \/ Sealed \/ SealFails
      PROVE  (sealing.what = "step1" => handshakenAge >= Renew)'
  <2>1. sealing'.what # "step1"
    BY <1>5
    DEF Announce, Flush, Sealed, SealFails, Reached, Seals, Passed, Begins, NoFrame
  <2> QED BY <1>2, <2>1
<1>6. CASE Handshake
  <2>1. handshakenAge' = handshakenAge /\ (sealing'.what = "step1" => handshakenAge = Never)
    BY <1>6 DEF Handshake, Reached, Seals, Passed, Begins, NoFrame, clocks
  <2> QED BY <2>1, PeerAssumption DEF Never
<1>7. CASE Resync
  <2>1. handshakenAge' = handshakenAge /\ (sealing'.what = "step1" => Due(handshakenAge))
    BY <1>7 DEF Resync, ResyncDue, Reached, Seals, Passed, Begins, NoFrame, clocks
  <2> QED BY <2>1 DEF Due
<1>8. ASSUME \/ \E e \in Edits : Edit(e)
             \/ Detach \/ TakeOutbound \/ NoteStep1Failure
             \/ \E r \in Roles, w \in BOOLEAN : DeliverState(r, w)
             \/ \E e \in RemoteEdits : DeliverEdit(e)
             \/ RefuseContent \/ Tick \/ Ends \/ UNCHANGED vars
      PROVE  UNCHANGED <<sealing, handshakenAge>>
  BY <1>8
  DEF Edit, Detach, TakeOutbound, NoteStep1Failure, DeliverState, DeliverEdit, RefuseContent,
      Tick, Ends, vars, task, clocks
<1> QED BY <1>1, <1>3, <1>4, <1>5, <1>6, <1>7, <1>8 DEF Next, Step

\* A request of the other writer arms one of this peer's, once in an eligibility.
LEMMA ArmedOnce ==
    ASSUME TypeOK, Paced, [Next]_vars
    PROVE  armed' <= 1 /\ (armed' = 0 \/ served')
<1> USE DEF Paced, TypeOK, OwedOK
<1>1. ASSUME NEW r \in Roles, NEW w \in BOOLEAN, DeliverState(r, w)
      PROVE  armed' <= 1 /\ (armed' = 0 \/ served')
  BY <1>1 DEF DeliverState, PruneReciprocal
<1>2. CASE DeliverRequest
  BY <1>2 DEF DeliverRequest, ArmReciprocal
<1>3. CASE Reseat
  BY <1>3 DEF Reseat
<1>4. CASE Sealed
  BY <1>4 DEF Sealed, Published, Unpublished, owed
<1>5. ASSUME \/ \E e \in Edits : Edit(e)
             \/ Detach \/ TakeOutbound \/ NoteStep1Failure \/ Advance
             \/ \E e \in RemoteEdits : DeliverEdit(e)
             \/ RefuseContent \/ Tick \/ Ends \/ EditsTurn
             \/ Announce \/ Handshake \/ Resync \/ Flush \/ SealFails \/ UNCHANGED vars
      PROVE  UNCHANGED <<armed, served>>
  BY <1>5
  DEF Edit, Detach, TakeOutbound, NoteStep1Failure, Advance, DeliverEdit, RefuseContent,
      Tick, Ends, EditsTurn, Announce, Handshake, Resync, Flush, SealFails, Unpublished,
      vars, owed
<1> QED BY <1>1, <1>2, <1>3, <1>4, <1>5 DEF Next, Step

\* Only a seal that is done queues a frame, and it is the one that was in hand.
LEMMA QueuedBySeal ==
    ASSUME [Next]_vars, NEW f \in outbound' \ outbound
    PROVE  f.what = sealing.what
<1>1. CASE Sealed
  BY <1>1 DEF Sealed
<1>2. ASSUME \/ \E e \in Edits : Edit(e)
             \/ Detach \/ TakeOutbound \/ NoteStep1Failure \/ Advance
             \/ \E r \in Roles, w \in BOOLEAN : DeliverState(r, w)
             \/ \E e \in RemoteEdits : DeliverEdit(e)
             \/ DeliverRequest \/ RefuseContent \/ Tick \/ Ends \/ Reseat \/ EditsTurn
             \/ Announce \/ Handshake \/ Resync \/ Flush \/ SealFails \/ UNCHANGED vars
      PROVE  outbound' \subseteq outbound
  BY <1>2
  DEF Edit, Detach, TakeOutbound, NoteStep1Failure, Advance, DeliverState, DeliverEdit,
      DeliverRequest, RefuseContent, Tick, Ends, Reseat, EditsTurn, Announce, Handshake,
      Resync, Flush, SealFails, vars, wire
<1> QED BY <1>1, <1>2 DEF Next, Step

LEMMA SpecPaced == Spec => []Paced
<1>1. TypeOK /\ Paced /\ [Next]_vars => Paced'
  BY StepPaced, ArmedOnce DEF Paced
<1> QED BY <1>1, InitPaced, PeerTypeOK, PTL DEF Spec

\* A connection asks the room once in a renewal interval, whatever wants to ask, and answers
\* the other writer's asking once while it stays one (peer.ts, resync, armReciprocal).
THEOREM PeerRequestsArePaced == Spec => RequestsArePaced
<1>1. TypeOK /\ Paced /\ [Next]_vars =>
        [/\ armed' <= 1
         /\ [what |-> "step1", seat |-> seats] \in outbound' \ outbound
              => handshakenAge >= Renew]_vars
  BY ArmedOnce, QueuedBySeal DEF Paced
<1> QED BY <1>1, PeerTypeOK, SpecPaced, PTL DEF Spec, RequestsArePaced

-----------------------------------------------------------------------------
(* The requests of a connection.                                           *)

\* The line: who is in it has asked and has not passed, the first may be out or settled, those
\* behind it wait, and nobody else is out.
InLine ==
    /\ \A i \in 1..Len(line) :
          /\ state[line[i]] \in {"waiting", "out", "settled"}
          /\ i # 1 => state[line[i]] = "waiting"
          /\ \A j \in 1..(i - 1) : line[i] # line[j]
    /\ \A c \in Calls : state[c] = "out" => line # <<>> /\ c = line[1]

\* What is out has a request of its own, and an id below names one request only.
OneRequest ==
    /\ \A p, q \in pending : p = q
    /\ \A p \in pending \cup asked \cup accepted : p[1] <= requestId
    /\ \A p \in pending, q \in asked \cup accepted : p[1] = q[1] => p = q

\* A reply that gives a name is to a request the server took; and who is named was taken.
Taken ==
    /\ \A i \in 1..Len(inbox) : inbox[i].kind = "result" => \E q \in accepted : q[1] = inbox[i].id
    /\ \A c \in Calls : answer[c] = "named" => \E q \in accepted : q[2] = c

RenameHolds == RequestsTypeOK /\ InLine /\ OneRequest /\ Taken

\* Some calls settle: those that were out.
LEMMA SettleKeeps ==
    ASSUME RequestsTypeOK, InLine, NEW cs, \A c \in cs : c \in Calls /\ state[c] = "out",
           NEW value \in {"named", "failed"}, Settle(cs, value)
    PROVE  /\ state' \in [Calls -> {"unasked", "waiting", "out", "settled", "passed"}]
           /\ answer' \in [Calls -> {"none", "named", "failed"}]
           /\ \A c \in Calls :
                 /\ state'[c] = "out" => state[c] = "out" /\ c \notin cs
                 /\ c \notin cs => state'[c] = state[c] /\ answer'[c] = answer[c]
                 /\ c \in cs => state'[c] = "settled" /\ answer'[c] = value
           /\ line' = line => InLine'
<1>1. state \in [Calls -> {"unasked", "waiting", "out", "settled", "passed"}]
      /\ answer \in [Calls -> {"none", "named", "failed"}] /\ line \in Seq(Calls)
  BY DEF RequestsTypeOK
<1>2. /\ state' \in [Calls -> {"unasked", "waiting", "out", "settled", "passed"}]
      /\ answer' \in [Calls -> {"none", "named", "failed"}]
      /\ \A c \in Calls :
            /\ c \notin cs => state'[c] = state[c] /\ answer'[c] = answer[c]
            /\ c \in cs => state'[c] = "settled" /\ answer'[c] = value
  BY <1>1 DEF Settle
<1>3. ASSUME line' = line PROVE InLine'
  <2>1. \A i \in 1..Len(line) : line[i] \in Calls
    BY <1>1
  <2>2. ASSUME NEW i \in 1..Len(line)
        PROVE  /\ state'[line[i]] \in {"waiting", "out", "settled"}
               /\ i # 1 => state'[line[i]] = "waiting"
               /\ \A j \in 1..(i - 1) : line[i] # line[j]
    BY <1>2, <2>1 DEF InLine
  <2>3. \A c \in Calls : state'[c] = "out" => line # <<>> /\ c = line[1]
    BY <1>2 DEF InLine
  <2> QED BY <1>3, <2>2, <2>3 DEF InLine
<1> QED BY <1>2, <1>3

\* Fewer requests out, and fewer that the server has, are as they should be.
LEMMA FewerKeeps ==
    ASSUME OneRequest, pending' \subseteq pending, asked' \subseteq asked, UNCHANGED <<accepted, requestId>>
    PROVE  OneRequest'
BY DEF OneRequest

LEMMA FailRequestsKeeps ==
    ASSUME RenameHolds, FailRequests, UNCHANGED <<line, requestId, accepted>>
    PROVE  /\ state' \in [Calls -> {"unasked", "waiting", "out", "settled", "passed"}]
           /\ answer' \in [Calls -> {"none", "named", "failed"}] /\ pending' = {}
           /\ InLine' /\ \A c \in Calls : answer'[c] = "named" => \E q \in accepted' : q[2] = c
<1> DEFINE cs == {p[2] : p \in pending}
<1>1. \A c \in cs : c \in Calls /\ state[c] = "out"
  BY DEF RenameHolds, RequestsTypeOK
<1>2. Settle(cs, "failed") /\ pending' = {}
  BY DEF FailRequests
<1> HIDE DEF cs
<1>3. /\ state' \in [Calls -> {"unasked", "waiting", "out", "settled", "passed"}]
      /\ answer' \in [Calls -> {"none", "named", "failed"}]
      /\ \A c \in Calls : (c \notin cs => answer'[c] = answer[c]) /\ (c \in cs => answer'[c] = "failed")
      /\ InLine'
  BY <1>1, <1>2, SettleKeeps DEF RenameHolds
<1> QED BY <1>2, <1>3 DEF RenameHolds, Taken

\* A request goes out where none is out, under an id above all others; or it fails at once.
LEMMA SendKeeps ==
    ASSUME RequestsTypeOK, OneRequest, pending = {}, NEW c \in Calls, Send(c)
    PROVE  /\ pending' \subseteq Nat \X {x \in Calls : state'[x] = "out"}
           /\ requestId' \in Nat \ {0} /\ asked' \subseteq Nat \X Calls
           /\ UNCHANGED accepted => OneRequest'
           /\ \/ state' = [state EXCEPT ![c] = "out"] /\ UNCHANGED answer
              \/ Settle({c}, "failed") /\ pending' = {}
<1>1. requestId \in Nat \ {0} /\ asked \subseteq Nat \X Calls /\ accepted \subseteq Nat \X Calls
      /\ state \in [Calls -> {"unasked", "waiting", "out", "settled", "passed"}]
  BY DEF RequestsTypeOK
<1>2. CASE /\ requestId' = NextId /\ pending' = pending \cup {<<NextId, c>>}
           /\ asked' = asked \cup {<<NextId, c>>} /\ state' = [state EXCEPT ![c] = "out"]
           /\ UNCHANGED answer
  <2>1. NextId \in Nat \ {0} /\ NextId > requestId /\ pending' = {<<NextId, c>>}
    BY <1>1, <1>2 DEF NextId
  <2>2. \A q \in asked \cup accepted : q[1] <= requestId /\ q[1] \in Nat
    BY <1>1 DEF OneRequest
  <2>3. UNCHANGED accepted => OneRequest'
    <3> SUFFICES ASSUME accepted' = accepted PROVE OneRequest'
      OBVIOUS
    <3>1. \A p, q \in pending' : p = q
      BY <2>1
    <3>2. \A p \in pending' \cup asked' \cup accepted' : p[1] <= requestId'
      BY <1>1, <1>2, <2>1, <2>2
    <3>3. \A p \in pending', q \in asked' \cup accepted' : p[1] = q[1] => p = q
      BY <1>1, <1>2, <2>1, <2>2
    <3> QED BY <3>1, <3>2, <3>3 DEF OneRequest
  <2>4. state'[c] = "out"
    BY <1>1, <1>2
  <2> QED BY <1>1, <1>2, <2>1, <2>3, <2>4
<1>3. CASE /\ requestId' \in {requestId, NextId} /\ Settle({c}, "failed") /\ UNCHANGED <<pending, asked>>
  <2>1. requestId' \in Nat \ {0} /\ requestId' >= requestId
    BY <1>1, <1>3 DEF NextId
  <2>2. \A q \in asked \cup accepted : q[1] <= requestId /\ q[1] \in Nat
    BY <1>1 DEF OneRequest
  <2>3. UNCHANGED accepted => OneRequest'
    BY <1>1, <1>3, <2>1, <2>2 DEF OneRequest
  <2> QED BY <1>1, <1>3, <2>1, <2>3
<1> QED BY <1>2, <1>3 DEF Send

\* When the first in line is not out, nothing is.
LEMMA NobodyIsOut ==
    ASSUME RequestsTypeOK, InLine, line = <<>> \/ state[line[1]] # "out"
    PROVE  pending = {} /\ \A c \in Calls : state[c] # "out"
BY DEF RequestsTypeOK, InLine

\* Who asks with nobody before it is first in line, and its request goes out or fails; who asks
\* with others before it waits.
LEMMA AskKeeps ==
    ASSUME RenameHolds, NEW c \in Calls, Ask(c)
    PROVE  RenameHolds'
<1> USE DEF RenameHolds
<1>1. /\ state \in [Calls -> {"unasked", "waiting", "out", "settled", "passed"}]
      /\ answer \in [Calls -> {"none", "named", "failed"}] /\ line \in Seq(Calls)
      /\ state[c] = "unasked"
      /\ line' = Append(line, c) /\ UNCHANGED <<inbox, up, ended, drops, accepted>>
  BY DEF RequestsTypeOK, Ask
<1>2. /\ line' \in Seq(Calls) /\ Len(line') = Len(line) + 1 /\ line' # <<>>
      /\ line'[Len(line) + 1] = c /\ \A i \in 1..Len(line) : line'[i] = line[i] /\ line[i] \in Calls
  BY <1>1
<1>3. \A i \in 1..Len(line) : line[i] # c
  BY <1>1 DEF InLine
<1>4. CASE NobodyAsks
  <2>1. line = <<>> /\ Send(c) /\ pending = {} /\ \A x \in Calls : state[x] # "out"
    BY <1>4, NobodyIsOut DEF NobodyAsks, Ask
  <2>2. /\ pending' \subseteq Nat \X {x \in Calls : state'[x] = "out"}
        /\ requestId' \in Nat \ {0} /\ asked' \subseteq Nat \X Calls
        /\ OneRequest'
        /\ \/ state' = [state EXCEPT ![c] = "out"] /\ UNCHANGED answer
           \/ Settle({c}, "failed") /\ pending' = {}
    BY <1>1, <2>1, SendKeeps
  <2>3. /\ state' \in [Calls -> {"unasked", "waiting", "out", "settled", "passed"}]
        /\ answer' \in [Calls -> {"none", "named", "failed"}]
        /\ state'[c] \in {"out", "settled"} /\ \A x \in Calls : x # c => state'[x] = state[x]
        /\ \A x \in Calls : answer'[x] = "named" => answer[x] = "named"
    BY <1>1, <2>2 DEF Settle
  <2>4. InLine'
    <3>1. Len(line') = 1 /\ line'[1] = c
      BY <1>2, <2>1
    <3>2. \A x \in Calls : state'[x] = "out" => x = c
      BY <2>1, <2>3
    <3>3. \A i \in 1..Len(line') : i = 1
      BY <3>1
    <3>4. \A j \in 1..(1 - 1) : FALSE
      OBVIOUS
    <3>5. \A i \in 1..Len(line') :
             /\ state'[line'[i]] \in {"waiting", "out", "settled"}
             /\ i # 1 => state'[line'[i]] = "waiting"
             /\ \A j \in 1..(i - 1) : line'[i] # line'[j]
      BY <2>3, <3>1, <3>3, <3>4
    <3> QED BY <1>2, <3>1, <3>2, <3>5 DEF InLine
  <2>5. Taken'
    BY <1>1, <2>3 DEF Taken
  <2> QED BY <1>1, <1>2, <2>2, <2>3, <2>4, <2>5 DEF RequestsTypeOK
<1>5. CASE ~NobodyAsks
  <2>1. /\ state' = [state EXCEPT ![c] = "waiting"] /\ line # <<>>
        /\ UNCHANGED <<answer, requestId, pending, asked>>
    BY <1>5 DEF NobodyAsks, Ask
  <2>2. /\ state' \in [Calls -> {"unasked", "waiting", "out", "settled", "passed"}]
        /\ state'[c] = "waiting" /\ \A x \in Calls : x # c => state'[x] = state[x]
    BY <1>1, <2>1
  <2>3. RequestsTypeOK'
    BY <1>1, <1>2, <2>1, <2>2 DEF RequestsTypeOK
  <2>4. InLine'
    <3>1. Len(line) # 0 /\ Len(line) \in Nat
      BY <1>1, <2>1
    <3>2. ASSUME NEW i \in 1..Len(line')
          PROVE  /\ state'[line'[i]] \in {"waiting", "out", "settled"}
                 /\ i # 1 => state'[line'[i]] = "waiting"
                 /\ \A j \in 1..(i - 1) : line'[i] # line'[j]
      <4>1. CASE i = Len(line) + 1
        BY <1>2, <1>3, <2>2, <3>1, <4>1
      <4>2. CASE i \in 1..Len(line)
        BY <1>2, <1>3, <2>2, <3>1, <4>2 DEF InLine
      <4> QED BY <1>2, <3>1, <4>1, <4>2
    <3>3. ASSUME NEW x \in Calls, state'[x] = "out" PROVE line' # <<>> /\ x = line'[1]
      BY <1>2, <2>2, <3>1, <3>3 DEF InLine
    <3> QED BY <3>2, <3>3 DEF InLine
  <2>5. OneRequest' /\ Taken'
    BY <1>1, <2>1 DEF OneRequest, Taken
  <2> QED BY <2>3, <2>4, <2>5
<1> QED BY <1>4, <1>5

\* A settled call leaves the line, and the next is first.
LEMMA TurnPassesKeeps ==
    ASSUME RenameHolds, TurnPasses
    PROVE  RenameHolds'
<1> USE DEF RenameHolds
<1>1. /\ state \in [Calls -> {"unasked", "waiting", "out", "settled", "passed"}]
      /\ line \in Seq(Calls) /\ line # <<>> /\ state[line[1]] = "settled"
      /\ line' = Tail(line) /\ state' = [state EXCEPT ![line[1]] = "passed"]
      /\ UNCHANGED <<answer, requestId, pending, inbox, up, ended, drops, asked, accepted>>
  BY DEF RequestsTypeOK, TurnPasses, Passes
<1>2. pending = {} /\ \A c \in Calls : state[c] # "out"
  BY <1>1, NobodyIsOut
<1>3. /\ line' \in Seq(Calls) /\ Len(line') = Len(line) - 1 /\ Len(line) \in Nat
      /\ \A i \in 1..Len(line') : line'[i] = line[i + 1] /\ line[i + 1] \in Calls
  BY <1>1
<1>4. /\ state' \in [Calls -> {"unasked", "waiting", "out", "settled", "passed"}]
      /\ \A c \in Calls : state'[c] # "out" /\ (c # line[1] => state'[c] = state[c])
  BY <1>1, <1>2
<1>5. InLine'
  <2>1. ASSUME NEW i \in 1..Len(line')
        PROVE  state'[line'[i]] = "waiting" /\ \A j \in 1..(i - 1) : line'[i] # line'[j]
    <3>1. i + 1 \in 1..Len(line) /\ i + 1 # 1
      BY <1>3
    <3>2. state[line[i + 1]] = "waiting" /\ \A j \in 1..i : line[i + 1] # line[j]
      BY <3>1 DEF InLine
    <3>3. line[i + 1] # line[1] /\ \A j \in 1..(i - 1) : line[i + 1] # line[j + 1]
      BY <1>3, <3>2
    <3>4. \A j \in 1..(i - 1) : line'[j] = line[j + 1]
      BY <1>3
    <3> QED BY <1>3, <1>4, <3>2, <3>3, <3>4
  <2> QED BY <1>4, <2>1 DEF InLine
<1>6. RequestsTypeOK'
  BY <1>1, <1>2, <1>3, <1>4 DEF RequestsTypeOK
<1> QED BY <1>1, <1>5, <1>6 DEF OneRequest, Taken

\* The first in line asks.
LEMMA TurnComesKeeps ==
    ASSUME RenameHolds, TurnComes
    PROVE  RenameHolds'
<1> USE DEF RenameHolds
<1> DEFINE c == line[1]
<1>1. /\ state \in [Calls -> {"unasked", "waiting", "out", "settled", "passed"}]
      /\ answer \in [Calls -> {"none", "named", "failed"}]
      /\ line \in Seq(Calls) /\ line # <<>> /\ state[c] = "waiting" /\ Send(c)
      /\ UNCHANGED <<line, inbox, up, ended, drops, accepted>>
  BY DEF RequestsTypeOK, TurnComes
<1>2. c \in Calls /\ \A i \in 1..Len(line) : line[i] \in Calls
  BY <1>1
<1> HIDE DEF c
<1>3. pending = {} /\ \A x \in Calls : state[x] # "out"
  BY <1>1, NobodyIsOut DEF c
<1>4. /\ pending' \subseteq Nat \X {x \in Calls : state'[x] = "out"}
      /\ requestId' \in Nat \ {0} /\ asked' \subseteq Nat \X Calls
      /\ OneRequest'
      /\ \/ state' = [state EXCEPT ![c] = "out"] /\ UNCHANGED answer
         \/ Settle({c}, "failed") /\ pending' = {}
  BY <1>1, <1>2, <1>3, SendKeeps
<1>5. /\ state' \in [Calls -> {"unasked", "waiting", "out", "settled", "passed"}]
      /\ answer' \in [Calls -> {"none", "named", "failed"}]
      /\ state'[c] \in {"out", "settled"} /\ \A x \in Calls : x # c => state'[x] = state[x]
      /\ \A x \in Calls : answer'[x] = "named" => answer[x] = "named"
  BY <1>1, <1>2, <1>4 DEF Settle
<1>6. InLine'
  <2>1. ASSUME NEW i \in 1..Len(line)
        PROVE  /\ state'[line[i]] \in {"waiting", "out", "settled"}
               /\ i # 1 => state'[line[i]] = "waiting"
               /\ \A j \in 1..(i - 1) : line[i] # line[j]
    <3>1. CASE i = 1
      BY <1>5, <3>1 DEF c
    <3>2. CASE i # 1
      <4>1. 1 \in 1..(i - 1) /\ state[line[i]] = "waiting" /\ \A j \in 1..(i - 1) : line[i] # line[j]
        BY <3>2 DEF InLine
      <4>2. line[i] # c
        BY <4>1 DEF c
      <4> QED BY <1>2, <1>5, <3>2, <4>1, <4>2
    <3> QED BY <3>1, <3>2
  <2>2. \A x \in Calls : state'[x] = "out" => x = line[1]
    BY <1>3, <1>5 DEF c
  <2> QED BY <1>1, <2>1, <2>2 DEF InLine
<1>7. Taken'
  BY <1>1, <1>5 DEF Taken
<1>8. RequestsTypeOK'
  BY <1>1, <1>4, <1>5 DEF RequestsTypeOK
<1> QED BY <1>4, <1>6, <1>7, <1>8

\* A timer fails the one request that is out.
LEMMA TimeoutKeeps ==
    ASSUME RenameHolds, Timeout
    PROVE  RenameHolds'
<1> USE DEF RenameHolds
<1>1. PICK p \in pending : pending' = pending \ {p} /\ Settle({p[2]}, "failed")
  BY DEF Timeout
<1>2. UNCHANGED <<line, requestId, inbox, up, ended, drops, asked, accepted>>
  BY DEF Timeout
<1>3. p[2] \in Calls /\ state[p[2]] = "out"
  BY <1>1 DEF RequestsTypeOK
<1>4. pending' = {}
  BY <1>1 DEF OneRequest
<1>5. /\ state' \in [Calls -> {"unasked", "waiting", "out", "settled", "passed"}]
      /\ answer' \in [Calls -> {"none", "named", "failed"}]
      /\ \A c \in Calls : answer'[c] = "named" => answer[c] = "named"
      /\ InLine'
  BY <1>1, <1>2, <1>3, SettleKeeps
<1>6. OneRequest' /\ Taken'
  BY <1>2, <1>4, <1>5, FewerKeeps DEF Taken
<1> QED BY <1>2, <1>4, <1>5, <1>6 DEF RequestsTypeOK

\* What is said joins what waits.
LEMMA InboxGrows ==
    ASSUME inbox \in Seq(Faults \cup Replies), NEW m \in Faults \cup Replies, inbox' = Append(inbox, m)
    PROVE  /\ inbox' \in Seq(Faults \cup Replies)
           /\ \A i \in 1..Len(inbox') : inbox'[i] = m \/ (i \in 1..Len(inbox) /\ inbox'[i] = inbox[i])
OBVIOUS

LEMMA InboxShrinks ==
    ASSUME inbox \in Seq(Faults \cup Replies), inbox # <<>>, inbox' = Tail(inbox)
    PROVE  /\ inbox' \in Seq(Faults \cup Replies) /\ Head(inbox) = inbox[1] /\ 1 \in 1..Len(inbox)
           /\ \A i \in 1..Len(inbox') : i + 1 \in 1..Len(inbox) /\ inbox'[i] = inbox[i + 1]
OBVIOUS

\* The server takes the name of a request, and says so under its id; or it says no.
LEMMA ServerAnswersKeeps ==
    ASSUME RenameHolds, ServerAnswers
    PROVE  RenameHolds'
<1> USE DEF RenameHolds
<1>1. PICK p \in asked :
         /\ asked' = asked \ {p}
         /\ \/ accepted' = accepted \cup {p} /\ inbox' = Append(inbox, [kind |-> "result", id |-> p[1]])
            \/ UNCHANGED accepted /\ inbox' = Append(inbox, [kind |-> "error", id |-> p[1]])
            \/ UNCHANGED accepted /\ inbox' = Append(inbox, [kind |-> "fault"])
  BY DEF ServerAnswers
<1>2. UNCHANGED <<line, state, answer, requestId, pending, up, ended, drops>>
  BY DEF ServerAnswers
<1>3. p \in Nat \X Calls /\ p[1] \in Nat /\ inbox \in Seq(Faults \cup Replies)
  BY DEF RequestsTypeOK
<1>4. asked' \cup accepted' \subseteq asked \cup accepted /\ accepted \subseteq accepted'
      /\ asked' \subseteq asked
  BY <1>1
<1>5. OneRequest' /\ InLine'
  BY <1>2, <1>4 DEF OneRequest, InLine
<1>6. inbox' \in Seq(Faults \cup Replies)
      /\ \A i \in 1..Len(inbox') :
            inbox'[i].kind = "result" => \E q \in accepted' : q[1] = inbox'[i].id
  <2>1. ASSUME NEW m \in Faults \cup Replies, inbox' = Append(inbox, m),
               m.kind = "result" => m.id = p[1] /\ p \in accepted'
        PROVE  inbox' \in Seq(Faults \cup Replies)
               /\ \A i \in 1..Len(inbox') :
                     inbox'[i].kind = "result" => \E q \in accepted' : q[1] = inbox'[i].id
    BY <1>3, <1>4, <2>1, InboxGrows DEF Taken
  <2>2. CASE accepted' = accepted \cup {p} /\ inbox' = Append(inbox, [kind |-> "result", id |-> p[1]])
    <3>1. [kind |-> "result", id |-> p[1]] \in Replies /\ p \in accepted'
      BY <1>3, <2>2 DEF Replies
    <3> QED BY <2>1, <2>2, <3>1
  <2>3. CASE inbox' = Append(inbox, [kind |-> "error", id |-> p[1]])
    <3>1. [kind |-> "error", id |-> p[1]] \in Replies
      BY <1>3 DEF Replies
    <3> QED BY <2>1, <2>3, <3>1
  <2>4. CASE inbox' = Append(inbox, [kind |-> "fault"])
    <3>1. [kind |-> "fault"] \in Faults
      BY DEF Faults
    <3> QED BY <2>1, <2>4, <3>1
  <2> QED BY <1>1, <2>2, <2>3, <2>4
<1>7. Taken'
  BY <1>2, <1>4, <1>6 DEF Taken
<1>8. RequestsTypeOK'
  BY <1>2, <1>4, <1>6 DEF RequestsTypeOK
<1> QED BY <1>5, <1>7, <1>8

\* A reply settles the request of its id: what it names, the server took.
LEMMA ProcessReplyKeeps ==
    ASSUME RenameHolds, ProcessReply
    PROVE  RenameHolds'
<1> USE DEF RenameHolds
<1> DEFINE m == Head(inbox)
           mine == {p \in pending : p[1] = m.id}
           cs == {p[2] : p \in mine}
           value == IF m.kind = "result" THEN "named" ELSE "failed"
<1>1. /\ inbox \in Seq(Faults \cup Replies) /\ inbox # <<>> /\ inbox' = Tail(inbox)
      /\ pending' = pending \ mine /\ Settle(cs, value)
      /\ UNCHANGED <<line, requestId, up, ended, drops, asked, accepted>>
  BY DEF ProcessReply, RequestsTypeOK
<1>2. value \in {"named", "failed"} /\ \A c \in cs : c \in Calls /\ state[c] = "out"
  BY DEF RequestsTypeOK
<1>3. ASSUME m.kind = "result", NEW c \in cs PROVE \E q \in accepted : q[2] = c
  <2>1. PICK p \in pending : p[1] = m.id /\ p[2] = c
    BY <1>3
  <2>2. PICK q \in accepted : q[1] = m.id
    BY <1>1, <1>3, InboxShrinks DEF Taken
  <2>3. p = q
    BY <2>1, <2>2 DEF OneRequest
  <2> QED BY <2>1, <2>2, <2>3
<1>4. value = "named" => m.kind = "result"
  OBVIOUS
<1>5. \A p \in pending : p \in mine \/ p \in pending'
  BY <1>1
<1>6. pending' \subseteq pending /\ \A p \in mine : p[2] \in cs
  BY <1>1
<1>7. \A p \in pending' : p[2] \notin cs
  BY <1>1, <1>6 DEF OneRequest
<1> HIDE DEF cs, value, mine, m
<1>8. /\ state' \in [Calls -> {"unasked", "waiting", "out", "settled", "passed"}]
      /\ answer' \in [Calls -> {"none", "named", "failed"}]
      /\ \A c \in Calls :
            /\ c \notin cs => state'[c] = state[c] /\ answer'[c] = answer[c]
            /\ c \in cs => answer'[c] = value
      /\ InLine'
  BY <1>1, <1>2, SettleKeeps
<1>9. pending' \subseteq Nat \X {c \in Calls : state'[c] = "out"}
  BY <1>6, <1>7, <1>8 DEF RequestsTypeOK
<1>10. inbox' \in Seq(Faults \cup Replies)
  BY <1>1, InboxShrinks
<1>11. RequestsTypeOK'
  BY <1>1, <1>8, <1>9, <1>10 DEF RequestsTypeOK
<1>12. OneRequest'
  BY <1>1, <1>6, FewerKeeps
<1>13. Taken'
  <2>1. \A i \in 1..Len(inbox') :
           inbox'[i].kind = "result" => \E q \in accepted' : q[1] = inbox'[i].id
    BY <1>1, InboxShrinks DEF Taken
  <2>2. \A c \in Calls : answer'[c] = "named" => \E q \in accepted' : q[2] = c
    BY <1>1, <1>3, <1>4, <1>8 DEF Taken
  <2> QED BY <2>1, <2>2 DEF Taken
<1> QED BY <1>8, <1>11, <1>12, <1>13

\* A fault, a drop and the end fail whatever is out.
LEMMA ProcessFaultKeeps ==
    ASSUME RenameHolds, ProcessFault
    PROVE  RenameHolds'
<1>1. /\ inbox \in Seq(Faults \cup Replies) /\ inbox # <<>> /\ inbox' = Tail(inbox) /\ FailRequests
      /\ UNCHANGED <<line, requestId, up, ended, drops, asked, accepted>>
  BY DEF ProcessFault, RenameHolds, RequestsTypeOK
<1>2. /\ state' \in [Calls -> {"unasked", "waiting", "out", "settled", "passed"}]
      /\ answer' \in [Calls -> {"none", "named", "failed"}] /\ pending' = {}
      /\ InLine' /\ \A c \in Calls : answer'[c] = "named" => \E q \in accepted' : q[2] = c
  BY <1>1, FailRequestsKeeps
<1>3. inbox' \in Seq(Faults \cup Replies)
      /\ \A i \in 1..Len(inbox') :
            inbox'[i].kind = "result" => \E q \in accepted' : q[1] = inbox'[i].id
  BY <1>1, InboxShrinks DEF RenameHolds, Taken
<1>4. OneRequest'
  BY <1>1, <1>2, FewerKeeps DEF RenameHolds
<1> QED BY <1>1, <1>2, <1>3, <1>4 DEF RenameHolds, RequestsTypeOK, Taken

LEMMA DropKeeps ==
    ASSUME RenameHolds, ConnectionDrops \/ End
    PROVE  RenameHolds'
<1>0. ended \in BOOLEAN /\ drops \in Nat
  BY DEF RenameHolds, RequestsTypeOK
<1>1. /\ FailRequests /\ asked' = {} /\ UNCHANGED <<line, requestId, inbox, accepted>>
      /\ up' \in BOOLEAN /\ ended' \in BOOLEAN /\ drops' \in Nat
  <2>1. CASE ConnectionDrops
    <3>1. drops' = drops + 1 /\ up' = FALSE /\ ended' = ended
      BY <2>1 DEF ConnectionDrops
    <3>2. drops' \in Nat
      BY <1>0, <3>1
    <3> QED BY <1>0, <2>1, <3>1, <3>2 DEF ConnectionDrops
  <2>2. CASE End
    BY <1>0, <2>2 DEF End
  <2> QED BY <2>1, <2>2
<1>2. /\ state' \in [Calls -> {"unasked", "waiting", "out", "settled", "passed"}]
      /\ answer' \in [Calls -> {"none", "named", "failed"}] /\ pending' = {}
      /\ InLine' /\ \A c \in Calls : answer'[c] = "named" => \E q \in accepted' : q[2] = c
  BY <1>1, FailRequestsKeeps
<1>3. OneRequest' /\ Taken'
  BY <1>1, <1>2, FewerKeeps DEF RenameHolds, Taken
<1> QED BY <1>1, <1>2, <1>3 DEF RenameHolds, RequestsTypeOK

LEMMA RestKeeps ==
    ASSUME RenameHolds, Reseated \/ UNCHANGED renameVars
    PROVE  RenameHolds'
<1>1. /\ UNCHANGED <<line, state, answer, requestId, pending, inbox, ended, drops, asked, accepted>>
      /\ up' \in {up, TRUE}
  BY DEF Reseated, renameVars
<1>2. up' \in BOOLEAN
  BY <1>1 DEF RenameHolds, RequestsTypeOK
<1>3. RequestsTypeOK'
  BY <1>1, <1>2 DEF RenameHolds, RequestsTypeOK
<1>4. InLine'
  BY <1>1 DEF RenameHolds, InLine
<1>5. OneRequest' /\ Taken'
  BY <1>1 DEF RenameHolds, OneRequest, Taken
<1> QED BY <1>3, <1>4, <1>5 DEF RenameHolds

LEMMA RenameStarts ==
    ASSUME RenameInit
    PROVE  RenameHolds
<1>1. RequestsTypeOK
  <2>1. state \in [Calls -> {"unasked", "waiting", "out", "settled", "passed"}]
        /\ answer \in [Calls -> {"none", "named", "failed"}]
    BY DEF RenameInit
  <2>2. line \in Seq(Calls) /\ inbox \in Seq(Faults \cup Replies) /\ requestId \in Nat \ {0}
        /\ drops \in Nat
    BY DEF RenameInit
  <2>3. up \in BOOLEAN /\ ended \in BOOLEAN
    BY DEF RenameInit
  <2> QED BY <2>1, <2>2, <2>3 DEF RenameInit, RequestsTypeOK
<1>2. Len(line) = 0 /\ Len(inbox) = 0 /\ \A i \in 1..0 : FALSE
  BY DEF RenameInit
<1>3. InLine /\ Taken
  BY <1>2 DEF RenameInit, InLine, Taken
<1>4. OneRequest
  BY DEF RenameInit, OneRequest
<1> QED BY <1>1, <1>3, <1>4 DEF RenameHolds

LEMMA RenameInvariant == RenameSpec => []RenameHolds
<1>1. RenameHolds /\ [RenameNext]_renameVars => RenameHolds'
  <2> SUFFICES ASSUME RenameHolds, [RenameNext]_renameVars PROVE RenameHolds'
    OBVIOUS
  <2>1. CASE \E c \in Calls : Ask(c)
    BY <2>1, AskKeeps
  <2>2. CASE TurnPasses
    BY <2>2, TurnPassesKeeps
  <2>3. CASE TurnComes
    BY <2>3, TurnComesKeeps
  <2>4. CASE Timeout
    BY <2>4, TimeoutKeeps
  <2>5. CASE ServerAnswers
    BY <2>5, ServerAnswersKeeps
  <2>6. CASE ProcessReply
    BY <2>6, ProcessReplyKeeps
  <2>7. CASE ProcessFault
    BY <2>7, ProcessFaultKeeps
  <2>8. CASE ConnectionDrops \/ End
    BY <2>8, DropKeeps
  <2>9. CASE Reseated \/ UNCHANGED renameVars
    BY <2>9, RestKeeps
  <2> QED BY <2>1, <2>2, <2>3, <2>4, <2>5, <2>6, <2>7, <2>8, <2>9 DEF RenameNext
<1> QED BY <1>1, RenameStarts, PTL DEF RenameSpec

\* The requests, the line and what the server is asked stay of their types: what is out is the
\* request of a call that has neither settled nor passed (relay.ts pendingRequests).
THEOREM RenameTypes == RenameSpec => []RequestsTypeOK
<1>1. RenameHolds => RequestsTypeOK
  BY DEF RenameHolds
<1> QED BY <1>1, RenameInvariant, PTL

\* For any number of renames, drops and re-seats: one request is out at a time, and a call
\* that says the name was taken was answered itself, never by the reply to another call or
\* another connection (relay.ts rename, sendRename, process, failRequests).
THEOREM RenameAnsweredInTurn == RenameSpec => []AnsweredInTurn
<1>1. RenameHolds => AnsweredInTurn
  <2> SUFFICES ASSUME RenameHolds PROVE AnsweredInTurn
    OBVIOUS
  <2>1. Cardinality(pending) <= 1
    <3>1. CASE pending = {}
      BY <3>1, FS_EmptySet
    <3>2. CASE pending # {}
      <4>1. PICK p \in pending : TRUE
        BY <3>2
      <4>2. pending = {p}
        BY <4>1 DEF RenameHolds, OneRequest
      <4>3. Cardinality({p}) = 1
        BY FS_Singleton
      <4> QED BY <4>2, <4>3
    <3> QED BY <3>1, <3>2
  <2> QED BY <2>1 DEF AnsweredInTurn, RenameHolds, Taken
<1> QED BY <1>1, RenameInvariant, PTL

-----------------------------------------------------------------------------
(* A file saved out of the room.                                           *)

Toasted == [path : Paths, session : Nat]

\* What a fetch of r may do to the rows: its own row, in its own session, and that is idle then.
Concluded(r) ==
    /\ row' \in [Paths -> Row] /\ toasts' \in Seq(Toasted)
    /\ \A p \in Paths : row'[p] # row[p] => p = r.path /\ Active(r)
    /\ Active(r) => ~row'[r.path].busy

\* What is written in a fetch's name is text the room holds.
Saves ==
    written' # written /\ written'.by = "fetch"
        => document[written'.path] = "text" /\ written'.text = "text"

\* An outcome that goes, goes for a reason.
Stands ==
    \A p \in Paths :
        row[p].note \in Outcomes /\ row'[p].note # row[p].note
           => \/ presses' # presses
              \/ session' # session
              \/ \E r \in fetches : r.path = p /\ Active(r) /\ r \notin fetches'

LEMMA RowSteps ==
    ASSUME NEW w \in Row
    PROVE  /\ Busy(w) \in Row /\ NotBusy(w) \in Row /\ ~NotBusy(w).busy
           /\ \A n \in {Nothing, "costs", "failed", "pending", "empty"} :
                 /\ Note(w, n) \in Row /\ Note(w, n).busy = w.busy
                 /\ Clear(w, n) \in Row /\ Clear(w, n).busy = w.busy
                 /\ w.note # n => Clear(w, n) = w
BY DEF Busy, NotBusy, Note, Clear, Row

LEMMA ConcludesSo ==
    ASSUME FetchTypeOK, NEW r \in Request, NEW w \in Row,
           NEW outcome \in {"saved", "failed", "pending", "empty"}, Concludes(r, w, outcome)
    PROVE  Concluded(r)
<1>1. r.path \in Paths /\ row \in [Paths -> Row] /\ toasts \in Seq(Toasted) /\ session \in Nat
  BY DEF FetchTypeOK, Request, Toasted
<1>2. CASE ~Active(r)
  BY <1>1, <1>2 DEF Concludes, Concluded
<1>3. CASE Active(r)
  <2> DEFINE v == IF outcome = "saved" THEN NotBusy(w) ELSE Note(NotBusy(w), outcome)
  <2>1. v \in Row /\ ~v.busy
    <3>1. NotBusy(w) \in Row /\ ~NotBusy(w).busy
      BY RowSteps
    <3>2. CASE outcome = "saved"
      BY <3>1, <3>2
    <3>3. CASE outcome # "saved"
      <4>1. outcome \in {Nothing, "costs", "failed", "pending", "empty"}
        BY <3>3
      <4>2. Note(NotBusy(w), outcome) \in Row /\ Note(NotBusy(w), outcome).busy = NotBusy(w).busy
        BY <3>1, <4>1, RowSteps
      <4> QED BY <3>1, <3>3, <4>2
    <3> QED BY <3>2, <3>3
  <2>2. row' = [row EXCEPT ![r.path] = v]
    BY <1>3 DEF Concludes
  <2>3. toasts' \in Seq(Toasted)
    <3>1. CASE outcome = "saved"
      <4>1. [path |-> r.path, session |-> session] \in Toasted
        BY <1>1 DEF Toasted
      <4>2. toasts' = Append(toasts, [path |-> r.path, session |-> session])
        BY <1>3, <3>1 DEF Concludes, Downloaded
      <4> HIDE DEF Toasted
      <4> QED BY <1>1, <4>1, <4>2
    <3>2. CASE outcome # "saved"
      BY <1>1, <1>3, <3>2 DEF Concludes
    <3> QED BY <3>1, <3>2
  <2> HIDE DEF v
  <2> QED BY <1>1, <1>3, <2>1, <2>2, <2>3 DEF Concluded
<1> QED BY <1>2, <1>3

LEMMA SaveNowSo ==
    ASSUME FetchTypeOK, NEW r \in Request, NEW w \in Row, NEW by \in {"fetch", "held"},
           SaveNow(r, w, by), Has(r.path)
    PROVE  /\ Concluded(r)
           /\ written' = written
              \/ written' = [path |-> r.path, text |-> document[r.path], by |-> by]
           /\ written' \in [path : Paths \cup {Nothing}, text : Texts \cup {Nothing},
                            by : {Nothing, "fetch", "held", "offer"}]
<1>1. Concluded(r)
  BY ConcludesSo DEF SaveNow
<1>2. written' = written
      \/ written' = [path |-> r.path, text |-> document[r.path], by |-> by]
  BY DEF SaveNow
<1>3. r.path \in Paths /\ document[r.path] \in Texts \cup {Nothing}
      /\ written \in [path : Paths \cup {Nothing}, text : Texts \cup {Nothing},
                      by : {Nothing, "fetch", "held", "offer"}]
  BY DEF FetchTypeOK, Request
<1> QED BY <1>1, <1>2, <1>3

\* The answer to a fetch: the room's text, or a sentence under the row.
LEMMA OutcomeSo ==
    ASSUME FetchTypeOK, NEW r \in Request, Outcome(r)
    PROVE  /\ Concluded(r) /\ Saves
           /\ written' \in [path : Paths \cup {Nothing}, text : Texts \cup {Nothing},
                            by : {Nothing, "fetch", "held", "offer"}]
<1>1. r.path \in Paths /\ row[r.path] \in Row /\ document[r.path] \in Texts \cup {Nothing}
      /\ written \in [path : Paths \cup {Nothing}, text : Texts \cup {Nothing},
                      by : {Nothing, "fetch", "held", "offer"}]
  BY DEF FetchTypeOK, Request
<1>2. CASE ~Has(r.path)
  <2>1. Concludes(r, row[r.path], "pending") /\ UNCHANGED written
    BY <1>2, FetchAssumption DEF Outcome, Has, Texts
  <2> QED BY <1>1, <2>1, ConcludesSo DEF Saves
<1>3. CASE Has(r.path) /\ document[r.path] = "empty"
  <2>1. Concludes(r, row[r.path], "empty") /\ UNCHANGED written
    BY <1>3 DEF Outcome
  <2> QED BY <1>1, <2>1, ConcludesSo DEF Saves
<1>4. CASE Has(r.path) /\ document[r.path] # "empty"
  <2>1. SaveNow(r, row[r.path], "fetch") /\ document[r.path] = "text"
    BY <1>1, <1>4 DEF Outcome, Has, Texts
  <2> QED BY <1>1, <1>4, <2>1, SaveNowSo DEF Saves
<1> QED BY <1>2, <1>3, <1>4

FetchHolds == FetchTypeOK /\ BusyIsAsked
FetchStep == FetchHolds' /\ Stands /\ Saves

\* A fetch that is over leaves the rows of others as they are, and its own is idle.
LEMMA OverKeeps ==
    ASSUME FetchHolds, NEW r \in fetches, Concluded(r), Saves, Over(r),
           written' \in [path : Paths \cup {Nothing}, text : Texts \cup {Nothing},
                         by : {Nothing, "fetch", "held", "offer"}],
           UNCHANGED <<session, document, costs, saidFetchCosts, presses, changes>>
    PROVE  FetchStep
<1>1. r \in Request /\ fetches' = fetches \ {r} /\ fetches \subseteq Request
  BY DEF FetchHolds, FetchTypeOK, Over, Others
<1>2. FetchTypeOK'
  BY <1>1 DEF FetchHolds, FetchTypeOK, Concluded, Toasted
<1>3. BusyIsAsked'
  <2> SUFFICES ASSUME NEW p \in Paths, row'[p].busy
               PROVE  \E x \in fetches' : Active(x)' /\ x.path = p
    BY DEF BusyIsAsked
  <2>1. ~(p = r.path /\ Active(r))
    BY DEF Concluded
  <2>2. row'[p] = row[p]
    BY <2>1 DEF Concluded
  <2>3. PICK x \in fetches : Active(x) /\ x.path = p
    BY <2>2 DEF FetchHolds, BusyIsAsked
  <2> QED BY <1>1, <2>1, <2>3 DEF Active
<1>4. Stands
  BY <1>1 DEF Stands, Concluded
<1> QED BY <1>2, <1>3, <1>4 DEF FetchStep, FetchHolds

\* A fetch that goes on is the same fetch.
LEMMA GoesOnKeeps ==
    ASSUME FetchHolds, NEW r \in fetches, NEW x \in Request,
           x.path = r.path, x.session = r.session, fetches' = Others(r) \cup {x},
           UNCHANGED <<row, toasts, written, session, document, costs, saidFetchCosts, presses, changes>>
    PROVE  FetchStep
<1>1. FetchTypeOK'
  BY DEF FetchHolds, FetchTypeOK, Others
<1>2. BusyIsAsked'
  BY DEF FetchHolds, BusyIsAsked, Active, Others
<1>3. Stands /\ Saves
  BY DEF Stands, Saves
<1> QED BY <1>1, <1>2, <1>3 DEF FetchStep, FetchHolds

LEMMA FetchesKeeps == ASSUME FetchHolds, Fetches PROVE FetchStep
<1>1. PICK r \in fetches : Opened(r) \/ OpenFails(r) \/ Poll(r)
  BY DEF Fetches
<1>2. UNCHANGED <<session, document, costs, saidFetchCosts, presses, changes>>
  BY DEF Fetches
<1>3. r \in Request /\ FetchTypeOK /\ row[r.path] \in Row
      /\ written \in [path : Paths \cup {Nothing}, text : Texts \cup {Nothing},
                      by : {Nothing, "fetch", "held", "offer"}]
  BY DEF FetchHolds, FetchTypeOK, Request
<1>4. CASE Outcome(r) /\ Over(r)
  BY <1>2, <1>3, <1>4, OutcomeSo, OverKeeps
<1>5. CASE OpenFails(r)
  <2>1. Concludes(r, row[r.path], "failed") /\ Over(r) /\ UNCHANGED written
    BY <1>5 DEF OpenFails
  <2> QED BY <1>2, <1>3, <2>1, ConcludesSo, OverKeeps DEF Saves
<1>6. CASE Opened(r) /\ ~(Outcome(r) /\ Over(r))
  <2> DEFINE x == [r EXCEPT !.opened = TRUE]
  <2>1. fetches' = Others(r) \cup {x} /\ UNCHANGED <<row, toasts, written>>
    BY <1>6 DEF Opened
  <2>2. x \in Request /\ x.path = r.path /\ x.session = r.session
    BY <1>3 DEF Request
  <2> HIDE DEF x
  <2> QED BY <1>2, <2>1, <2>2, GoesOnKeeps
<1>7. CASE Poll(r) /\ ~(Outcome(r) /\ Over(r))
  <2> DEFINE x == [r EXCEPT !.polls = @ + 1]
  <2>1. fetches' = Others(r) \cup {x} /\ UNCHANGED <<row, toasts, written>>
    BY <1>7 DEF Poll
  <2>2. x \in Request /\ x.path = r.path /\ x.session = r.session
    BY <1>3 DEF Request
  <2> HIDE DEF x
  <2> QED BY <1>2, <2>1, <2>2, GoesOnKeeps
<1> QED BY <1>1, <1>4, <1>5, <1>6, <1>7

\* A press that begins a download, over a row that reads w.
LEMMA StartKeeps ==
    ASSUME FetchHolds, NEW p \in Paths, NEW w \in Row, Presses, StartDownload(p, w),
           UNCHANGED <<session, document, changes>>
    PROVE  FetchStep
<1> DEFINE r == [path |-> p, session |-> session, id |-> presses', opened |-> FALSE, polls |-> 0]
<1>1. presses' \in Nat /\ presses' # presses /\ FetchTypeOK
  BY DEF FetchHolds, FetchTypeOK, Presses
<1>2. r \in Request /\ r.path = p /\ Active(r)
  BY <1>1 DEF FetchTypeOK, Request, Active
<1>3. Stands
  BY <1>1 DEF Stands
<1>4. CASE Has(p)
  <2>1. SaveNow(r, w, "held") /\ UNCHANGED <<fetches, costs, saidFetchCosts>>
    BY <1>4 DEF StartDownload
  <2> HIDE DEF r
  <2>2. /\ Concluded(r)
        /\ written' = written
           \/ written' = [path |-> r.path, text |-> document[r.path], by |-> "held"]
        /\ written' \in [path : Paths \cup {Nothing}, text : Texts \cup {Nothing},
                         by : {Nothing, "fetch", "held", "offer"}]
    BY <1>1, <1>2, <1>4, <2>1, SaveNowSo
  <2>3. Saves
    BY <2>2 DEF Saves
  <2>4. FetchTypeOK'
    BY <1>1, <2>1, <2>2 DEF FetchTypeOK, Concluded, Toasted
  <2>5. BusyIsAsked'
    BY <1>2, <2>1, <2>2 DEF FetchHolds, BusyIsAsked, Active, Concluded
  <2> QED BY <1>3, <2>3, <2>4, <2>5 DEF FetchStep, FetchHolds
<1>5. CASE ~Has(p)
  <2> DEFINE v == Busy(IF saidFetchCosts THEN w ELSE Note(w, "costs"))
  <2>1. v \in Row
    <3>1. (IF saidFetchCosts THEN w ELSE Note(w, "costs")) \in Row
      BY RowSteps
    <3> QED BY <3>1, RowSteps
  <2>2. /\ fetches' = fetches \cup {r} /\ row' = [row EXCEPT ![p] = v]
        /\ costs' = (IF saidFetchCosts THEN costs ELSE costs \cup {r})
        /\ saidFetchCosts' = TRUE
        /\ UNCHANGED <<toasts, written>>
    BY <1>5 DEF StartDownload
  <2> HIDE DEF r, v
  <2>3. FetchTypeOK'
    BY <1>1, <1>2, <2>1, <2>2 DEF FetchTypeOK
  <2>4. BusyIsAsked'
    <3> SUFFICES ASSUME NEW q \in Paths, row'[q].busy
                 PROVE  \E x \in fetches' : Active(x)' /\ x.path = q
      BY DEF BusyIsAsked
    <3>1. CASE q = p
      BY <1>2, <2>2, <3>1 DEF Active
    <3>2. CASE q # p
      <4>1. row'[q] = row[q]
        BY <1>1, <2>2, <3>2 DEF FetchTypeOK
      <4> QED BY <2>2, <4>1 DEF FetchHolds, BusyIsAsked, Active
    <3> QED BY <3>1, <3>2
  <2>5. Saves
    BY <2>2 DEF Saves
  <2> QED BY <1>3, <2>3, <2>4, <2>5 DEF FetchStep, FetchHolds
<1> QED BY <1>4, <1>5

\* What the person takes down, and what a timer takes down, leaves the row as busy as it was.
LEMMA RowKeeps ==
    ASSUME FetchHolds, NEW p \in Paths, NEW v \in Row, v.busy = row[p].busy,
           row' = [row EXCEPT ![p] = v], UNCHANGED <<session, fetches>>
    PROVE  row' \in [Paths -> Row] /\ BusyIsAsked'
<1>1. row \in [Paths -> Row]
  BY DEF FetchHolds, FetchTypeOK
<1>2. \A q \in Paths : row'[q].busy = row[q].busy
  BY <1>1
<1> QED BY <1>1, <1>2 DEF FetchHolds, BusyIsAsked, Active

LEMMA FetchKept == ASSUME FetchHolds, [FetchNext]_fetchVars PROVE FetchStep \/ UNCHANGED fetchVars
<1>0. FetchTypeOK /\ BusyIsAsked
  BY DEF FetchHolds
<1>r. \A p \in Paths : row[p] \in Row
  BY <1>0 DEF FetchTypeOK
<1>1. ASSUME NEW p \in Paths, Download(p) PROVE FetchStep
  BY <1>1, <1>r, StartKeeps DEF Download
<1>2. ASSUME NEW p \in Paths, TryAgain(p) PROVE FetchStep
  <2>1. Note(row[p], Nothing) \in Row
    BY <1>r, RowSteps
  <2> QED BY <1>2, <2>1, StartKeeps DEF TryAgain
<1>3. ASSUME NEW p \in Paths, SaveEmpty(p) PROVE FetchStep
  <2>1. /\ row' = [row EXCEPT ![p] = Note(@, Nothing)] /\ Downloaded(p)
        /\ written' = [path |-> p, text |-> "empty", by |-> "offer"] /\ Presses
        /\ UNCHANGED <<session, document, fetches, costs, saidFetchCosts, changes>>
    BY <1>3 DEF SaveEmpty
  <2>2. row' \in [Paths -> Row] /\ BusyIsAsked'
    <3>1. Note(row[p], Nothing) \in Row /\ Note(row[p], Nothing).busy = row[p].busy
      BY <1>r, RowSteps
    <3> QED BY <2>1, <3>1, RowKeeps
  <2>3. toasts' \in Seq(Toasted)
    <3>1. [path |-> p, session |-> session] \in Toasted
      BY <1>0 DEF FetchTypeOK, Toasted
    <3>2. toasts \in Seq(Toasted) /\ toasts' = Append(toasts, [path |-> p, session |-> session])
      BY <1>0, <2>1 DEF FetchTypeOK, Toasted, Downloaded
    <3> HIDE DEF Toasted
    <3> QED BY <3>1, <3>2
  <2>4. presses' \in Nat /\ presses' # presses
    BY <1>0, <2>1 DEF FetchTypeOK, Presses
  <2>5. FetchTypeOK'
    BY <1>0, <2>1, <2>2, <2>3, <2>4 DEF FetchTypeOK, Toasted, Texts
  <2> QED BY <2>1, <2>2, <2>4, <2>5 DEF FetchStep, FetchHolds, Stands, Saves
<1>4. ASSUME NEW p \in Paths, Dismiss(p) PROVE FetchStep
  <2>1. /\ row' = [row EXCEPT ![p] = Note(@, Nothing)] /\ Presses
        /\ UNCHANGED <<session, document, fetches, costs, toasts, saidFetchCosts, written, changes>>
    BY <1>4 DEF Dismiss
  <2>2. row' \in [Paths -> Row] /\ BusyIsAsked'
    <3>1. Note(row[p], Nothing) \in Row /\ Note(row[p], Nothing).busy = row[p].busy
      BY <1>r, RowSteps
    <3> QED BY <2>1, <3>1, RowKeeps
  <2>3. presses' \in Nat /\ presses' # presses
    BY <1>0, <2>1 DEF FetchTypeOK, Presses
  <2>4. FetchTypeOK'
    BY <1>0, <2>1, <2>2, <2>3 DEF FetchTypeOK
  <2> QED BY <2>1, <2>2, <2>3, <2>4 DEF FetchStep, FetchHolds, Stands, Saves
<1>5. CASE ToastEnds
  <2>1. toasts # <<>> /\ toasts' = Tail(toasts)
        /\ UNCHANGED <<session, document, fetches, row, costs, saidFetchCosts, written, presses, changes>>
    BY <1>5 DEF ToastEnds
  <2>2. toasts' \in Seq([path : Paths, session : Nat])
    BY <1>0, <2>1 DEF FetchTypeOK
  <2>3. FetchTypeOK'
    BY <1>0, <2>1, <2>2 DEF FetchTypeOK
  <2> QED BY <1>0, <2>1, <2>3 DEF FetchStep, FetchHolds, BusyIsAsked, Active, Stands, Saves
<1>6. ASSUME NEW r \in costs, CostsTimer(r) PROVE FetchStep
  <2>1. /\ costs' = costs \ {r} /\ r.path \in Paths
        /\ row' = IF Active(r) THEN [row EXCEPT ![r.path] = Clear(@, "costs")] ELSE row
        /\ UNCHANGED <<session, document, fetches, toasts, saidFetchCosts, written, presses, changes>>
    BY <1>0, <1>6 DEF CostsTimer, FetchTypeOK, Request
  <2> DEFINE v == Clear(row[r.path], "costs")
  <2>2. v \in Row /\ v.busy = row[r.path].busy /\ (row[r.path].note # "costs" => v = row[r.path])
    BY <1>r, <2>1, RowSteps
  <2>3. row' \in [Paths -> Row] /\ BusyIsAsked'
    <3>1. CASE Active(r)
      <4>1. row' = [row EXCEPT ![r.path] = v]
        BY <2>1, <3>1
      <4> HIDE DEF v
      <4> QED BY <2>1, <2>2, <4>1, RowKeeps
    <3>2. CASE ~Active(r)
      BY <1>0, <2>1, <3>2 DEF FetchTypeOK, BusyIsAsked, Active
    <3> QED BY <3>1, <3>2
  <2>4. FetchTypeOK'
    BY <1>0, <2>1, <2>3 DEF FetchTypeOK
  <2>5. Stands
    <3>1. \A p \in Paths : row[p].note # "costs" => row'[p] = row[p]
      <4>1. row \in [Paths -> Row]
        BY <1>0 DEF FetchTypeOK
      <4> HIDE DEF v
      <4> QED BY <2>1, <2>2, <4>1 DEF v
    <3> QED BY <3>1 DEF Stands, Outcomes
  <2> QED BY <2>1, <2>3, <2>4, <2>5 DEF FetchStep, FetchHolds, Saves
<1>7. ASSUME NEW p \in Paths, NEW content \in Texts, DocumentChanges(p, content) PROVE FetchStep
  <2>1. /\ changes' = changes + 1 /\ document' = [document EXCEPT ![p] = content]
        /\ UNCHANGED <<session, fetches, row, costs, toasts, saidFetchCosts, written, presses>>
    BY <1>7 DEF DocumentChanges
  <2>2. FetchTypeOK'
    BY <1>0, <2>1 DEF FetchTypeOK
  <2> QED BY <1>0, <2>1, <2>2 DEF FetchStep, FetchHolds, BusyIsAsked, Active, Stands, Saves
<1>8. CASE Leaves
  <2>1. /\ session' = session + 1 /\ saidFetchCosts' = FALSE
        /\ document' = [p \in Paths |-> Nothing] /\ row' = [p \in Paths |-> Bare]
        /\ UNCHANGED <<fetches, costs, toasts, written, presses, changes>>
    BY <1>8 DEF Leaves
  <2>2. Bare \in Row /\ ~Bare.busy
    BY DEF Bare, Row
  <2>3. session' \in Nat /\ session' # session
    BY <1>0, <2>1 DEF FetchTypeOK
  <2>4. FetchTypeOK'
    BY <1>0, <2>1, <2>2, <2>3 DEF FetchTypeOK
  <2>5. BusyIsAsked'
    BY <2>1, <2>2 DEF BusyIsAsked
  <2> QED BY <2>1, <2>3, <2>4, <2>5 DEF FetchStep, FetchHolds, Stands, Saves
<1> QED BY <1>1, <1>2, <1>3, <1>4, <1>5, <1>6, <1>7, <1>8, FetchesKeeps DEF FetchNext

LEMMA FetchStarts == ASSUME FetchInit PROVE FetchHolds
<1>1. Bare \in Row /\ ~Bare.busy
  BY DEF Bare, Row
<1>2. written \in [path : Paths \cup {Nothing}, text : Texts \cup {Nothing},
                   by : {Nothing, "fetch", "held", "offer"}]
  BY DEF FetchInit, NoFile
<1>3. FetchTypeOK
  <2>1. toasts \in Seq([path : Paths, session : Nat])
    <3>1. toasts = <<>>
      BY DEF FetchInit
    <3> QED BY <3>1
  <2>2. saidFetchCosts \in BOOLEAN
    BY DEF FetchInit
  <2>3. document \in [Paths -> Texts \cup {Nothing}] /\ row \in [Paths -> Row]
    BY <1>1 DEF FetchInit
  <2> QED BY <1>2, <2>1, <2>2, <2>3 DEF FetchInit, FetchTypeOK
<1>4. BusyIsAsked
  BY <1>1 DEF FetchInit, BusyIsAsked
<1> QED BY <1>3, <1>4 DEF FetchHolds

\* Rows, sentences, fetches and what was written keep their types over any presses, answers,
\* timers and sessions (fetch-download.ts, startDownload of main.ts).
THEOREM FetchTypes == FetchSpec => []FetchTypeOK
<1>1. FetchHolds /\ [FetchNext]_fetchVars => FetchHolds'
  BY FetchKept DEF FetchStep, FetchHolds, FetchTypeOK, BusyIsAsked, Active, fetchVars
<1>2. FetchHolds => FetchTypeOK
  BY DEF FetchHolds
<1> QED BY <1>1, <1>2, FetchStarts, PTL DEF FetchSpec

\* A row is busy only while a fetch of its path runs in this session, the sentence an outcome
\* left goes by a press, by another outcome or with the session, and what is saved for a fetch
\* is text the room holds: for any paths, presses, sessions and length of the stand
\* (startDownload, fetchAndSave, rowFeedback).
THEOREM FetchDownloadIsTheAnswer == FetchSpec => DownloadIsTheAnswer
<1>1. FetchHolds /\ [FetchNext]_fetchVars => FetchHolds'
  BY FetchKept DEF FetchStep, FetchHolds, FetchTypeOK, BusyIsAsked, Active, fetchVars
<1>2. FetchHolds /\ [FetchNext]_fetchVars => [Stands]_fetchVars /\ [Saves]_fetchVars
  BY FetchKept DEF FetchStep
<1>3. FetchHolds => BusyIsAsked
  BY DEF FetchHolds
<1>4. FetchSpec => []BusyIsAsked /\ [][Stands]_fetchVars /\ [][Saves]_fetchVars
  BY <1>1, <1>2, <1>3, FetchStarts, PTL DEF FetchSpec
<1> QED BY <1>4 DEF DownloadIsTheAnswer, OutcomeStands, SavesTheAnswer, Stands, Saves
=============================================================================
