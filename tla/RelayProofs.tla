---------------------------- MODULE RelayProofs ----------------------------
(***************************************************************************)
(* What holds of Relay for every set of people, every retry budget and     *)
(* inbox, and any number of drops: its types, that a retry is bounded, and *)
(* that a session agrees with its connection where the socket is prompt.   *)
(* And what holds of what the same run explores: of FrameBudget, for every *)
(* budget, rate and renewal, and every number of processes, if the charge  *)
(* is what one absence can hide; of Absence, for every window and any      *)
(* number of seats, drops and ticks; and of Menu, for every room and every *)
(* number of faces, presses, frames and sessions.                          *)
(***************************************************************************)
EXTENDS Relay, FrameBudget, Absence, Menu, FiniteSetTheorems, TLAPS

-----------------------------------------------------------------------------
(* Types.                                                                  *)

\* What a step leaves alone keeps its type.
LEMMA Untouched ==
    /\ WireOK /\ UNCHANGED wire => WireOK'
    /\ SessionOK /\ UNCHANGED <<session, generation>> => SessionOK'
    /\ QueueOK /\ UNCHANGED <<queue, generation>> => QueueOK'
    /\ SaidOK /\ UNCHANGED said => SaidOK'
    /\ WorldOK /\ UNCHANGED world => WorldOK'
    /\ SentOK /\ UNCHANGED <<sent, generation>> => SentOK'
<1>1. WireOK /\ UNCHANGED wire => WireOK'
  BY DEF WireOK, wire
<1>2. SessionOK /\ UNCHANGED <<session, generation>> => SessionOK'
  BY DEF SessionOK, session
<1>3. QueueOK /\ UNCHANGED <<queue, generation>> => QueueOK'
  BY DEF QueueOK, queue
<1>4. SaidOK /\ UNCHANGED said => SaidOK'
  BY DEF SaidOK, said
<1>5. WorldOK /\ UNCHANGED world => WorldOK'
  BY DEF WorldOK, world, given
<1>6. SentOK /\ UNCHANGED <<sent, generation>> => SentOK'
  BY DEF SentOK
<1> QED BY <1>1, <1>2, <1>3, <1>4, <1>5, <1>6

\* A bound that is not reached leaves room for one more.
LEMMA BoundRange ==
    /\ \A n \in 0..MaxDrops : n < MaxDrops => n + 1 \in 0..MaxDrops
    /\ \A n \in 0..MaxNews : n < MaxNews => n + 1 \in 0..MaxNews
BY RelayAssumption

\* A retry is scheduled, or it is the end.
LEMMA RetriesType ==
    ASSUME WireOK, SaidOK
    PROVE  /\ ScheduleReconnect =>
                retryArmed' \in BOOLEAN /\ attempts' \in Nat /\ ended' \in BOOLEAN
                /\ told' \in {"nothing", "seated", "reconnecting", "ended"}
           /\ EndWith =>
                retryArmed' \in BOOLEAN /\ ended' \in BOOLEAN
                /\ told' \in {"nothing", "seated", "reconnecting", "ended"}
<1>1. EndWith =>
        retryArmed' \in BOOLEAN /\ ended' \in BOOLEAN
        /\ told' \in {"nothing", "seated", "reconnecting", "ended"}
  BY DEF SaidOK, EndWith
<1>2. CASE ended
  BY <1>1, <1>2 DEF WireOK, SaidOK, ScheduleReconnect
<1>3. CASE ~ended /\ attempts >= RetryBudget
  BY <1>1, <1>3 DEF WireOK, ScheduleReconnect
<1>4. CASE ~ended /\ ~(attempts >= RetryBudget)
  <2>1. attempts + 1 \in Nat /\ ended \in BOOLEAN /\ TRUE \in BOOLEAN
    BY DEF WireOK, SaidOK
  <2> QED BY <1>1, <1>4, <2>1 DEF ScheduleReconnect
<1> QED BY <1>2, <1>3, <1>4

\* What enters the inbox stays within its bound, and can only cost a connection.
LEMMA EnqueueFacts ==
    ASSUME QueueOK, NEW f \in Frames, Enqueue(f)
    PROVE  /\ open' \subseteq open
           /\ inbox' \in Seq(Frames) /\ Len(inbox') <= MaxInbox
<1>1. CASE Len(inbox) >= MaxInbox
  BY <1>1, RelayAssumption DEF Enqueue, QueueOK
<1>2. CASE ~(Len(inbox) >= MaxInbox)
  BY <1>2, RelayAssumption DEF Enqueue, QueueOK
<1> QED BY <1>1, <1>2

\* What is processed was in the inbox, and the rest stays there in its order.
LEMMA ProcessFacts ==
    ASSUME QueueOK, Process
    PROVE  /\ inbox' \in Seq(Frames) /\ Len(inbox') = Len(inbox) - 1
           /\ \A i \in DOMAIN inbox' : i + 1 \in DOMAIN inbox /\ inbox'[i] = inbox[i + 1]
           /\ \A i \in DOMAIN inbox : i # 1 => i - 1 \in DOMAIN inbox' /\ inbox'[i - 1] = inbox[i]
           /\ 1 \in DOMAIN inbox /\ Head(inbox) = inbox[1] /\ Head(inbox) \in Frames
           /\ Head(inbox).kind \in {"joined", "left"} => Head(inbox).who \in People
<1>1. inbox \in Seq(Frames) /\ inbox # <<>> /\ inbox' = Tail(inbox)
  BY DEF QueueOK, Process
<1>2. Head(inbox) = inbox[1] /\ Head(inbox) \in Frames
  BY <1>1
<1>3. Head(inbox).kind \in {"joined", "left"} => Head(inbox).who \in People
  BY <1>2 DEF Frames
<1> QED BY <1>1, <1>2, <1>3

-----------------------------------------------------------------------------
(* The dials.                                                              *)

\* The socket a relay holds is its last dial's, the server has no other, and the backoff
\* timer is set only where there is neither socket nor dial.
Dialled ==
    /\ retryArmed => dial = "idle" /\ socket = 0 /\ key # 0
    /\ dial = "opening" => socket = 0
    /\ dial = "greeting" => socket = generation
    /\ dial # "idle" => settling = 0 /\ key < generation
    /\ open \subseteq {socket}

\* Every dial since the last seat was an attempt scheduled, and one more is if the timer is.
Counted ==
    /\ key # 0 => (IF retryArmed THEN tries + 1 ELSE tries) <= attempts
    /\ attempts <= RetryBudget
    /\ key = 0 /\ settling # 0 => tries = 0

-----------------------------------------------------------------------------
(* A prompt session.                                                       *)

\* What was dropped without a retry to make has no socket.
Gone == socket = 0 /\ (ended \/ destroyed)

\* A session that is not detached has its key on the socket the relay holds, and only such a
\* one has frames queued; the one being seated is behind that socket as well.
Bound ==
    /\ key # 0 /\ ~detached => dial = "idle" /\ ~retryArmed /\ (socket = key \/ Gone)
    /\ outbound # <<>> => key # 0 /\ ~detached /\ outbound = <<key>>
    /\ settling # 0 => /\ key < settling /\ ~retryArmed /\ (key = 0 \/ detached)
                       /\ socket = settling \/ Gone
    /\ told = "seated" => ended \/ destroyed \/ socket # 0
    /\ NoFrameUnderADeadKey

Joined(p) == [kind |-> "joined", who |-> p]
Left(p)   == [kind |-> "left", who |-> p]
Waits(f, box) == \E i \in DOMAIN box : box[i] = f

\* A list of people and what waits in an inbox say together where p is: the list is right of
\* who has not come, and of the others what it has wrong is on its way, the leave behind the join.
Agrees(where, box, p, list) ==
    /\ where = "new" => p \notin list /\ ~Waits(Joined(p), box) /\ ~Waits(Left(p), box)
    /\ where = "in" => ~Waits(Left(p), box) /\ (p \in list \/ Waits(Joined(p), box))
    /\ where = "out" =>
          \/ p \notin list /\ ~Waits(Joined(p), box)
          \/ \E j \in DOMAIN box :
                box[j] = Left(p) /\ \A i \in DOMAIN box : box[i] = Joined(p) => i < j

View == IF settling # 0 THEN snapshot ELSE roster

Lists ==
    Seated /\ ~destroyed /\ (settling # 0 \/ key = socket) =>
        \A p \in People : /\ Agrees(members[p], inbox, p, View)
                          /\ Agrees(members[p], inbox, p, peerList)

Prompted == prompt => Bound /\ (closes => Lists)

\* One dial more leaves room for every number before it.
LEMMA Grows ==
    ASSUME NEW n \in Nat
    PROVE  /\ n + 1 \in Nat /\ 0..n \subseteq 0..(n + 1) /\ 1..n \subseteq 1..(n + 1)
           /\ Seq(1..n) \subseteq Seq(1..(n + 1))
<1>1. 1..n \subseteq 1..(n + 1)
  OBVIOUS
<1> QED BY <1>1

LEMMA TypeStep ==
    ASSUME TypeOK, [Next]_vars
    PROVE  TypeOK'
<1> USE DEF TypeOK
<1>0. 0 \in 0..generation /\ generation \in 1..generation /\ generation \in 0..generation
      /\ <<>> \in Seq(1..generation)
  BY DEF WireOK
<1>1. CASE Opened
  <2>1. WireOK' /\ UNCHANGED generation
    BY <1>0, <1>1 DEF Opened, WireOK
  <2> QED BY Untouched, <1>1, <2>1 DEF Opened
<1>2. CASE DialFails
  <2>1. WireOK' /\ UNCHANGED generation
    BY <1>0, <1>2, RetriesType DEF DialFails, Abandoned, RetryFailed, WireOK
  <2>2. SaidOK'
    BY <1>2, RetriesType DEF DialFails, RetryFailed, SaidOK
  <2> QED BY Untouched, <1>2, <2>1, <2>2 DEF DialFails
<1>3. CASE Answered
  <2>1. WireOK'
    BY <1>3 DEF Answered, WireOK
  <2>2. QueueOK'
    BY <1>3 DEF Answered, Present, QueueOK, WireOK
  <2> QED BY Untouched, <1>3, <2>1, <2>2 DEF Answered
<1>4. CASE Settle
  <2>1. SessionOK'
    BY <1>4 DEF Settle, Seat, SessionOK, QueueOK, wire
  <2>2. QueueOK'
    BY <1>4 DEF Settle, QueueOK, WireOK, wire
  <2>3. SaidOK'
    BY <1>4 DEF Settle, SaidOK
  <2> QED BY Untouched, <1>4, <2>1, <2>2, <2>3 DEF Settle, wire
<1>5. CASE Drop
  <2>1. WireOK' /\ UNCHANGED generation
    BY <1>0, <1>5, RetriesType DEF Drop, WireOK
  <2>2. SessionOK'
    <3>1. outbound' = outbound \/ outbound' = <<>>
      BY <1>5 DEF Drop, Detach
    <3>2. outbound' \in Seq(1..generation)
      BY <1>0, <3>1 DEF SessionOK
    <3> QED BY <1>5, <3>2 DEF Drop, Detach, SessionOK
  <2>3. SaidOK'
    BY <1>5, RetriesType DEF Drop, SaidOK
  <2>4. WorldOK'
    BY <1>5, BoundRange DEF Drop, given, WorldOK
  <2> QED BY Untouched, <1>5, <2>1, <2>2, <2>3, <2>4 DEF Drop
<1>6. CASE RetryFires
  <2>1. /\ generation' \in Nat \ {0} /\ tries' \in Nat
        /\ 0..generation \subseteq 0..generation' /\ 1..generation \subseteq 1..generation'
        /\ Seq(1..generation) \subseteq Seq(1..generation')
    BY <1>6, Grows DEF RetryFires, WireOK
  <2>2. WireOK'
    BY <1>6, <2>1 DEF RetryFires, WireOK
  <2>3. SessionOK'
    BY <1>6, <2>1 DEF RetryFires, session, SessionOK
  <2>4. QueueOK'
    BY <1>6, <2>1 DEF RetryFires, queue, QueueOK
  <2>5. SentOK'
    BY <1>6, <2>1 DEF RetryFires, SentOK
  <2> QED BY Untouched, <1>6, <2>2, <2>3, <2>4, <2>5 DEF RetryFires
<1>7. CASE Disconnect
  <2>1. WireOK' /\ UNCHANGED generation
    BY <1>0, <1>7 DEF Disconnect, WireOK
  <2>2. SaidOK'
    BY <1>7 DEF Disconnect, SaidOK
  <2> QED BY Untouched, <1>7, <2>1, <2>2 DEF Disconnect
<1>8. ASSUME NEW p \in People, SomebodyMoves(p) PROVE TypeOK'
  <2>1. PICK f \in Frames : Enqueue(f) \/ UNCHANGED <<inbox, open>>
    <3>1. \A kind \in {"joined", "left"} : [kind |-> kind, who |-> p] \in Frames
      BY DEF Frames
    <3> QED BY <1>8, <3>1 DEF SomebodyMoves
  <2>2. open' \subseteq open /\ inbox' \in Seq(Frames) /\ Len(inbox') <= MaxInbox
    BY <2>1, EnqueueFacts DEF QueueOK
  <2>3. WorldOK'
    BY <1>8 DEF SomebodyMoves, given, WorldOK
  <2> QED BY Untouched, <1>8, <2>2, <2>3 DEF SomebodyMoves, WireOK, QueueOK
<1>9. ASSUME NEW kind \in {"gone", "closing"}, RoomSends(kind) PROVE TypeOK'
  <2>1. [kind |-> kind] \in Frames
    BY DEF Frames
  <2>2. open' \subseteq open /\ inbox' \in Seq(Frames) /\ Len(inbox') <= MaxInbox
    BY <1>9, <2>1, EnqueueFacts DEF RoomSends
  <2>3. WorldOK'
    BY <1>9, BoundRange DEF RoomSends, given, WorldOK
  <2> QED BY Untouched, <1>9, <2>2, <2>3 DEF RoomSends, WireOK, QueueOK
<1>10. CASE Process
  <2>1. QueueOK'
    <3>1. peerList' \subseteq People
      BY <1>10, ProcessFacts DEF Process, QueueOK
    <3>2. inbox' \in Seq(Frames) /\ Len(inbox') <= MaxInbox
      BY <1>10, ProcessFacts, RelayAssumption DEF QueueOK
    <3> QED BY <1>10, <3>1, <3>2 DEF Process, QueueOK
  <2>2. roster' \subseteq People /\ over' \in BOOLEAN
    BY <1>10, ProcessFacts DEF Process, SessionOK
  <2>3. SessionOK'
    BY <1>10, <2>2 DEF Process, SessionOK
  <2>4. WireOK' /\ SaidOK'
    BY <1>10 DEF Process, EndWith, WireOK, SaidOK
  <2> QED BY Untouched, <1>10, <2>1, <2>3, <2>4 DEF Process
<1>11. CASE Report \/ ClockEnds
  <2>1. WireOK' /\ SaidOK' /\ SessionOK' /\ UNCHANGED generation
    BY <1>11 DEF Report, ClockEnds, EndWith, session, WireOK, SaidOK, SessionOK
  <2> QED BY Untouched, <1>11, <2>1 DEF Report, ClockEnds
<1>12. CASE Publish
  <2>1. SessionOK' /\ UNCHANGED generation
    BY <1>12 DEF Publish, wire, SessionOK
  <2> QED BY Untouched, <1>12, <2>1 DEF Publish
<1>13. CASE DrainOutbound
  <2>1. SessionOK' /\ UNCHANGED generation
    BY <1>0, <1>13 DEF DrainOutbound, wire, SessionOK
  <2>2. SentOK'
    BY <1>13 DEF DrainOutbound, wire, SentOK, WireOK, SessionOK
  <2> QED BY Untouched, <1>13, <2>1, <2>2 DEF DrainOutbound
<1>14. CASE UNCHANGED vars
  BY <1>14, Untouched DEF vars, wire
<1> QED BY <1>1, <1>2, <1>3, <1>4, <1>5, <1>6, <1>7, <1>8, <1>9, <1>10, <1>11, <1>12, <1>13,
           <1>14 DEF Next

LEMMA DialledStep ==
    ASSUME TypeOK, Dialled, [Next]_vars
    PROVE  Dialled'
<1> USE DEF TypeOK, WireOK, SessionOK, QueueOK, Dialled
<1>1. CASE Opened
  BY <1>1 DEF Opened, session, queue
<1>2. CASE DialFails
  BY <1>2 DEF DialFails, Abandoned, RetryFailed, ScheduleReconnect, EndWith, session, queue
<1>3. CASE Answered
  BY <1>3 DEF Answered, Present, session
<1>4. CASE Settle
  BY <1>4 DEF Settle, Seat, wire
<1>5. CASE Drop
  BY <1>5 DEF Drop, Detach, ScheduleReconnect, EndWith, queue
<1>6. CASE RetryFires
  BY <1>6 DEF RetryFires, session, queue
<1>7. CASE Disconnect
  BY <1>7 DEF Disconnect, session, queue
<1>8. CASE \E p \in People : SomebodyMoves(p)
  <2>1. open' \subseteq open
    BY <1>8 DEF SomebodyMoves, Enqueue
  <2> QED BY <1>8, <2>1 DEF SomebodyMoves, session
<1>9. CASE \E kind \in {"gone", "closing"} : RoomSends(kind)
  <2>1. open' \subseteq open
    BY <1>9 DEF RoomSends, Enqueue
  <2> QED BY <1>9, <2>1 DEF RoomSends, session
<1>10. CASE Process
  BY <1>10 DEF Process, EndWith
<1>11. CASE Report
  BY <1>11 DEF Report, EndWith, session, queue
<1>12. CASE ClockEnds
  BY <1>12 DEF ClockEnds, EndWith, queue
<1>13. CASE Publish
  BY <1>13 DEF Publish, wire, queue
<1>14. CASE DrainOutbound
  BY <1>14 DEF DrainOutbound, wire, queue
<1>15. CASE UNCHANGED vars
  BY <1>15 DEF vars, wire, session, queue
<1> QED BY <1>1, <1>2, <1>3, <1>4, <1>5, <1>6, <1>7, <1>8, <1>9, <1>10, <1>11, <1>12, <1>13,
           <1>14, <1>15 DEF Next

LEMMA CountedStep ==
    ASSUME TypeOK, Dialled, Counted, [Next]_vars
    PROVE  Counted'
<1> USE RelayAssumption DEF TypeOK, WireOK, SessionOK, QueueOK, Dialled, Counted
<1>1. CASE Opened
  BY <1>1 DEF Opened, session, queue
<1>2. CASE DialFails
  BY <1>2 DEF DialFails, Abandoned, RetryFailed, ScheduleReconnect, EndWith, session, queue
<1>3. CASE Answered
  BY <1>3 DEF Answered, Present, session
<1>4. CASE Settle
  BY <1>4 DEF Settle, Seat, wire
<1>5. CASE Drop
  BY <1>5 DEF Drop, Detach, ScheduleReconnect, EndWith, queue
<1>6. CASE RetryFires
  BY <1>6 DEF RetryFires, session, queue
<1>7. CASE Disconnect
  BY <1>7 DEF Disconnect, session, queue
<1>8. CASE \E p \in People : SomebodyMoves(p)
  BY <1>8 DEF SomebodyMoves, Enqueue, Seated, session
<1>9. CASE \E kind \in {"gone", "closing"} : RoomSends(kind)
  BY <1>9 DEF RoomSends, Enqueue, Seated, session
<1>10. CASE Process
  BY <1>10 DEF Process, EndWith
<1>11. CASE Report
  BY <1>11 DEF Report, EndWith, session, queue
<1>12. CASE ClockEnds
  BY <1>12 DEF ClockEnds, EndWith, queue
<1>13. CASE Publish
  BY <1>13 DEF Publish, wire, queue
<1>14. CASE DrainOutbound
  BY <1>14 DEF DrainOutbound, wire, queue
<1>15. CASE UNCHANGED vars
  BY <1>15 DEF vars, wire, session, queue
<1> QED BY <1>1, <1>2, <1>3, <1>4, <1>5, <1>6, <1>7, <1>8, <1>9, <1>10, <1>11, <1>12, <1>13,
           <1>14, <1>15 DEF Next

LEMMA BoundStep ==
    ASSUME TypeOK, Dialled, prompt => Bound, [Next]_vars
    PROVE  prompt' => Bound'
<1> USE DEF TypeOK, WireOK, SessionOK, QueueOK, SaidOK, SentOK, Dialled, Bound, Gone, NoFrameUnderADeadKey
<1>1. CASE Opened
  BY <1>1 DEF Opened, session, queue, said, given, world
<1>2. CASE DialFails
  BY <1>2 DEF DialFails, Abandoned, RetryFailed, ScheduleReconnect, EndWith, session, queue,
         given, world
<1>3. CASE Answered
  BY <1>3 DEF Answered, Present, session, said, given, world
<1>4. CASE Settle
  BY <1>4 DEF Settle, Seat, wire, given, world
<1>5. CASE Drop
  BY <1>5 DEF Drop, Detach, ScheduleReconnect, EndWith, queue, given
<1>6. CASE RetryFires
  BY <1>6 DEF RetryFires, session, queue, said, given, world
<1>7. CASE Disconnect
  BY <1>7 DEF Disconnect, session, queue, given, world
<1>8. CASE \E p \in People : SomebodyMoves(p)
  BY <1>8 DEF SomebodyMoves, Enqueue, Seated, session, said, given
<1>9. CASE \E kind \in {"gone", "closing"} : RoomSends(kind)
  BY <1>9 DEF RoomSends, Enqueue, Seated, session, said, given
<1>10. CASE Process
  BY <1>10 DEF Process, EndWith, given, world
<1>11. CASE Report
  BY <1>11 DEF Report, EndWith, session, queue, given, world
<1>12. CASE ClockEnds
  BY <1>12 DEF ClockEnds, EndWith, queue, given, world
<1>13. CASE Publish
  BY <1>13 DEF Publish, wire, queue, said, given, world
<1>14. CASE DrainOutbound
  BY <1>14 DEF DrainOutbound, wire, queue, said, given, world
<1>15. CASE UNCHANGED vars
  BY <1>15 DEF vars, wire, session, queue, said, given, world
<1> QED BY <1>1, <1>2, <1>3, <1>4, <1>5, <1>6, <1>7, <1>8, <1>9, <1>10, <1>11, <1>12, <1>13,
           <1>14, <1>15 DEF Next

-----------------------------------------------------------------------------
(* The inbox and the lists of people.                                      *)

\* What is appended and what is taken off, by position.
LEMMA AppendFacts ==
    ASSUME NEW box \in Seq(Frames), NEW f \in Frames
    PROVE  /\ DOMAIN Append(box, f) = DOMAIN box \cup {Len(box) + 1}
           /\ \A i \in DOMAIN box : i < Len(box) + 1 /\ Append(box, f)[i] = box[i]
           /\ Append(box, f)[Len(box) + 1] = f
OBVIOUS

LEMMA TailFacts ==
    ASSUME NEW box \in Seq(Frames), box # <<>>
    PROVE  /\ Tail(box) \in Seq(Frames) /\ Head(box) = box[1] /\ 1 \in DOMAIN box
           /\ DOMAIN box \subseteq Nat \ {0} /\ DOMAIN Tail(box) \subseteq Nat \ {0}
           /\ \A i \in DOMAIN Tail(box) : i + 1 \in DOMAIN box /\ Tail(box)[i] = box[i + 1]
           /\ \A i \in DOMAIN box : i # 1 => i - 1 \in DOMAIN Tail(box) /\ Tail(box)[i - 1] = box[i]
OBVIOUS

LEMMA KindsDiffer ==
    ASSUME NEW p, NEW q
    PROVE  Joined(p) # Left(q) /\ (p # q => Joined(p) # Joined(q) /\ Left(p) # Left(q))
BY DEF Joined, Left

\* A list that is right of everybody agrees with an empty inbox, and no other does.
LEMMA EmptyAgrees ==
    ASSUME NEW where \in {"new", "in", "out"}, NEW p, NEW list
    PROVE  Agrees(where, <<>>, p, list) <=> (p \in list <=> where = "in")
BY DEF Agrees, Waits

\* A frame that is not about p leaves what is known of p.
LEMMA AppendOther ==
    ASSUME NEW box \in Seq(Frames), NEW f \in Frames, NEW where, NEW p, NEW list,
           f # Joined(p), f # Left(p), Agrees(where, box, p, list)
    PROVE  Agrees(where, Append(box, f), p, list)
<1>1. \A g : g # f => (Waits(g, Append(box, f)) <=> Waits(g, box))
  BY AppendFacts DEF Waits
<1> QED BY <1>1, AppendFacts DEF Agrees

\* The frame of a join, and of a leave, is sent as the person moves.
LEMMA AppendJoined ==
    ASSUME NEW box \in Seq(Frames), NEW p, Joined(p) \in Frames, NEW list,
           Agrees("new", box, p, list)
    PROVE  Agrees("in", Append(box, Joined(p)), p, list)
BY AppendFacts, KindsDiffer DEF Agrees, Waits

LEMMA AppendLeft ==
    ASSUME NEW box \in Seq(Frames), NEW p, Left(p) \in Frames, NEW list,
           Agrees("in", box, p, list)
    PROVE  Agrees("out", Append(box, Left(p)), p, list)
BY AppendFacts, KindsDiffer DEF Agrees, Waits

\* What is processed is put into the list.
LEMMA TailJoined ==
    ASSUME NEW box \in Seq(Frames), box # <<>>, NEW where \in {"new", "in", "out"}, NEW p,
           NEW list, Head(box) = Joined(p), Agrees(where, box, p, list)
    PROVE  Agrees(where, Tail(box), p, list \cup {p})
<1>1. where # "new"
  BY TailFacts DEF Agrees, Waits
<1>2. CASE where = "in"
  BY <1>2, TailFacts DEF Agrees, Waits
<1>3. CASE where = "out"
  <2>1. PICK j \in DOMAIN box :
            box[j] = Left(p) /\ \A i \in DOMAIN box : box[i] = Joined(p) => i < j
    BY <1>3, TailFacts DEF Agrees, Waits
  <2>2. j # 1 /\ j - 1 \in DOMAIN Tail(box) /\ Tail(box)[j - 1] = Left(p)
    BY <2>1, TailFacts
  <2>3. \A i \in DOMAIN Tail(box) : Tail(box)[i] = Joined(p) => i < j - 1
    BY <2>1, TailFacts
  <2> QED BY <1>3, <2>2, <2>3 DEF Agrees
<1> QED BY <1>1, <1>2, <1>3

LEMMA TailLeft ==
    ASSUME NEW box \in Seq(Frames), box # <<>>, NEW where \in {"new", "in", "out"}, NEW p,
           NEW list, Head(box) = Left(p), Agrees(where, box, p, list)
    PROVE  Agrees(where, Tail(box), p, list \ {p})
<1>1. where = "out"
  BY TailFacts DEF Agrees, Waits
<1>2. CASE p \notin list /\ ~Waits(Joined(p), box)
  BY <1>1, <1>2, TailFacts DEF Agrees, Waits
<1>3. CASE \E j \in DOMAIN box :
              box[j] = Left(p) /\ \A i \in DOMAIN box : box[i] = Joined(p) => i < j
  <2>1. PICK j \in DOMAIN box :
            box[j] = Left(p) /\ \A i \in DOMAIN box : box[i] = Joined(p) => i < j
    BY <1>3
  <2>2. CASE j = 1
    <3>1. \A i \in DOMAIN Tail(box) : Tail(box)[i] # Joined(p)
      BY <2>1, <2>2, TailFacts
    <3> QED BY <1>1, <3>1 DEF Agrees, Waits
  <2>3. CASE j # 1
    <3>1. j - 1 \in DOMAIN Tail(box) /\ Tail(box)[j - 1] = Left(p)
      BY <2>1, <2>3, TailFacts
    <3>2. \A i \in DOMAIN Tail(box) : Tail(box)[i] = Joined(p) => i < j - 1
      BY <2>1, TailFacts
    <3> QED BY <1>1, <3>1, <3>2 DEF Agrees
  <2> QED BY <2>2, <2>3
<1> QED BY <1>1, <1>2, <1>3 DEF Agrees

LEMMA TailOther ==
    ASSUME NEW box \in Seq(Frames), box # <<>>, NEW where, NEW p, NEW list, NEW list2,
           Head(box) # Joined(p), Head(box) # Left(p), p \in list2 <=> p \in list,
           Agrees(where, box, p, list)
    PROVE  Agrees(where, Tail(box), p, list2)
<1>1. ASSUME NEW g, g # Head(box) PROVE Waits(g, Tail(box)) <=> Waits(g, box)
  <2>1. ASSUME NEW i \in DOMAIN box, box[i] = g PROVE Waits(g, Tail(box))
    <3>1. i # 1
      BY <1>1, <2>1, TailFacts
    <3> QED BY <2>1, <3>1, TailFacts DEF Waits
  <2>2. ASSUME NEW i \in DOMAIN Tail(box), Tail(box)[i] = g PROVE Waits(g, box)
    BY <2>2, TailFacts DEF Waits
  <2> QED BY <2>1, <2>2 DEF Waits
<1>2. ASSUME NEW j \in DOMAIN box, box[j] = Left(p),
             \A i \in DOMAIN box : box[i] = Joined(p) => i < j
      PROVE  \E k \in DOMAIN Tail(box) :
                Tail(box)[k] = Left(p) /\ \A i \in DOMAIN Tail(box) : Tail(box)[i] = Joined(p) => i < k
  <2>1. j - 1 \in DOMAIN Tail(box) /\ Tail(box)[j - 1] = Left(p)
    BY <1>2, TailFacts
  <2>2. \A i \in DOMAIN Tail(box) : Tail(box)[i] = Joined(p) => i < j - 1
    BY <1>2, TailFacts
  <2> QED BY <2>1, <2>2
<1> QED BY <1>1, <1>2 DEF Agrees

LEMMA ListsStep ==
    ASSUME TypeOK, Dialled, prompt, closes, Bound, Lists, [Next]_vars
    PROVE  Lists'
<1> USE DEF TypeOK
<1>1. CASE Opened \/ DialFails \/ Drop \/ RetryFires \/ Disconnect
  <2>1. dial' # "idle" \/ socket' = 0 \/ socket' \notin open' \/ destroyed'
    BY <1>1 DEF Opened, DialFails, Drop, RetryFires, Disconnect
  <2> QED BY <2>1 DEF Lists, Seated
<1>2. CASE Answered
  <2>1. inbox = <<>> /\ UNCHANGED <<inbox, members, socket, key>> /\ key < socket
    BY <1>2 DEF Answered, Dialled, session, world
  <2>2. CASE ended
    BY <1>2, <2>1, <2>2 DEF Answered, Lists, Dialled, WireOK, SessionOK
  <2>3. CASE ~ended
    <3>1. View' = Present /\ peerList' = Present
      BY <1>2, <2>3 DEF Answered, View, QueueOK, WireOK
    <3>2. \A p \in People : Agrees(members[p], inbox, p, Present)
      BY <2>1, EmptyAgrees DEF WorldOK, Present
    <3> QED BY <2>1, <3>1, <3>2 DEF Lists
  <2> QED BY <2>2, <2>3
<1>3. CASE Settle
  <2>1. UNCHANGED <<inbox, members, socket, open, dial, destroyed, peerList>>
        /\ settling' = 0 /\ settling # 0
    BY <1>3 DEF Settle, wire, world
  <2>2. CASE Seat
    BY <2>1, <2>2 DEF Seat, Lists, Seated, View
  <2>3. CASE ~Seat
    <3>1. key' = key /\ key < settling /\ (socket = settling \/ socket = 0)
      BY <1>3, <2>3 DEF Settle, Bound, Gone
    <3> QED BY <2>1, <3>1 DEF Lists, Seated, SessionOK, QueueOK, WireOK
  <2> QED BY <2>2, <2>3
<1>4. ASSUME NEW f \in Frames, Enqueue(f), UNCHANGED socket, Seated'
      PROVE  inbox' = Append(inbox, f)
  BY <1>4 DEF Enqueue, Seated
<1>5. ASSUME NEW q \in People, SomebodyMoves(q) PROVE Lists'
  <2> SUFFICES ASSUME Seated', ~destroyed', settling' # 0 \/ key' = socket', NEW p \in People
               PROVE  /\ Agrees(members'[p], inbox', p, View')
                      /\ Agrees(members'[p], inbox', p, peerList')
    BY DEF Lists
  <2>1. /\ UNCHANGED <<dial, socket, settling, key, destroyed, peerList>> /\ View' = View
        /\ members' = [members EXCEPT ![q] = IF @ = "new" THEN "in" ELSE "out"]
        /\ members[q] \in {"new", "in"}
    BY <1>5 DEF SomebodyMoves, session, View, said, WorldOK
  <2>2. Seated
    BY <1>5, <2>1 DEF SomebodyMoves, Seated
  <2> DEFINE f == [kind |-> IF members[q] = "new" THEN "joined" ELSE "left", who |-> q]
  <2>3. f \in Frames /\ Enqueue(f)
    BY <1>5, <2>2 DEF SomebodyMoves, Frames
  <2>4. inbox' = Append(inbox, f)
    BY <1>4, <2>1, <2>3
  <2>5. Agrees(members[p], inbox, p, View) /\ Agrees(members[p], inbox, p, peerList)
    BY <2>1, <2>2 DEF Lists
  <2>6. CASE p # q
    <3>1. f # Joined(p) /\ f # Left(p) /\ members'[p] = members[p]
      BY <2>1, <2>6 DEF Joined, Left, WorldOK
    <3> HIDE DEF f
    <3> QED BY <2>1, <2>3, <2>4, <2>5, <3>1, AppendOther DEF QueueOK
  <2>7. CASE p = q /\ members[q] = "new"
    <3>1. f = Joined(p) /\ members'[p] = "in"
      BY <2>1, <2>7 DEF Joined, WorldOK
    <3> HIDE DEF f
    <3> QED BY <2>1, <2>3, <2>4, <2>5, <2>7, <3>1, AppendJoined DEF QueueOK
  <2>8. CASE p = q /\ members[q] = "in"
    <3>1. f = Left(p) /\ members'[p] = "out"
      BY <2>1, <2>8 DEF Left, WorldOK
    <3> HIDE DEF f
    <3> QED BY <2>1, <2>3, <2>4, <2>5, <2>8, <3>1, AppendLeft DEF QueueOK
  <2> QED BY <2>1, <2>6, <2>7, <2>8
<1>6. ASSUME NEW kind \in {"gone", "closing"}, RoomSends(kind) PROVE Lists'
  <2> SUFFICES ASSUME Seated', ~destroyed', settling' # 0 \/ key' = socket', NEW p \in People
               PROVE  /\ Agrees(members'[p], inbox', p, View')
                      /\ Agrees(members'[p], inbox', p, peerList')
    BY DEF Lists
  <2>1. UNCHANGED <<dial, socket, settling, key, destroyed, peerList, members>> /\ View' = View
    BY <1>6 DEF RoomSends, session, View, said
  <2>2. [kind |-> kind] \in Frames /\ [kind |-> kind] # Joined(p) /\ [kind |-> kind] # Left(p)
    <3>1. [kind |-> kind].kind = kind /\ Joined(p).kind = "joined" /\ Left(p).kind = "left"
      BY DEF Joined, Left
    <3> QED BY <3>1 DEF Frames
  <2>3. inbox' = Append(inbox, [kind |-> kind])
    BY <1>4, <1>6, <2>1, <2>2 DEF RoomSends
  <2>4. Agrees(members[p], inbox, p, View) /\ Agrees(members[p], inbox, p, peerList)
    BY <1>6, <2>1 DEF Lists, RoomSends
  <2> QED BY <2>1, <2>2, <2>3, <2>4, AppendOther DEF QueueOK
<1>7. CASE Process
  <2> SUFFICES ASSUME Seated', ~destroyed', settling' # 0 \/ key' = socket', NEW p \in People
               PROVE  /\ Agrees(members'[p], inbox', p, View')
                      /\ Agrees(members'[p], inbox', p, peerList')
    BY DEF Lists
  <2>1. /\ UNCHANGED <<dial, socket, open, settling, key, destroyed, members, snapshot>>
        /\ inbox \in Seq(Frames) /\ inbox # <<>> /\ inbox' = Tail(inbox)
        /\ settling = 0 \/ Head(inbox).kind = "gone"
        /\ members[p] \in {"new", "in", "out"}
    BY <1>7 DEF Process, QueueOK, world, WorldOK
  <2>2. Agrees(members[p], inbox, p, View) /\ Agrees(members[p], inbox, p, peerList)
    BY <2>1 DEF Lists, Seated
  <2>3. CASE Head(inbox) = Joined(p)
    <3>1. View' = View \cup {p} /\ peerList' = peerList \cup {p}
      BY <1>7, <2>1, <2>3 DEF Process, View, Joined
    <3> QED BY <2>1, <2>2, <2>3, <3>1, TailJoined
  <2>4. CASE Head(inbox) = Left(p)
    <3>1. View' = View \ {p} /\ peerList' = peerList \ {p}
      BY <1>7, <2>1, <2>4 DEF Process, View, Left
    <3> QED BY <2>1, <2>2, <2>4, <3>1, TailLeft
  <2>5. CASE Head(inbox) # Joined(p) /\ Head(inbox) # Left(p)
    <3>1. Head(inbox).kind \in {"joined", "left"} => Head(inbox).who # p
      <4>1. Head(inbox) \in Frames
        BY <2>1
      <4> QED BY <2>5, <4>1 DEF Frames, Joined, Left
    <3>2. (p \in View' <=> p \in View) /\ (p \in peerList' <=> p \in peerList)
      BY <1>7, <2>1, <3>1 DEF Process, View
    <3> QED BY <2>1, <2>2, <2>5, <3>2, TailOther
  <2> QED BY <2>3, <2>4, <2>5
<1>8. CASE Report \/ ClockEnds \/ Publish \/ DrainOutbound \/ UNCHANGED vars
  <2>1. UNCHANGED <<dial, socket, open, settling, key, destroyed, members, snapshot, inbox,
                    peerList, roster>>
    BY <1>8 DEF Report, ClockEnds, Publish, DrainOutbound, vars, wire, session, queue, said,
                world
  <2> QED BY <2>1 DEF Lists, Seated, View
<1> QED BY <1>1, <1>2, <1>3, <1>5, <1>6, <1>7, <1>8 DEF Next

-----------------------------------------------------------------------------
LEMMA InitHolds == Init => TypeOK /\ Dialled /\ Counted /\ Prompted
<1> SUFFICES ASSUME Init PROVE TypeOK /\ Dialled /\ Counted /\ Prompted
  OBVIOUS
<1>1. TypeOK
  <2>0. 0 \in 0..1 /\ <<>> \in Seq(1..1) /\ <<>> \in Seq(Frames) /\ Len(<<>>) = 0
    OBVIOUS
  <2>1. WireOK /\ SaidOK
    <3>1. generation \in Nat \ {0} /\ socket \in 0..generation /\ attempts \in Nat /\ tries \in Nat
      BY <2>0 DEF Init
    <3>2. open \subseteq 1..generation /\ retryArmed \in BOOLEAN
          /\ dial \in {"idle", "opening", "greeting"}
      BY DEF Init
    <3> QED BY <3>1, <3>2 DEF Init, WireOK, SaidOK
  <2>2. SessionOK /\ SentOK
    BY <2>0 DEF Init, SessionOK, SentOK
  <2>4. QueueOK
    BY <2>0, RelayAssumption DEF Init, QueueOK
  <2>3. WorldOK
    BY RelayAssumption DEF Init, WorldOK
  <2> QED BY <2>1, <2>2, <2>3, <2>4 DEF TypeOK
<1>2. Dialled /\ Counted
  BY RelayAssumption DEF Init, Dialled, Counted
<1>3. Prompted
  BY DEF Init, Prompted, Bound, NoFrameUnderADeadKey, Lists, Seated
<1> QED BY <1>1, <1>2, <1>3

LEMMA PromptedStep ==
    ASSUME TypeOK, Dialled, Prompted, [Next]_vars
    PROVE  Prompted'
<1>1. UNCHANGED <<prompt, closes>>
  BY DEF Next, Opened, DialFails, Answered, Settle, Drop, RetryFires, Disconnect, SomebodyMoves,
         RoomSends, Process, Report, ClockEnds, Publish, DrainOutbound, vars, world, given
<1> QED BY <1>1, BoundStep, ListsStep DEF Prompted

\* The relay's dials, its session, its inbox and what it has told have their types over drops
\* and re-dials (relay.ts, RelaySession).
THEOREM RelayTypeOK == Spec => []TypeOK
<1>1. Init => TypeOK
  BY InitHolds
<1>2. TypeOK /\ [Next]_vars => TypeOK'
  BY TypeStep
<1> QED BY <1>1, <1>2, PTL DEF Spec

\* Between two seats the relay dials no more often than its budget, and the server holds one
\* connection of this client, under every timing of the socket (relay.ts, scheduleReconnect,
\* retry and dial).
THEOREM RelayDialsAreBounded == Spec => []DialsAreBounded
<1>1. Init => TypeOK /\ Dialled /\ Counted
  BY InitHolds
<1>2. TypeOK /\ Dialled /\ Counted /\ [Next]_vars => TypeOK' /\ Dialled' /\ Counted'
  BY TypeStep, DialledStep, CountedStep
<1>3. TypeOK /\ Dialled /\ Counted => DialsAreBounded
  <2> SUFFICES ASSUME TypeOK, Dialled, Counted PROVE DialsAreBounded
    OBVIOUS
  <2>1. key # 0 => tries <= RetryBudget
    BY RelayAssumption DEF TypeOK, WireOK, Counted
  <2>2. IsFiniteSet({socket}) /\ Cardinality({socket}) = 1
    BY FS_Singleton
  <2>3. Cardinality(open) <= 1
    BY <2>2, FS_Subset DEF Dialled
  <2> QED BY <2>1, <2>3 DEF DialsAreBounded
<1> QED BY <1>1, <1>2, <1>3, PTL DEF Spec

\* Where the socket leaves a re-seat and a connection's frames the time to end, no frame goes
\* out under the key of another connection, the roster a quiet session believes is the room,
\* and nobody is told of a seat that is not there, over any number of drops, people and frames
\* (relay.ts, detach, reseat, enqueue, drain and process).
THEOREM RelayPromptSessionAgrees == Spec => []PromptSessionAgrees
<1>1. Init => TypeOK /\ Dialled /\ Prompted
  BY InitHolds
<1>2. TypeOK /\ Dialled /\ Prompted /\ [Next]_vars => TypeOK' /\ Dialled' /\ Prompted'
  BY TypeStep, DialledStep, PromptedStep
<1>3. TypeOK /\ Prompted => PromptSessionAgrees
  <2> SUFFICES ASSUME TypeOK, prompt, Bound, closes => Lists PROVE PromptSessionAgrees
    BY DEF Prompted, PromptSessionAgrees
  <2>1. ASSUME closes PROVE QuietRosterAgrees
    <3> SUFFICES ASSUME Seated, ~destroyed, key = socket, settling = 0, inbox = <<>>
                 PROVE  roster = Present /\ peerList = Present
      BY DEF QuietRosterAgrees
    <3>1. \A p \in People : Agrees(members[p], <<>>, p, roster) /\ Agrees(members[p], <<>>, p, peerList)
      BY <2>1 DEF Lists, View
    <3>2. \A p \in People : (p \in roster <=> members[p] = "in") /\ (p \in peerList <=> members[p] = "in")
      BY <3>1, EmptyAgrees DEF TypeOK, WorldOK
    <3> QED BY <3>2 DEF Present, TypeOK, SessionOK, QueueOK
  <2> QED BY <2>1 DEF PromptSessionAgrees, Bound
<1> QED BY <1>1, <1>2, <1>3, PTL DEF Spec

-----------------------------------------------------------------------------
(* The count of frames.                                                    *)

\* Frames the room may seal while the count is unwritten for u units of time.
Allowance(u) == Rate * (u + 1)

\* The charge covers what can be unwritten, on its way and unseen.
LEMMA AllowanceFacts ==
    /\ Allowance(0) = Rate
    /\ \A u \in Nat : Allowance(u) \in Nat /\ Allowance(u + 1) = Allowance(u) + Rate
    /\ \A u \in Nat : u < 2 * Renew => Allowance(u) + MaxInFlight + AwayFrames <= Charge
    /\ MaxInFlight + AwayFrames < Charge
<1> USE BudgetAssumption
<1>1. \A u \in Nat : Allowance(u) \in Nat /\ Allowance(u + 1) = Allowance(u) + Rate
  BY DEF Allowance
<1>2. ASSUME NEW u \in Nat, u < 2 * Renew
      PROVE  Allowance(u) + MaxInFlight + AwayFrames <= Charge
  <2>1. Rate * (u + 1) <= Rate * (2 * Renew + 1)
    BY <1>2
  <2> QED BY <2>1 DEF Allowance
<1>3. Rate * (2 * Renew + 1) > 0
  OBVIOUS
<1> QED BY <1>1, <1>2, <1>3 DEF Allowance

LEMMA BudgetTypes ==
    /\ Renew \in Nat \ {0} /\ Budget \in Nat /\ Charge \in Nat
    /\ Rate \in Nat \ {0} /\ MaxInFlight \in Nat /\ AwayFrames \in Nat
    /\ 0 \in 0..Rate /\ 0 \in 0..MaxInFlight /\ 0 \in 0..(2 * Renew)
    /\ 0 \in 0..Renew /\ Renew \in 0..Renew
    /\ Rate \in 0..Rate /\ AwayFrames \in 0..AwayFrames
BY BudgetAssumption

-----------------------------------------------------------------------------
(* The count and its store.                                                *)

\* While a process runs its producer knows what the store has, which is not above the count;
\* a count that is written is not unwritten for any time, and one that is not is younger than
\* the last write until a renewal has passed; and what is unwritten meets the next grid tick
\* before two renewals.
Written ==
    /\ up => savedFrames = store /\ savedFrames <= roomFrames
    /\ ~up => roomFrames = 0 /\ ~seated /\ ~closed
    /\ ~up \/ roomFrames = savedFrames => unsaved = 0
    /\ savedAge < Renew => unsaved <= savedAge
    /\ unsaved + grid < 2 * Renew

\* What a process that is seated, detached, ended or dead can have missed, while the count
\* with one charge more is below the budget.
Attended ==
    seated /\ ~closed =>
        /\ roomFrames < Budget => total <= roomFrames + inFlight
        /\ away = AwayFrames
Unwritten ==
    up /\ ~closed /\ store + Charge < Budget =>
        roomFrames + inFlight + burst <= store + MaxInFlight + Allowance(unsaved)
Detached ==
    up /\ ~seated /\ ~closed =>
        /\ inFlight = 0
        /\ roomFrames + Charge < Budget => total + away <= roomFrames + MaxInFlight + AwayFrames
        /\ store + Charge < Budget =>
              total + burst + away <= store + MaxInFlight + Allowance(unsaved) + AwayFrames
Ended ==
    closed /\ store + Charge < Budget => total + away <= store + MaxInFlight + AwayFrames
Dead ==
    ~up /\ store + Charge < Budget => total + away <= store + Charge
Unborn ==
    store = Nothing => Budget = 0 \/ (~up /\ life = 0 /\ total = 0)

Covered == Attended /\ Unwritten /\ Detached /\ Ended /\ Dead /\ Unborn

LEMMA BudgetTypeStep ==
    ASSUME BudgetTypeOK, Written, [BudgetNext]_budgetVars
    PROVE  BudgetTypeOK'
<1> USE BudgetTypes DEF BudgetTypeOK, Written
<1>1. CASE Create
  BY <1>1 DEF Create, Starts, Save, LoadedFrames, Nothing
<1>2. CASE CreateOverBudget
  BY <1>2 DEF CreateOverBudget, Starts, LoadedFrames, Nothing
<1>3. CASE Crash
  BY <1>3 DEF Crash
<1>4. CASE HostDetaches
  BY <1>4 DEF HostDetaches, Live, NoSave
<1>5. CASE Reseat
  BY <1>5 DEF Reseat, Live, Save
<1>6. CASE SealContent
  BY <1>6 DEF SealContent, MayPublish, Live, SealsAnother, NoSave
<1>7. CASE SealState
  BY <1>7 DEF SealState, Live, SealsAnother, Save
<1>8. CASE SealClosing
  BY <1>8 DEF SealClosing, Live, SealsAnother, Save
<1>9. CASE PeerSeals
  BY <1>9 DEF PeerSeals, Live, NoSave
<1>10. CASE Deliver
  BY <1>10 DEF Deliver, NoSave
<1>11. CASE TickFlushes
  BY <1>11 DEF TickFlushes, Live, Due, Save, NoSave, NextGrid
<1>12. CASE TickCloses
  BY <1>12 DEF TickCloses, Live, Due, SealsAnother, Save, NextGrid
<1>13. CASE Advance
  BY <1>13 DEF Advance, Live, Smaller
<1>14. CASE UNCHANGED budgetVars
  BY <1>14 DEF budgetVars
<1> QED BY <1>1, <1>2, <1>3, <1>4, <1>5, <1>6, <1>7, <1>8, <1>9, <1>10, <1>11, <1>12,
            <1>13, <1>14 DEF BudgetNext

LEMMA WrittenStep ==
    ASSUME BudgetTypeOK, Written, [BudgetNext]_budgetVars
    PROVE  Written'
<1> USE BudgetTypes DEF BudgetTypeOK, Written
<1>1. CASE Create
  BY <1>1 DEF Create, Starts, Save, LoadedFrames, Nothing
<1>2. CASE CreateOverBudget
  BY <1>2 DEF CreateOverBudget, Starts, LoadedFrames, Nothing
<1>3. CASE Crash
  BY <1>3 DEF Crash
<1>4. CASE HostDetaches
  BY <1>4 DEF HostDetaches, Live, NoSave
<1>5. CASE Reseat
  BY <1>5 DEF Reseat, Live, Save
<1>6. CASE SealContent
  BY <1>6 DEF SealContent, MayPublish, Live, SealsAnother, NoSave
<1>7. CASE SealState
  BY <1>7 DEF SealState, Live, SealsAnother, Save
<1>8. CASE SealClosing
  BY <1>8 DEF SealClosing, Live, SealsAnother, Save
<1>9. CASE PeerSeals
  BY <1>9 DEF PeerSeals, Live, NoSave
<1>10. CASE Deliver
  BY <1>10 DEF Deliver, NoSave
<1>11. CASE TickFlushes
  BY <1>11 DEF TickFlushes, Live, Due, Save, NoSave, NextGrid
<1>12. CASE TickCloses
  BY <1>12 DEF TickCloses, Live, Due, SealsAnother, Save, NextGrid
<1>13. CASE Advance
  BY <1>13 DEF Advance, Live, Smaller
<1>14. CASE UNCHANGED budgetVars
  BY <1>14 DEF budgetVars
<1> QED BY <1>1, <1>2, <1>3, <1>4, <1>5, <1>6, <1>7, <1>8, <1>9, <1>10, <1>11, <1>12,
            <1>13, <1>14 DEF BudgetNext

LEMMA AttendedStep ==
    ASSUME BudgetTypeOK, Written, Covered, [BudgetNext]_budgetVars
    PROVE  Attended'
<1> USE BudgetTypes, AllowanceFacts
        DEF BudgetTypeOK, Written, Covered, Attended, Unwritten, Detached, Ended, Dead, Unborn
<1>1. CASE Create
  BY <1>1 DEF Create, Starts, Save, LoadedFrames, Nothing
<1>2. CASE CreateOverBudget
  BY <1>2 DEF CreateOverBudget, Starts, LoadedFrames, Nothing
<1>3. CASE Crash
  BY <1>3 DEF Crash
<1>4. CASE HostDetaches
  BY <1>4 DEF HostDetaches, Live, NoSave
<1>5. CASE Reseat
  BY <1>5 DEF Reseat, Live, Save
<1>6. CASE SealContent
  BY <1>6 DEF SealContent, MayPublish, Live, SealsAnother, NoSave
<1>7. CASE SealState
  BY <1>7 DEF SealState, Live, SealsAnother, Save
<1>8. CASE SealClosing
  BY <1>8 DEF SealClosing, Live, SealsAnother, Save
<1>9. CASE PeerSeals
  BY <1>9 DEF PeerSeals, Live, NoSave
<1>10. CASE Deliver
  BY <1>10 DEF Deliver, NoSave
<1>11. CASE TickFlushes
  BY <1>11 DEF TickFlushes, Live, Due, Save, NoSave, NextGrid
<1>12. CASE TickCloses
  BY <1>12 DEF TickCloses, Live, Due, SealsAnother, Save, NextGrid
<1>13. CASE Advance
  BY <1>13 DEF Advance, Live, Smaller
<1>14. CASE UNCHANGED budgetVars
  BY <1>14 DEF budgetVars
<1> QED BY <1>1, <1>2, <1>3, <1>4, <1>5, <1>6, <1>7, <1>8, <1>9, <1>10, <1>11, <1>12,
            <1>13, <1>14 DEF BudgetNext

LEMMA UnwrittenStep ==
    ASSUME BudgetTypeOK, Written, Covered, [BudgetNext]_budgetVars
    PROVE  Unwritten'
<1> USE BudgetTypes, AllowanceFacts
        DEF BudgetTypeOK, Written, Covered, Attended, Unwritten, Detached, Ended, Dead, Unborn
<1>1. CASE Create
  BY <1>1 DEF Create, Starts, Save, LoadedFrames, Nothing
<1>2. CASE CreateOverBudget
  BY <1>2 DEF CreateOverBudget, Starts, LoadedFrames, Nothing
<1>3. CASE Crash
  BY <1>3 DEF Crash
<1>4. CASE HostDetaches
  BY <1>4 DEF HostDetaches, Live, NoSave
<1>5. CASE Reseat
  BY <1>5 DEF Reseat, Live, Save
<1>6. CASE SealContent
  BY <1>6 DEF SealContent, MayPublish, Live, SealsAnother, NoSave
<1>7. CASE SealState
  BY <1>7 DEF SealState, Live, SealsAnother, Save
<1>8. CASE SealClosing
  BY <1>8 DEF SealClosing, Live, SealsAnother, Save
<1>9. CASE PeerSeals
  BY <1>9 DEF PeerSeals, Live, NoSave
<1>10. CASE Deliver
  BY <1>10 DEF Deliver, NoSave
<1>11. CASE TickFlushes
  BY <1>11 DEF TickFlushes, Live, Due, Save, NoSave, NextGrid
<1>12. CASE TickCloses
  BY <1>12 DEF TickCloses, Live, Due, SealsAnother, Save, NextGrid
<1>13. CASE Advance
  BY <1>13 DEF Advance, Live, Smaller
<1>14. CASE UNCHANGED budgetVars
  BY <1>14 DEF budgetVars
<1> QED BY <1>1, <1>2, <1>3, <1>4, <1>5, <1>6, <1>7, <1>8, <1>9, <1>10, <1>11, <1>12,
            <1>13, <1>14 DEF BudgetNext

LEMMA DetachedStep ==
    ASSUME BudgetTypeOK, Written, Covered, [BudgetNext]_budgetVars
    PROVE  Detached'
<1> USE BudgetTypes, AllowanceFacts
        DEF BudgetTypeOK, Written, Covered, Attended, Unwritten, Detached, Ended, Dead, Unborn
<1>1. CASE Create
  BY <1>1 DEF Create, Starts, Save, LoadedFrames, Nothing
<1>2. CASE CreateOverBudget
  BY <1>2 DEF CreateOverBudget, Starts, LoadedFrames, Nothing
<1>3. CASE Crash
  BY <1>3 DEF Crash
<1>4. CASE HostDetaches
  <2>1. Allowance(unsaved) + MaxInFlight + AwayFrames <= Charge /\ Allowance(unsaved) \in Nat
    OBVIOUS
  <2>2. seated /\ ~closed
    BY <1>4 DEF HostDetaches, Live
  <2>3. store + Charge < Budget => roomFrames + inFlight + burst < Budget
    BY <1>4, <2>1, <2>2 DEF HostDetaches, Live
  <2>4. store' = store /\ unsaved' = unsaved /\ roomFrames' = roomFrames /\ inFlight' = 0
        /\ total' = total /\ burst' = burst /\ away' = away /\ up
    BY <1>4 DEF HostDetaches, Live, NoSave
  <2>5. total + away <= roomFrames + MaxInFlight + AwayFrames \/ roomFrames >= Budget
    BY <2>2
  <2>6. store + Charge < Budget =>
           total + burst + away <= store + MaxInFlight + Allowance(unsaved) + AwayFrames
    BY <2>1, <2>2, <2>3, <2>4
  <2> QED BY <2>4, <2>5, <2>6
<1>5. CASE Reseat
  BY <1>5 DEF Reseat, Live, Save
<1>6. CASE SealContent
  BY <1>6 DEF SealContent, MayPublish, Live, SealsAnother, NoSave
<1>7. CASE SealState
  BY <1>7 DEF SealState, Live, SealsAnother, Save
<1>8. CASE SealClosing
  BY <1>8 DEF SealClosing, Live, SealsAnother, Save
<1>9. CASE PeerSeals
  BY <1>9 DEF PeerSeals, Live, NoSave
<1>10. CASE Deliver
  BY <1>10 DEF Deliver, NoSave
<1>11. CASE TickFlushes
  BY <1>11 DEF TickFlushes, Live, Due, Save, NoSave, NextGrid
<1>12. CASE TickCloses
  BY <1>12 DEF TickCloses, Live, Due, SealsAnother, Save, NextGrid
<1>13. CASE Advance
  BY <1>13 DEF Advance, Live, Smaller
<1>14. CASE UNCHANGED budgetVars
  BY <1>14 DEF budgetVars
<1> QED BY <1>1, <1>2, <1>3, <1>4, <1>5, <1>6, <1>7, <1>8, <1>9, <1>10, <1>11, <1>12,
            <1>13, <1>14 DEF BudgetNext

LEMMA EndedStep ==
    ASSUME BudgetTypeOK, Written, Covered, [BudgetNext]_budgetVars
    PROVE  Ended'
<1> USE BudgetTypes, AllowanceFacts
        DEF BudgetTypeOK, Written, Covered, Attended, Unwritten, Detached, Ended, Dead, Unborn
<1>1. CASE Create
  BY <1>1 DEF Create, Starts, Save, LoadedFrames, Nothing
<1>2. CASE CreateOverBudget
  BY <1>2 DEF CreateOverBudget, Starts, LoadedFrames, Nothing
<1>3. CASE Crash
  BY <1>3 DEF Crash
<1>4. CASE HostDetaches
  BY <1>4 DEF HostDetaches, Live, NoSave
<1>5. CASE Reseat
  BY <1>5 DEF Reseat, Live, Save
<1>6. CASE SealContent
  BY <1>6 DEF SealContent, MayPublish, Live, SealsAnother, NoSave
<1>7. CASE SealState
  BY <1>7 DEF SealState, Live, SealsAnother, Save
<1>8. CASE SealClosing
  BY <1>8 DEF SealClosing, Live, SealsAnother, Save
<1>9. CASE PeerSeals
  BY <1>9 DEF PeerSeals, Live, NoSave
<1>10. CASE Deliver
  BY <1>10 DEF Deliver, NoSave
<1>11. CASE TickFlushes
  BY <1>11 DEF TickFlushes, Live, Due, Save, NoSave, NextGrid
<1>12. CASE TickCloses
  BY <1>12 DEF TickCloses, Live, Due, SealsAnother, Save, NextGrid
<1>13. CASE Advance
  BY <1>13 DEF Advance, Live, Smaller
<1>14. CASE UNCHANGED budgetVars
  BY <1>14 DEF budgetVars
<1> QED BY <1>1, <1>2, <1>3, <1>4, <1>5, <1>6, <1>7, <1>8, <1>9, <1>10, <1>11, <1>12,
            <1>13, <1>14 DEF BudgetNext

LEMMA DeadStep ==
    ASSUME BudgetTypeOK, Written, Covered, [BudgetNext]_budgetVars
    PROVE  Dead'
<1> USE BudgetTypes, AllowanceFacts
        DEF BudgetTypeOK, Written, Covered, Attended, Unwritten, Detached, Ended, Dead, Unborn
<1>1. CASE Create
  BY <1>1 DEF Create, Starts, Save, LoadedFrames, Nothing
<1>2. CASE CreateOverBudget
  BY <1>2 DEF CreateOverBudget, Starts, LoadedFrames, Nothing
<1>3. CASE Crash
  <2> SUFFICES ASSUME store + Charge < Budget PROVE total + away <= store + Charge
    BY <1>3 DEF Crash
  <2>1. up /\ store \in Nat \cup {Nothing}
    BY <1>3 DEF Crash
  <2>2. Allowance(unsaved) + MaxInFlight + AwayFrames <= Charge /\ Allowance(unsaved) \in Nat
    OBVIOUS
  <2>3. CASE closed
    BY <2>2, <2>3
  <2>4. CASE ~closed /\ ~seated
    BY <2>1, <2>2, <2>4
  <2>5. CASE ~closed /\ seated
    <3>1. roomFrames + inFlight + burst <= store + MaxInFlight + Allowance(unsaved)
      BY <2>1, <2>5
    <3>2. total <= roomFrames + inFlight /\ away = AwayFrames
      BY <2>2, <2>5, <3>1
    <3> QED BY <2>2, <3>1, <3>2
  <2> QED BY <2>3, <2>4, <2>5
<1>4. CASE HostDetaches
  BY <1>4 DEF HostDetaches, Live, NoSave
<1>5. CASE Reseat
  BY <1>5 DEF Reseat, Live, Save
<1>6. CASE SealContent
  BY <1>6 DEF SealContent, MayPublish, Live, SealsAnother, NoSave
<1>7. CASE SealState
  BY <1>7 DEF SealState, Live, SealsAnother, Save
<1>8. CASE SealClosing
  BY <1>8 DEF SealClosing, Live, SealsAnother, Save
<1>9. CASE PeerSeals
  BY <1>9 DEF PeerSeals, Live, NoSave
<1>10. CASE Deliver
  BY <1>10 DEF Deliver, NoSave
<1>11. CASE TickFlushes
  BY <1>11 DEF TickFlushes, Live, Due, Save, NoSave, NextGrid
<1>12. CASE TickCloses
  BY <1>12 DEF TickCloses, Live, Due, SealsAnother, Save, NextGrid
<1>13. CASE Advance
  BY <1>13 DEF Advance, Live, Smaller
<1>14. CASE UNCHANGED budgetVars
  BY <1>14 DEF budgetVars
<1> QED BY <1>1, <1>2, <1>3, <1>4, <1>5, <1>6, <1>7, <1>8, <1>9, <1>10, <1>11, <1>12,
            <1>13, <1>14 DEF BudgetNext

LEMMA UnbornStep ==
    ASSUME BudgetTypeOK, Written, Covered, [BudgetNext]_budgetVars
    PROVE  Unborn'
<1> USE BudgetTypes, AllowanceFacts
        DEF BudgetTypeOK, Written, Covered, Attended, Unwritten, Detached, Ended, Dead, Unborn,
            Nothing
<1>1. CASE Create
  BY <1>1 DEF Create, Starts, Save, LoadedFrames, Nothing
<1>2. CASE CreateOverBudget
  BY <1>2 DEF CreateOverBudget, Starts, LoadedFrames, Nothing
<1>3. CASE Crash
  BY <1>3 DEF Crash
<1>4. CASE HostDetaches
  BY <1>4 DEF HostDetaches, Live, NoSave
<1>5. CASE Reseat
  BY <1>5 DEF Reseat, Live, Save
<1>6. CASE SealContent
  BY <1>6 DEF SealContent, MayPublish, Live, SealsAnother, NoSave
<1>7. CASE SealState
  BY <1>7 DEF SealState, Live, SealsAnother, Save
<1>8. CASE SealClosing
  BY <1>8 DEF SealClosing, Live, SealsAnother, Save
<1>9. CASE PeerSeals
  BY <1>9 DEF PeerSeals, Live, NoSave
<1>10. CASE Deliver
  BY <1>10 DEF Deliver, NoSave
<1>11. CASE TickFlushes
  BY <1>11 DEF TickFlushes, Live, Due, Save, NoSave, NextGrid
<1>12. CASE TickCloses
  BY <1>12 DEF TickCloses, Live, Due, SealsAnother, Save, NextGrid
<1>13. CASE Advance
  BY <1>13 DEF Advance, Live, Smaller
<1>14. CASE UNCHANGED budgetVars
  BY <1>14 DEF budgetVars
<1> QED BY <1>1, <1>2, <1>3, <1>4, <1>5, <1>6, <1>7, <1>8, <1>9, <1>10, <1>11, <1>12,
            <1>13, <1>14 DEF BudgetNext

-----------------------------------------------------------------------------
LEMMA BudgetInitHolds ==
    ASSUME BudgetInit
    PROVE  BudgetTypeOK /\ Written /\ Covered
<1> USE BudgetTypes DEF BudgetInit, Nothing
<1>1. BudgetTypeOK
  BY DEF BudgetTypeOK
<1>2. Written
  BY DEF Written
<1>3. Covered
  BY AllowanceFacts DEF Covered, Attended, Unwritten, Detached, Ended, Dead, Unborn
<1> QED BY <1>1, <1>2, <1>3

LEMMA BudgetStepHolds ==
    ASSUME BudgetTypeOK, Written, Covered, [BudgetNext]_budgetVars
    PROVE  BudgetTypeOK' /\ Written' /\ Covered'
BY BudgetTypeStep, WrittenStep, AttendedStep, UnwrittenStep, DetachedStep, EndedStep, DeadStep,
   UnbornStep DEF Covered

\* From the budget on, a frame the host counts and seals ends the session.
LEMMA OverBudgetEnds ==
    ASSUME BudgetTypeOK, Written, [BudgetNext]_budgetVars,
           roomFrames >= Budget, roomFrames' > roomFrames, total' > total
    PROVE  closed'
<1> USE BudgetTypes DEF BudgetTypeOK, Written
<1>1. CASE Create
  BY <1>1 DEF Create, Starts, Save, LoadedFrames
<1>2. CASE CreateOverBudget \/ Crash \/ HostDetaches \/ Reseat \/ Deliver \/ TickFlushes
  BY <1>2 DEF CreateOverBudget, Crash, HostDetaches, Reseat, Deliver, TickFlushes
<1>3. CASE SealContent \/ SealState \/ PeerSeals \/ Advance \/ UNCHANGED budgetVars
  BY <1>3 DEF SealContent, MayPublish, SealState, PeerSeals, Advance, budgetVars
<1>4. CASE SealClosing \/ TickCloses
  BY <1>4 DEF SealClosing, TickCloses
<1> QED BY <1>1, <1>2, <1>3, <1>4 DEF BudgetNext

\* The count of the room's frames, its copy in the store and the clocks between them have
\* their types in every life of the host (host.ts frames, savedFrames, savedAt).
THEOREM FrameBudgetTypeOK == BudgetSpec => []BudgetTypeOK
<1>1. BudgetInit => BudgetTypeOK /\ Written
  BY BudgetInitHolds
<1>2. BudgetTypeOK /\ Written /\ [BudgetNext]_budgetVars => BudgetTypeOK' /\ Written'
  BY BudgetTypeStep, WrittenStep
<1> QED BY <1>1, <1>2, PTL DEF BudgetSpec

\* If the charge is what one absence can hide, the host counts every frame its room has sealed
\* up to the budget, over any number of crashes, restarts and returns (host.ts create, reseat);
\* a count that moved is written before two renewals have passed (flushFrames), and from the
\* budget on the only frame it seals is the closing (budgetSpent).
THEOREM FrameBudgetIsKept == BudgetSpec => BudgetIsKept
<1> DEFINE Inv == BudgetTypeOK /\ Written /\ Covered
<1>1. BudgetInit => Inv
  BY BudgetInitHolds
<1>2. Inv /\ [BudgetNext]_budgetVars => Inv'
  BY BudgetStepHolds
<1>3. Inv /\ [BudgetNext]_budgetVars =>
        [/\ CountCoversTheRoom' /\ unsaved' < 2 * Renew
         /\ roomFrames >= Budget /\ roomFrames' > roomFrames /\ total' > total => closed']_budgetVars
  <2> SUFFICES ASSUME Inv, [BudgetNext]_budgetVars
               PROVE  /\ CountCoversTheRoom' /\ unsaved' < 2 * Renew
                      /\ roomFrames >= Budget /\ roomFrames' > roomFrames /\ total' > total
                         => closed'
    OBVIOUS
  <2>1. Inv'
    BY <1>2
  <2>2. CountCoversTheRoom'
    BY <2>1 DEF Covered, Attended, CountCoversTheRoom
  <2>3. unsaved' < 2 * Renew
    <3>1. grid' \in 0..Renew /\ unsaved' \in 0..(2 * Renew) /\ unsaved' + grid' < 2 * Renew
      BY <2>1 DEF BudgetTypeOK, Written
    <3>2. Renew \in Nat
      BY BudgetTypes
    <3>3. \A x \in 0..Renew, y \in 0..(2 * Renew) : y + x < 2 * Renew => y < 2 * Renew
      BY <3>2
    <3> QED BY <3>1, <3>3
  <2> QED BY <2>2, <2>3, OverBudgetEnds
<1> HIDE DEF Inv
<1> QED BY <1>1, <1>2, <1>3, PTL DEF BudgetSpec, BudgetIsKept

-----------------------------------------------------------------------------
(* The absence of a host, and the card that tells of it.                   *)

Counting(s) == s.card.mode \in {"away", "ended"}

\* What the card says is so, of a guest's record on a socket that is open or not.
Carded(s, isOpen, excused) ==
    /\ Counting(s) => s.grace
    /\ s.card.mode = "return" => ~s.grace
    /\ s.card.mode = "dropped" => ~isOpen
    /\ s.grace /\ ~excused /\ ~s.over => Counting(s)
    /\ "count" \in s.card.timers => s.card.mode = "away"
    /\ "stand" \in s.card.timers => s.card.mode = "return"

\* No absence is timed of a host that is seen, and none is told that is not timed.
Timed(s) == HostSeen(s) => s.age = Off
ToldInTime(s) == s.grace => s.age # Off

\* What a painting of the card leaves.
LEMMA Painted ==
    ASSUME NEW c \in Card, NEW m \in {"none", "away", "ended", "return", "dropped"}
    PROVE  /\ Paint(c, m) \in Card /\ Paint(c, m).mode = m
           /\ Paint(c, m).timers = {} /\ Paint(c, m).left = 0
<1>1. Stop(c) \in Card /\ Stop(c).timers = {} /\ Stop(c).left = 0
  BY DEF Stop, Card
<1> QED BY <1>1 DEF Paint, Card

LEMMA CardSteps ==
    ASSUME NEW c \in Card
    PROVE  /\ Clear(c) \in Card /\ Clear(c).mode = "none" /\ Clear(c).timers = {}
           /\ Say(c) \in Card /\ Say(c).mode = "return" /\ Say(c).timers = {"stand"}
           /\ \A h \in {"ok", "reconnecting"} :
                 /\ Health(c, h) \in Card /\ Health(c, h).mode = c.mode
                 /\ Health(c, h).timers = c.timers
           /\ \A n \in Nat :
                 /\ Away(c, n) \in Card /\ Away(c, n).mode \in {"away", "ended"}
                 /\ Away(c, n).timers \subseteq {"count"}
                 /\ "count" \in Away(c, n).timers => Away(c, n).mode = "away"
           /\ EndDropped(c) \in Card /\ EndAway(c) \in Card
           /\ IF c.mode = "dropped"
              THEN EndDropped(c).mode = "none" /\ EndDropped(c).timers = {}
              ELSE EndDropped(c) = c
           /\ IF c.mode \in {"away", "ended"}
              THEN EndAway(c).mode = "none" /\ EndAway(c).timers = {}
              ELSE EndAway(c) = c
<1>1. /\ Clear(c) \in Card /\ Clear(c).mode = "none" /\ Clear(c).timers = {}
  BY Painted DEF Clear
<1>2. /\ Say(c) \in Card /\ Say(c).mode = "return" /\ Say(c).timers = {"stand"}
  <2>1. Paint(c, "return") \in Card /\ Paint(c, "return").mode = "return"
        /\ Paint(c, "return").timers = {}
    BY Painted
  <2> QED BY <2>1 DEF Say, Card
<1>3. ASSUME NEW h \in {"ok", "reconnecting"}
      PROVE  /\ Health(c, h) \in Card /\ Health(c, h).mode = c.mode
             /\ Health(c, h).timers = c.timers
  BY DEF Health, Card
<1>4. ASSUME NEW n \in Nat
      PROVE  /\ Away(c, n) \in Card /\ Away(c, n).mode \in {"away", "ended"}
             /\ Away(c, n).timers \subseteq {"count"}
             /\ "count" \in Away(c, n).timers => Away(c, n).mode = "away"
  <2>1. /\ Paint(c, "ended") \in Card /\ Paint(c, "ended").mode = "ended"
        /\ Paint(c, "ended").timers = {}
        /\ Paint(c, "away") \in Card /\ Paint(c, "away").mode = "away"
        /\ Paint(c, "away").timers = {}
    BY Painted
  <2>2. CASE n = 0
    BY <2>1, <2>2 DEF Away
  <2>3. CASE n # 0
    BY <2>1, <2>3 DEF Away, Card
  <2> QED BY <2>2, <2>3
<1> QED BY <1>1, <1>2, <1>3, <1>4 DEF EndDropped, EndAway

\* A notice changes the card only.
LEMMA ToldIsCard ==
    ASSUME NEW s \in Guest, NEW n, OnNotice(s.card, n) \in Card
    PROVE  /\ Told(s, n) \in Guest /\ Told(s, n).card = OnNotice(s.card, n)
           /\ Told(s, n) = [s EXCEPT !.card = OnNotice(s.card, n)]
           /\ \A f \in {"roster", "named", "issued", "age", "holds", "lease", "lastPeers",
                        "lastOpen", "people", "documents", "grace", "over"} :
                 Told(s, n)[f] = s[f]
<1>1. s.card \in Card
  BY DEF Guest
<1> QED BY <1>1 DEF Told, Guest

\* A change of the card alone leaves what a guest's record says besides.
Fields == {"roster", "named", "issued", "age", "holds", "lease", "lastPeers", "lastOpen",
           "people", "documents", "grace", "over"}
CardOnly(t, s) == t \in Guest /\ \A f \in Fields : t[f] = s[f]

\* What the card says is so, but for an absence that it may leave out.
Weakly(s, isOpen) ==
    /\ Counting(s) => s.grace
    /\ s.card.mode = "return" => ~s.grace
    /\ s.card.mode = "dropped" => ~isOpen
    /\ "count" \in s.card.timers => s.card.mode = "away"
    /\ "stand" \in s.card.timers => s.card.mode = "return"

\* A membership or the documents take a dropped line down, and a countdown only where the
\* host is seen.
LEMMA RosterKeeps ==
    ASSUME NEW s \in Guest, Weakly(s, FALSE), NEW n \in {Documents, Membership(s)}
    PROVE  /\ CardOnly(Told(s, n), s) /\ Weakly(Told(s, n), TRUE)
           /\ ~HostSeen(s) /\ Counting(s) => Counting(Told(s, n))
<1> DEFINE c == s.card
           e == EndDropped(c)
<1>1. c \in Card
  BY DEF Guest
<1>2. e \in Card /\ EndAway(e) \in Card
  BY <1>1, CardSteps
<1>3. /\ Health(e, "ok") \in Card /\ Health(e, "ok").mode = e.mode
      /\ Health(e, "ok").timers = e.timers
      /\ Health(EndAway(e), "ok") \in Card /\ Health(EndAway(e), "ok").mode = EndAway(e).mode
      /\ Health(EndAway(e), "ok").timers = EndAway(e).timers
  BY <1>2, CardSteps
<1>4. /\ e.mode # "dropped" /\ e.mode \in {c.mode, "none"}
      /\ c.mode # "dropped" => e.mode = c.mode
      /\ e.timers = {} \/ (e.mode = c.mode /\ e.timers = c.timers)
  <2>1. Clear(c).mode = "none" /\ Clear(c).timers = {}
    BY <1>1, CardSteps
  <2> QED BY <2>1 DEF EndDropped
<1>5. /\ EndAway(e).mode # "dropped" /\ EndAway(e).mode \in {e.mode, "none"}
      /\ EndAway(e).timers = {} \/ (EndAway(e).mode = e.mode /\ EndAway(e).timers = e.timers)
  <2> HIDE DEF e
  <2>1. Clear(e).mode = "none" /\ Clear(e).timers = {}
    BY <1>2, CardSteps
  <2> QED BY <1>4, <2>1 DEF EndAway
<1>6. \/ OnNotice(c, n) = Health(e, "ok")
      \/ HostSeen(s) /\ OnNotice(c, n) = Health(EndAway(e), "ok")
  <2>1. CASE n = Documents
    BY <2>1 DEF Documents, OnNotice
  <2>2. CASE n = Membership(s)
    BY <2>2 DEF Membership, OnNotice, HostSeen
  <2> QED BY <2>1, <2>2
<1>7. OnNotice(c, n) \in Card
  BY <1>3, <1>6
<1>8. CardOnly(Told(s, n), s) /\ Told(s, n).card = OnNotice(c, n)
  BY <1>7, ToldIsCard DEF CardOnly, Fields
<1>9. Told(s, n).grace = s.grace
  BY <1>8 DEF CardOnly, Fields
<1> QED BY <1>3, <1>4, <1>5, <1>6, <1>8, <1>9 DEF Weakly, Counting

\* A report ends with the absence the clock has, and the card says it where it began or ended.
LEMMA RefreshKeeps ==
    ASSUME NEW s \in Guest, NEW isOpen \in BOOLEAN, NEW ex \in BOOLEAN,
           Timed(s), Carded(s, isOpen, ex)
    PROVE  /\ Refresh(s) \in Guest /\ Refresh(s).grace = (s.age # Off)
           /\ \A f \in {"roster", "named", "issued", "age", "holds", "lease", "over"} :
                 Refresh(s)[f] = s[f]
           /\ Carded(Refresh(s), isOpen, ex /\ s.grace /\ Refresh(s).grace)
<1> DEFINE m == IF PeerInfos(s) # s.people THEN Told(s, Membership(s)) ELSE s
           o == IF s.holds # s.documents THEN Told(m, Documents) ELSE m
           h == HostAway(s)
           t == Changes(s)
<1>1. Weakly(s, isOpen)
  BY DEF Carded, Weakly
<1>2. /\ CardOnly(m, s) /\ Weakly(m, isOpen)
      /\ ~HostSeen(s) /\ Counting(s) => Counting(m)
  <2>1. CASE m = s
    BY <1>1, <2>1 DEF CardOnly
  <2>2. CASE m = Told(s, Membership(s))
    BY <1>1, <2>2, RosterKeeps DEF Weakly
  <2> QED BY <2>1, <2>2
<1>3. HostSeen(m) = HostSeen(s)
  BY <1>2 DEF HostSeen, CardOnly, Fields
<1>4. /\ CardOnly(o, m) /\ Weakly(o, isOpen)
      /\ ~HostSeen(s) /\ Counting(m) => Counting(o)
  <2>1. CASE o = m
    BY <1>2, <2>1 DEF CardOnly
  <2>2. CASE o = Told(m, Documents)
    <3>1. m \in Guest /\ Weakly(m, FALSE)
      BY <1>2 DEF CardOnly, Weakly
    <3> QED BY <1>3, <2>2, <3>1, RosterKeeps DEF Weakly
  <2> QED BY <2>1, <2>2
<1>5. CardOnly(o, s)
  BY <1>2, <1>4 DEF CardOnly
<1>6. s.age \in 0..Off /\ s.grace \in BOOLEAN /\ o.card \in Card /\ o.grace = s.grace
  BY <1>5 DEF Guest, CardOnly, Fields
<1>7. ASSUME s.grace # (s.age # Off)
      PROVE  /\ CardOnly(t, s)
             /\ IF s.grace
                THEN t.card.mode = "return" /\ t.card.timers = {"stand"}
                ELSE /\ t.card.mode \in {"away", "ended"} /\ t.card.timers \subseteq {"count"}
                     /\ "count" \in t.card.timers => t.card.mode = "away"
  <2>1. t = Told(o, h)
    BY <1>7 DEF Changes
  <2>2. CASE s.grace
    <3>1. OnNotice(o.card, h) = Health(Say(o.card), "ok")
      BY <2>2 DEF HostAway, OnNotice
    <3>2. Say(o.card) \in Card /\ Say(o.card).mode = "return" /\ Say(o.card).timers = {"stand"}
      BY <1>6, CardSteps
    <3>3. /\ Health(Say(o.card), "ok") \in Card /\ Health(Say(o.card), "ok").mode = "return"
          /\ Health(Say(o.card), "ok").timers = {"stand"}
      BY <3>2, CardSteps
    <3>4. CardOnly(t, o) /\ t.card = OnNotice(o.card, h)
      BY <1>5, <2>1, <3>1, <3>3, ToldIsCard DEF CardOnly, Fields
    <3> QED BY <1>5, <2>2, <3>1, <3>3, <3>4 DEF CardOnly
  <2>3. CASE ~s.grace
    <3>1. s.age \in 0..Expire /\ Expire - s.age \in Nat
      BY <1>6, <1>7, <2>3, BoundsAssumption DEF Off
    <3>2. OnNotice(o.card, h) = Away(o.card, Expire - s.age)
      BY <2>3 DEF HostAway, OnNotice
    <3>3. /\ Away(o.card, Expire - s.age) \in Card
          /\ Away(o.card, Expire - s.age).mode \in {"away", "ended"}
          /\ Away(o.card, Expire - s.age).timers \subseteq {"count"}
          /\ "count" \in Away(o.card, Expire - s.age).timers
                => Away(o.card, Expire - s.age).mode = "away"
      BY <1>6, <3>1, CardSteps
    <3>4. CardOnly(t, o) /\ t.card = OnNotice(o.card, h)
      BY <1>5, <2>1, <3>2, <3>3, ToldIsCard DEF CardOnly, Fields
    <3> QED BY <1>5, <2>3, <3>2, <3>3, <3>4 DEF CardOnly
  <2> QED BY <1>6, <2>2, <2>3
<1>8. ASSUME s.grace = (s.age # Off)
      PROVE  t = o
  BY <1>8 DEF Changes
<1>9. CardOnly(t, s)
  BY <1>5, <1>7, <1>8
<1>10. PeerInfos(s) \in UNION {[r -> BOOLEAN] : r \in SUBSET (Seats \cup {Friend})}
  BY DEF PeerInfos, Guest
<1>11. /\ Refresh(s) \in Guest /\ Refresh(s).grace = (s.age # Off)
       /\ Refresh(s).card = t.card
       /\ \A f \in {"roster", "named", "issued", "age", "holds", "lease", "over"} :
             Refresh(s)[f] = s[f]
  <2>1. /\ t.roster = s.roster /\ t.named = s.named /\ t.issued = s.issued /\ t.age = s.age
        /\ t.holds = s.holds /\ t.lease = s.lease /\ t.over = s.over /\ t \in Guest
    BY <1>9 DEF CardOnly, Fields
  <2>2. s.holds \in BOOLEAN
    BY DEF Guest
  <2> QED BY <2>1, <2>2, <1>10 DEF Refresh, Guest
<1>12. s.over = Refresh(s).over /\ s.grace \in BOOLEAN
  BY <1>11 DEF Guest
<1> SUFFICES Carded(Refresh(s), isOpen, ex /\ s.grace /\ Refresh(s).grace)
  BY <1>11
<1>13. CASE s.grace # (s.age # Off)
  <2>1. CASE s.grace
    <3>1. /\ Refresh(s).card.mode = "return" /\ Refresh(s).card.timers = {"stand"}
          /\ ~Refresh(s).grace
      BY <1>7, <1>11, <1>13, <2>1
    <3> QED BY <3>1 DEF Carded, Counting
  <2>2. CASE ~s.grace
    <3>1. /\ Refresh(s).card.mode \in {"away", "ended"} /\ Refresh(s).card.timers \subseteq {"count"}
          /\ "count" \in Refresh(s).card.timers => Refresh(s).card.mode = "away"
          /\ Refresh(s).grace
      BY <1>7, <1>11, <1>12, <1>13, <2>2
    <3> QED BY <3>1 DEF Carded, Counting
  <2> QED BY <1>12, <2>1, <2>2
<1>14. CASE s.grace = (s.age # Off)
  <2>1. s.grace => ~HostSeen(s)
    BY <1>14 DEF Timed
  <2>2. Refresh(s).card = o.card /\ o.grace = Refresh(s).grace /\ o.grace = s.grace
    BY <1>6, <1>8, <1>11, <1>14
  <2> QED BY <1>2, <1>4, <1>12, <2>1, <2>2 DEF Carded, Weakly, Counting
<1> QED BY <1>12, <1>13, <1>14

\* A report tells of what there is, or of nothing.
LEMMA ReportsKeep ==
    ASSUME NEW s \in Guest, NEW isOpen \in BOOLEAN, NEW ex \in BOOLEAN,
           Timed(s), ToldInTime(s), Carded(s, isOpen, ex)
    PROVE  /\ Reports(s) \in Guest
           /\ \A f \in {"roster", "named", "age", "over"} : Reports(s)[f] = s[f]
           /\ Timed(Reports(s)) /\ ToldInTime(Reports(s))
           /\ Carded(Reports(s), isOpen, ex /\ s.grace /\ Reports(s).grace)
<1>1. CASE Reports(s) = s
  <2>1. s.grace \in BOOLEAN /\ s.over \in BOOLEAN
    BY DEF Guest
  <2> QED BY <1>1, <2>1 DEF Carded
<1>2. CASE Reports(s) = [Refresh(s) EXCEPT !.lastPeers = s.roster, !.lastOpen = s.holds]
  <2> DEFINE t == Refresh(s)
             u == Reports(s)
  <2>1. /\ t \in Guest /\ t.grace = (s.age # Off)
        /\ \A f \in {"roster", "named", "age", "over"} : t[f] = s[f]
        /\ Carded(t, isOpen, ex /\ s.grace /\ t.grace)
    BY RefreshKeeps
  <2>2. s.roster \in SUBSET (Seats \cup {Friend}) /\ s.holds \in BOOLEAN
    BY DEF Guest
  <2>3. /\ u \in Guest /\ u.card = t.card /\ u.grace = t.grace
        /\ u.roster = s.roster /\ u.named = s.named /\ u.age = s.age /\ u.over = s.over
        /\ u.over = t.over
    BY <1>2, <2>1, <2>2 DEF Guest
  <2>4. Carded(u, isOpen, ex /\ s.grace /\ u.grace)
    BY <2>1, <2>3 DEF Carded, Counting
  <2>5. Timed(u) /\ ToldInTime(u)
    BY <2>1, <2>3 DEF Timed, ToldInTime, HostSeen
  <2> QED BY <2>3, <2>4, <2>5
<1> QED BY <1>1, <1>2 DEF Reports

-----------------------------------------------------------------------------
(* What is on the way to the guest. *)

Joining(x) == [kind |-> "joined", seat |-> x]

\* What the seats on the way are to a host at h and a guest that has roster r and a state of n.
Fits(q, r, n, h, k) ==
    /\ n = h => h \in r
    /\ \A i \in 1..Len(q) :
          /\ q[i].kind # "holds" => q[i].seat <= k
          /\ q[i].kind = "left" => q[i].seat # h
          /\ q[i].kind = "joined" =>
                /\ q[i].seat # n
                /\ \A j \in 1..(i - 1) : q[j].kind = "state" => q[j].seat # q[i].seat
          /\ q[i].kind = "state" /\ q[i].seat = h =>
                h \in r \/ \E j \in 1..(i - 1) : q[j] = Joining(h)
Coming(q, r, h) == h \in r \/ \E j \in 1..Len(q) : q[j] = Joining(h)

LEMMA Appended ==
    ASSUME NEW S, NEW q \in Seq(S), NEW f \in S, NEW g \in S
    PROVE  /\ q \o <<f>> = Append(q, f) /\ q \o <<>> = q
           /\ q \o <<f, g>> = Append(Append(q, f), g)
<1>1. q \o <<f>> = Append(q, f) /\ q \o <<>> = q
  OBVIOUS
<1>2. q \o <<f, g>> = Append(Append(q, f), g)
  OBVIOUS
<1> QED BY <1>1, <1>2

LEMMA AppendFits ==
    ASSUME NEW q \in Seq(Carried), NEW f \in Carried, NEW r, NEW n \in Seats,
           NEW h \in Seats \cup {0}, NEW k \in Seats, Fits(q, r, n, h, k),
           f.kind # "holds" => f.seat <= k,
           f.kind = "left" => f.seat # h,
           f.kind = "joined" =>
              f.seat # n /\ \A j \in 1..Len(q) : q[j].kind = "state" => q[j].seat # f.seat,
           f.kind = "state" /\ f.seat = h => Coming(q, r, h)
    PROVE  /\ Append(q, f) \in Seq(Carried) /\ Fits(Append(q, f), r, n, h, k)
           /\ Coming(q, r, h) => Coming(Append(q, f), r, h)
           /\ f = Joining(h) => Coming(Append(q, f), r, h)
<1> DEFINE p == Append(q, f)
<1>1. /\ p \in Seq(Carried) /\ Len(p) = Len(q) + 1 /\ p[Len(q) + 1] = f /\ Len(q) \in Nat
      /\ \A i \in 1..Len(q) : p[i] = q[i]
  OBVIOUS
<1> HIDE DEF p
<1>2. ASSUME NEW i \in 1..Len(p)
      PROVE  /\ p[i].kind # "holds" => p[i].seat <= k
             /\ p[i].kind = "left" => p[i].seat # h
             /\ p[i].kind = "joined" =>
                   /\ p[i].seat # n
                   /\ \A j \in 1..(i - 1) : p[j].kind = "state" => p[j].seat # p[i].seat
             /\ p[i].kind = "state" /\ p[i].seat = h =>
                   h \in r \/ \E j \in 1..(i - 1) : p[j] = Joining(h)
  <2>0. \A j \in 1..(i - 1) : j \in 1..Len(q) /\ p[j] = q[j]
    BY <1>1
  <2>1. CASE i \in 1..Len(q)
    <3>1. p[i] = q[i]
      BY <1>1, <2>1
    <3> QED BY <2>0, <2>1, <3>1 DEF Fits
  <2>2. CASE i = Len(q) + 1
    <3>1. p[i] = f /\ i - 1 = Len(q)
      BY <1>1, <2>2
    <3> QED BY <2>0, <3>1 DEF Coming
  <2> QED BY <1>1, <2>1, <2>2
<1>3. Fits(p, r, n, h, k)
  BY <1>2 DEF Fits
<1>4. /\ Coming(q, r, h) => Coming(p, r, h)
      /\ f = Joining(h) => Coming(p, r, h)
  BY <1>1 DEF Coming
<1> QED BY <1>1, <1>3, <1>4 DEF p

LEMMA PrefixFits ==
    ASSUME NEW q \in Seq(Carried), NEW m \in 0..Len(q), NEW r, NEW n, NEW h, NEW k,
           Fits(q, r, n, h, k)
    PROVE  SubSeq(q, 1, m) \in Seq(Carried) /\ Fits(SubSeq(q, 1, m), r, n, h, k)
<1> DEFINE p == SubSeq(q, 1, m)
<1>1. /\ p \in Seq(Carried) /\ Len(p) = m /\ Len(q) \in Nat
      /\ \A i \in 1..m : i \in 1..Len(q) /\ p[i] = q[i]
  OBVIOUS
<1> HIDE DEF p
<1>2. \A i \in 1..m : \A j \in 1..(i - 1) : j \in 1..m
  BY <1>1
<1>3. Fits(p, r, n, h, k)
  BY <1>1, <1>2 DEF Fits
<1> QED BY <1>1, <1>3 DEF p

\* The first frame is taken: what it joins is in the roster, and what it names was joined.
LEMMA TailFits ==
    ASSUME NEW q \in Seq(Carried), q # <<>>, NEW r, NEW s, NEW n, NEW m, NEW h, NEW k,
           Fits(q, r, n, h, k), h \in r => h \in s, Head(q) = Joining(h) => h \in s,
           m = n \/ (Head(q).kind = "state" /\ m = Head(q).seat)
    PROVE  /\ Tail(q) \in Seq(Carried) /\ Fits(Tail(q), s, m, h, k)
           /\ Coming(q, r, h) => Coming(Tail(q), s, h)
<1> DEFINE p == Tail(q)
<1>1. /\ p \in Seq(Carried) /\ Len(p) = Len(q) - 1 /\ Len(q) \in Nat /\ 1 \in 1..Len(q)
      /\ Head(q) = q[1] /\ \A i \in 1..Len(p) : p[i] = q[i + 1] /\ i + 1 \in 1..Len(q)
  OBVIOUS
<1> HIDE DEF p
<1>2. ASSUME NEW i \in 1..Len(p)
      PROVE  /\ p[i].kind # "holds" => p[i].seat <= k
             /\ p[i].kind = "left" => p[i].seat # h
             /\ p[i].kind = "joined" =>
                   /\ p[i].seat # m
                   /\ \A j \in 1..(i - 1) : p[j].kind = "state" => p[j].seat # p[i].seat
             /\ p[i].kind = "state" /\ p[i].seat = h =>
                   h \in s \/ \E j \in 1..(i - 1) : p[j] = Joining(h)
  <2>1. p[i] = q[i + 1] /\ i + 1 \in 1..Len(q) /\ 1 \in 1..((i + 1) - 1)
    BY <1>1
  <2>2. \A j \in 1..(i - 1) : p[j] = q[j + 1] /\ j + 1 \in 1..((i + 1) - 1)
    BY <1>1
  <2>3. p[i].kind = "state" /\ p[i].seat = h => h \in s \/ \E j \in 1..(i - 1) : p[j] = Joining(h)
    <3> SUFFICES ASSUME p[i].kind = "state", p[i].seat = h, h \notin s
                 PROVE  \E j \in 1..(i - 1) : p[j] = Joining(h)
      OBVIOUS
    <3>1. PICK j \in 1..((i + 1) - 1) : q[j] = Joining(h)
      BY <2>1 DEF Fits
    <3>2. j # 1
      BY <1>1, <3>1
    <3>3. j - 1 \in 1..(i - 1) /\ (j - 1) + 1 = j
      BY <3>1, <3>2
    <3> QED BY <2>2, <3>1, <3>3
  <2>4. p[i].kind = "joined" => p[i].seat # m
    <3>1. p[i].kind = "joined" => p[i].seat # n
      BY <2>1 DEF Fits
    <3>2. p[i].kind = "joined" /\ Head(q).kind = "state" => Head(q).seat # p[i].seat
      BY <1>1, <2>1 DEF Fits
    <3> QED BY <3>1, <3>2
  <2> QED BY <2>1, <2>2, <2>3, <2>4 DEF Fits
<1>3. m = h => h \in s
  <2>1. n = h => h \in s
    BY DEF Fits
  <2>2. Head(q).kind = "state" /\ Head(q).seat = h => h \in r
    BY <1>1 DEF Fits
  <2> QED BY <2>1, <2>2
<1>4. Fits(p, s, m, h, k)
  BY <1>2, <1>3 DEF Fits
<1>5. Coming(q, r, h) => Coming(p, s, h)
  <2> SUFFICES ASSUME NEW j \in 1..Len(q), q[j] = Joining(h), h \notin s PROVE Coming(p, s, h)
    BY DEF Coming
  <2>1. j # 1
    BY <1>1
  <2>2. j - 1 \in 1..Len(p) /\ (j - 1) + 1 = j
    BY <1>1, <2>1
  <2> QED BY <1>1, <2>2 DEF Coming
<1> QED BY <1>1, <1>4, <1>5 DEF p

-----------------------------------------------------------------------------
(* The invariant, and the steps. *)

\* A clock that is looked at starts where the host is gone, and goes on.
LEMMA ClockIs ==
    ASSUME NEW s \in Guest, NEW b \in BOOLEAN
    PROVE  LET t == RefreshHostAway(s, b) IN
           /\ t \in Guest /\ Timed(t) /\ t.card = s.card
           /\ \A f \in Fields \ {"age"} : t[f] = s[f]
           /\ ToldInTime(s) /\ Timed(s) => ~HostSeen(s) \/ ~s.grace
           /\ ToldInTime(s) /\ (HostSeen(s) => ~s.grace) => ToldInTime(t)
<1> DEFINE t == RefreshHostAway(s, b)
<1>1. s.age \in 0..Off /\ Off \in Nat /\ 0 \in 0..Off /\ Off \in 0..Off /\ s.named \in Seats /\ s.named # 0
      /\ Off # 0
  BY BoundsAssumption DEF Guest, Off, Seats
<1>2. Since(s, b) \in 0..Off /\ (HostSeen(s) => Since(s, b) = Off) /\ (~HostSeen(s) => Since(s, b) # Off)
  BY <1>1 DEF Since
<1>3. t \in Guest /\ t.age = Since(s, b) /\ t.card = s.card
      /\ \A f \in Fields \ {"age"} : t[f] = s[f]
  BY <1>2 DEF RefreshHostAway, Guest, Fields
<1>4. t.roster = s.roster /\ t.named = s.named /\ t.grace = s.grace
  BY <1>3 DEF Fields
<1> QED BY <1>2, <1>3, <1>4 DEF Timed, ToldInTime, HostSeen

\* What a frame does to the guest: its roster, the seat its state names, and its card.
LEMMA ProcessKeeps ==
    ASSUME NEW s \in Guest, NEW f \in Carried, NEW isOpen \in BOOLEAN, NEW ex \in BOOLEAN,
           Timed(s), ToldInTime(s), Carded(s, isOpen, ex),
           f.kind = "joined" => f.seat # s.named
    PROVE  LET t == ProcessFrame(s, f) IN
           /\ t \in Guest /\ Timed(t) /\ ToldInTime(t) /\ t.over = s.over
           /\ Carded(t, isOpen, ex /\ s.grace /\ t.grace)
           /\ \A h : h \in s.roster /\ (f.kind = "left" => f.seat # h) => h \in t.roster
           /\ \A h : f = Joining(h) => h \in t.roster
           /\ t.named = s.named \/ (f.kind = "state" /\ t.named = f.seat)
<1> DEFINE t == ProcessFrame(s, f)
<1>0. s.grace \in BOOLEAN /\ s.over \in BOOLEAN /\ s.roster \in SUBSET (Seats \cup {Friend})
      /\ s.named \in Seats
  BY DEF Guest
<1>1. CASE f.kind = "joined"
  <2>1. t = [s EXCEPT !.roster = @ \cup {f.seat}] /\ f.seat \in Seats
    BY <1>1 DEF ProcessFrame, Carried
  <2>2. /\ t \in Guest /\ t.roster = s.roster \cup {f.seat} /\ t.named = s.named
        /\ t.age = s.age /\ t.grace = s.grace /\ t.card = s.card /\ t.over = s.over
    BY <2>1 DEF Guest
  <2>3. HostSeen(t) = HostSeen(s)
    BY <1>1, <2>2 DEF HostSeen
  <2>4. Timed(t) /\ ToldInTime(t) /\ Carded(t, isOpen, ex /\ s.grace /\ t.grace)
    BY <1>0, <2>2, <2>3 DEF Timed, ToldInTime, Carded, Counting
  <2> QED BY <1>1, <2>2, <2>4 DEF Joining
<1>2. CASE f.kind = "left"
  <2> DEFINE r == [s EXCEPT !.roster = @ \ {f.seat}]
  <2>1. t = RefreshHostAway(r, FALSE)
    BY <1>2 DEF ProcessFrame
  <2>2. /\ r \in Guest /\ r.roster = s.roster \ {f.seat} /\ r.named = s.named /\ r.age = s.age
        /\ r.grace = s.grace /\ r.card = s.card /\ r.over = s.over
    BY DEF Guest
  <2>3. (HostSeen(r) => ~r.grace) /\ ToldInTime(r)
    BY <2>2 DEF HostSeen, Timed, ToldInTime
  <2>4. t \in Guest /\ Timed(t) /\ t.card = s.card /\ ToldInTime(t)
        /\ \A x \in Fields \ {"age"} : t[x] = r[x]
    BY <2>1, <2>2, <2>3, ClockIs, ZenonT(30)
  <2>5. t.roster = s.roster \ {f.seat} /\ t.named = s.named /\ t.grace = s.grace /\ t.over = s.over
    BY <2>2, <2>4 DEF Fields
  <2>6. Carded(t, isOpen, ex /\ s.grace /\ t.grace)
    BY <1>0, <2>4, <2>5 DEF Carded, Counting
  <2> QED BY <1>2, <2>4, <2>5, <2>6 DEF Joining
<1>3. CASE f.kind = "holds"
  <2> DEFINE r == [s EXCEPT !.holds = TRUE, !.lease = Expire]
  <2>1. t = Refresh(r)
    BY <1>3 DEF ProcessFrame
  <2>2. /\ r \in Guest /\ r.roster = s.roster /\ r.named = s.named /\ r.age = s.age
        /\ r.grace = s.grace /\ r.card = s.card /\ r.over = s.over
    <3>1. Expire \in 0..Expire
      BY BoundsAssumption
    <3> QED BY <3>1 DEF Guest
  <2>3. Timed(r) /\ Carded(r, isOpen, ex)
    BY <2>2 DEF Timed, HostSeen, Carded, Counting
  <2>4. /\ t \in Guest /\ t.grace = (r.age # Off) /\ Carded(t, isOpen, ex /\ r.grace /\ t.grace)
        /\ t.roster = r.roster /\ t.named = r.named /\ t.age = r.age /\ t.over = r.over
    BY <2>1, <2>2, <2>3, RefreshKeeps
  <2>5. Timed(t) /\ ToldInTime(t)
    BY <2>2, <2>3, <2>4 DEF Timed, ToldInTime, HostSeen
  <2> QED BY <1>3, <2>2, <2>4, <2>5 DEF Joining
<1>4. CASE f.kind = "state"
  <2>1. f.seat \in Seats /\ f.edition \in Nat /\ \A h : f # Joining(h)
    BY <1>4 DEF Carried, Joining
  <2>2. CASE f.edition <= s.issued
    <3>1. t = s
      BY <1>4, <2>2 DEF ProcessFrame
    <3> QED BY <1>0, <1>4, <2>1, <3>1 DEF Carded
  <2>3. CASE ~(f.edition <= s.issued)
    <3> DEFINE r == [s EXCEPT !.named = f.seat, !.issued = f.edition]
               v == RefreshHostAway(r, TRUE)
    <3>1. t = Refresh(v)
      BY <1>4, <2>3 DEF ProcessFrame
    <3>2. /\ r \in Guest /\ r.roster = s.roster /\ r.named = f.seat
          /\ r.grace = s.grace /\ r.card = s.card /\ r.over = s.over
      BY <2>1 DEF Guest
    <3>3. v \in Guest /\ Timed(v) /\ v.card = s.card /\ \A x \in Fields \ {"age"} : v[x] = r[x]
      BY <3>2, ClockIs
    <3> HIDE DEF r, v
    <3>4. v.roster = s.roster /\ v.named = f.seat /\ v.grace = s.grace /\ v.over = s.over
      BY <3>2, <3>3 DEF Fields
    <3>5. Carded(v, isOpen, ex)
      BY <3>3, <3>4 DEF Carded, Counting
    <3>6. /\ t \in Guest /\ t.grace = (v.age # Off) /\ Carded(t, isOpen, ex /\ v.grace /\ t.grace)
          /\ t.roster = v.roster /\ t.named = v.named /\ t.age = v.age /\ t.over = v.over
      BY <3>1, <3>3, <3>5, RefreshKeeps
    <3>7. Timed(t) /\ ToldInTime(t)
      BY <3>3, <3>6 DEF Timed, ToldInTime, HostSeen
    <3> QED BY <1>4, <2>1, <3>4, <3>6, <3>7
  <2> QED BY <2>2, <2>3
<1>5. f.kind \in {"joined", "left", "holds", "state"}
  BY DEF Carried
<1> QED BY <1>1, <1>2, <1>3, <1>4, <1>5

\* The card, its clock, the seats and what is on the way.
Known ==
    /\ Timed(guest) /\ ToldInTime(guest) /\ Carded(guest, linked, blinked)
    /\ hostAt <= seats /\ latest.seat <= seats /\ guest.named <= seats
    /\ Fits(frames, guest.roster, guest.named, hostAt, seats)
    /\ linked /\ hostAt # 0 => Coming(frames, guest.roster, hostAt)
AbsenceHolds == AbsenceTypeOK /\ Known

LEMMA SeatsAre ==
    /\ 1 \in Seats /\ 0 \notin Seats /\ Friend \notin Seats /\ Seats \subseteq Nat
    /\ MaxSeats \in Nat /\ \A k \in Seats : k < MaxSeats => k + 1 \in Seats
    /\ Off \in 0..Off /\ Expire \in 0..Off /\ Expire \in Nat /\ 0 \in 0..Expire
BY BoundsAssumption DEF Seats, Friend, Off

\* A seat that the guest's roster has gained or kept; a host that is gone; a host that comes.
LEMMA OtherHost ==
    ASSUME NEW q \in Seq(Carried), NEW r, NEW n \in Seats, NEW h, NEW k \in Seats,
           Fits(q, r, n, h, k), n <= k
    PROVE  /\ Fits(q, r, n, 0, k)
           /\ k + 1 \in Seats => Fits(q, r, n, k + 1, k + 1)
           /\ \A p : (h \in r => h \in p) => Fits(q, p, n, h, k)
<1>1. \A i \in 1..Len(q) : q[i] \in Carried
  OBVIOUS
<1>2. \A i \in 1..Len(q) : q[i].kind \in {"left", "joined", "state"} =>
         q[i].kind # "holds" /\ q[i].seat \in Seats
  BY <1>1 DEF Carried
<1>3. \A i \in 1..Len(q) : q[i].kind \in {"left", "joined", "state"} =>
         q[i].seat # 0 /\ q[i].seat # k + 1 /\ q[i].seat <= k + 1
  <2>1. \A s \in Seats : s <= k => s # 0 /\ s # k + 1 /\ s <= k + 1
    BY SeatsAre
  <2>2. \A i \in 1..Len(q) : q[i].kind # "holds" => q[i].seat <= k
    BY DEF Fits
  <2> QED
    BY <1>2, <2>1, <2>2
<1>4. n # 0 /\ n # k + 1
  BY SeatsAre
<1>5. \A i \in 1..Len(q) : q[i].kind \in {"left", "joined", "state", "holds"}
  BY <1>1 DEF Carried
<1> QED BY <1>3, <1>4, <1>5 DEF Fits

LEMMA HostLeavesKeeps == ASSUME AbsenceHolds, HostLeaves PROVE AbsenceHolds'
<1> USE SeatsAre
<1> DEFINE f == [kind |-> "left", seat |-> hostAt]
<1>1. f \in Carried /\ frames \in Seq(Carried) /\ guest.named \in Seats /\ seats \in Seats
      /\ hostAt \in Seats /\ linked \in BOOLEAN
  BY DEF AbsenceHolds, AbsenceTypeOK, HostLeaves, HostSeated, Carried, Guest
<1>2. Fits(frames, guest.roster, guest.named, 0, seats)
  BY <1>1, OtherHost DEF AbsenceHolds, Known
<1>3. Append(frames, f) \in Seq(Carried)
      /\ Fits(Append(frames, f), guest.roster, guest.named, 0, seats)
  <2>1. /\ f.kind # "holds" => f.seat <= seats
        /\ f.kind = "left" => f.seat # 0 
        /\ f.kind # "joined" /\ f.kind # "state"
    BY <1>1 DEF AbsenceHolds, Known
  <2> HIDE DEF f
  <2> QED BY <1>1, <1>2, <2>1, AppendFits
<1>4. frames' = IF linked THEN Append(frames, f) ELSE frames
  <2>1. frames \o <<f>> = Append(frames, f)
    <3> HIDE DEF f
    <3> QED BY <1>1, Appended
  <2> QED BY <2>1 DEF HostLeaves, Sends
<1>5. frames' \in Seq(Carried) /\ Fits(frames', guest.roster, guest.named, 0, seats)
  BY <1>1, <1>2, <1>3, <1>4
<1>6. hostAt' = 0 /\ UNCHANGED <<seats, company, latest, spoken, blips, time, linked, due, guest, blinked>>
  BY DEF HostLeaves
<1>7. AbsenceTypeOK'
  BY <1>5, <1>6 DEF AbsenceHolds, AbsenceTypeOK
<1>8. hostAt' <= seats'
  BY <1>1, <1>6
<1> QED BY <1>5, <1>6, <1>7, <1>8 DEF AbsenceHolds, Known, Timed, ToldInTime, HostSeen, Carded, Counting

LEMMA HostReturnsKeeps == ASSUME AbsenceHolds, HostReturns PROVE AbsenceHolds'
<1> USE SeatsAre
<1> DEFINE f == Joining(seats + 1)
           q == Append(frames, f)
           h == seats + 1
<1>1. frames \in Seq(Carried) /\ guest.named \in Seats /\ seats \in Seats
      /\ linked \in BOOLEAN /\ latest \in [edition : Nat, seat : Seats] /\ company \in BOOLEAN
  BY DEF AbsenceHolds, AbsenceTypeOK, Guest
<1>2. seats + 1 \in Seats /\ seats \in Nat
  BY <1>1 DEF HostReturns
<1>3. f \in Carried /\ LastState \in Carried /\ f.kind = "joined" /\ f.seat = seats + 1
      /\ LastState.kind = "state" /\ LastState.seat = latest.seat
  BY <1>1, <1>2 DEF Carried, LastState, Joining
<1>4. Fits(frames, guest.roster, guest.named, h, h)
  BY <1>1, <1>2, OtherHost DEF AbsenceHolds, Known
<1>5. \A j \in 1..Len(frames) : frames[j].kind = "state" => frames[j].seat # h
  <2> SUFFICES ASSUME NEW j \in 1..Len(frames), frames[j].kind = "state" PROVE frames[j].seat # h
    OBVIOUS
  <2>1. frames[j].seat <= seats
    BY DEF AbsenceHolds, Known, Fits
  <2>2. frames[j] \in Carried
    BY <1>1
  <2>3. frames[j].seat \in Nat
    BY <2>2 DEF Carried
  <2> QED BY <1>2, <2>1, <2>3
<1>6. q \in Seq(Carried) /\ Fits(q, guest.roster, guest.named, h, h) /\ Coming(q, guest.roster, h)
  <2>1. h <= h /\ guest.named # h
    BY <1>1, <1>2 DEF AbsenceHolds, Known
  <2> HIDE DEF f, h
  <2> USE DEF q
  <2>2. h = seats + 1 /\ f = Joining(h) /\ h \in Seats
    BY <1>2 DEF h, f
  <2> QED BY <1>1, <1>3, <1>4, <1>5, <2>1, <2>2, AppendFits DEF h
<1>7. Append(q, LastState) \in Seq(Carried) /\ Coming(Append(q, LastState), guest.roster, h)
      /\ Fits(Append(q, LastState), guest.roster, guest.named, h, h)
  <2>1. LastState.seat <= h /\ LastState.seat # h
    <3>1. latest.seat <= seats /\ latest.seat \in Nat
      BY <1>1 DEF AbsenceHolds, Known
    <3> QED BY <1>2, <1>3, <3>1
  <2>2. h \in Seats
    BY <1>2
  <2> HIDE DEF q, h
  <2> QED BY <1>1, <1>3, <1>6, <2>1, <2>2, AppendFits
<1>8. frames' = IF ~linked THEN frames ELSE IF company THEN Append(q, LastState) ELSE q
  <2>1. frames' = IF ~linked THEN frames
                  ELSE frames \o IF company THEN <<f, LastState>> ELSE <<f>>
    BY DEF HostReturns, Joining, Sends
  <2>2. frames \o <<f>> = q /\ frames \o <<f, LastState>> = Append(q, LastState)
    <3> HIDE DEF f
    <3> QED BY <1>1, <1>3, Appended DEF q
  <2> QED BY <2>1, <2>2
<1>9. frames' \in Seq(Carried) /\ Fits(frames', guest.roster, guest.named, h, h)
      /\ (linked => Coming(frames', guest.roster, h))
  BY <1>1, <1>4, <1>6, <1>7, <1>8
<1>10. /\ hostAt' = h /\ seats' = h
       /\ UNCHANGED <<company, latest, spoken, blips, time, linked, due, guest, blinked>>
  BY DEF HostReturns
<1>11. AbsenceTypeOK'
  BY <1>2, <1>9, <1>10 DEF AbsenceHolds, AbsenceTypeOK
<1>12. hostAt' <= seats' /\ latest'.seat <= seats' /\ guest'.named <= seats'
  <2>1. /\ latest.seat <= seats /\ latest.seat \in Nat
        /\ guest.named <= seats /\ guest.named \in Nat
    BY <1>1 DEF AbsenceHolds, Known
  <2> QED BY <1>2, <1>10, <2>1
<1> QED BY <1>9, <1>10, <1>11, <1>12
      DEF AbsenceHolds, Known, Timed, ToldInTime, HostSeen, Carded, Counting

LEMMA HostPublishesKeeps == ASSUME AbsenceHolds, HostPublishes PROVE AbsenceHolds'
<1> USE SeatsAre
<1> DEFINE f == [kind |-> "state", edition |-> latest.edition + 1, seat |-> hostAt]
<1>1. f \in Carried /\ frames \in Seq(Carried) /\ guest.named \in Seats /\ seats \in Seats
      /\ hostAt \in Seats /\ linked \in BOOLEAN /\ latest.edition \in Nat
  BY DEF AbsenceHolds, AbsenceTypeOK, HostPublishes, HostSeated, Carried, Guest
<1>2. ASSUME linked
      PROVE  /\ Append(frames, f) \in Seq(Carried)
             /\ Fits(Append(frames, f), guest.roster, guest.named, hostAt, seats)
             /\ Coming(Append(frames, f), guest.roster, hostAt)
  <2>1. /\ f.kind = "state" /\ f.seat = hostAt /\ f.seat <= seats
        /\ Coming(frames, guest.roster, hostAt)
        /\ Fits(frames, guest.roster, guest.named, hostAt, seats)
    BY <1>1, <1>2 DEF AbsenceHolds, Known
  <2> HIDE DEF f
  <2> QED BY <1>1, <2>1, AppendFits
<1>4. frames' = IF linked THEN Append(frames, f) ELSE frames
  <2>1. frames \o <<f>> = Append(frames, f)
    <3> HIDE DEF f
    <3> QED BY <1>1, Appended
  <2> QED BY <2>1 DEF HostPublishes, Sends
<1>5. frames' \in Seq(Carried) /\ Fits(frames', guest.roster, guest.named, hostAt, seats)
      /\ (linked => Coming(frames', guest.roster, hostAt))
  BY <1>1, <1>2, <1>4 DEF AbsenceHolds, Known
<1>6. /\ spoken' = spoken + 1 /\ latest' = [edition |-> latest.edition + 1, seat |-> hostAt]
      /\ UNCHANGED <<hostAt, seats, company, blips, time, linked, due, guest, blinked>>
  BY DEF HostPublishes
<1>7. AbsenceTypeOK'
  BY <1>1, <1>5, <1>6 DEF AbsenceHolds, AbsenceTypeOK
<1>8. latest'.seat <= seats'
  BY <1>6 DEF AbsenceHolds, Known
<1> QED BY <1>5, <1>6, <1>7, <1>8 DEF AbsenceHolds, Known, Timed, ToldInTime, HostSeen, Carded, Counting

LEMMA FriendHoldsKeeps == ASSUME AbsenceHolds, FriendHolds PROVE AbsenceHolds'
<1> USE SeatsAre
<1> DEFINE f == [kind |-> "holds"]
<1>1. f \in Carried /\ frames \in Seq(Carried) /\ guest.named \in Seats /\ seats \in Seats
      /\ hostAt \in Seats \cup {0} /\ linked \in BOOLEAN
  BY DEF AbsenceHolds, AbsenceTypeOK, Carried, Guest
<1>2. /\ Append(frames, f) \in Seq(Carried)
      /\ Fits(Append(frames, f), guest.roster, guest.named, hostAt, seats)
      /\ Coming(frames, guest.roster, hostAt) => Coming(Append(frames, f), guest.roster, hostAt)
  <2>1. f.kind = "holds" /\ Fits(frames, guest.roster, guest.named, hostAt, seats)
    BY DEF AbsenceHolds, Known
  <2> HIDE DEF f
  <2> QED BY <1>1, <2>1, AppendFits
<1>4. frames' = IF linked THEN Append(frames, f) ELSE frames
  <2>1. frames \o <<f>> = Append(frames, f)
    <3> HIDE DEF f
    <3> QED BY <1>1, Appended
  <2> QED BY <2>1 DEF FriendHolds, Sends
<1>5. frames' \in Seq(Carried) /\ Fits(frames', guest.roster, guest.named, hostAt, seats)
      /\ (linked /\ hostAt # 0 => Coming(frames', guest.roster, hostAt))
  BY <1>1, <1>2, <1>4 DEF AbsenceHolds, Known
<1>6. /\ spoken' = spoken + 1
      /\ UNCHANGED <<hostAt, seats, company, latest, blips, time, linked, due, guest, blinked>>
  BY DEF FriendHolds
<1>7. AbsenceTypeOK'
  BY <1>1, <1>5, <1>6 DEF AbsenceHolds, AbsenceTypeOK
<1> QED BY <1>5, <1>6, <1>7 DEF AbsenceHolds, Known, Timed, ToldInTime, HostSeen, Carded, Counting

\* What a step has to show, of the next state.
LEMMA Assembled ==
    ASSUME AbsenceTypeOK', Timed(guest'), ToldInTime(guest'), Carded(guest', linked', blinked'),
           hostAt' <= seats', latest'.seat <= seats', guest'.named <= seats',
           Fits(frames', guest'.roster, guest'.named, hostAt', seats'),
           linked' /\ hostAt' # 0 => Coming(frames', guest'.roster, hostAt')
    PROVE  AbsenceHolds'
BY DEF AbsenceHolds, Known, Timed, ToldInTime, HostSeen, Carded, Counting, Fits, Coming

\* A card that is painted over changes nothing else.
LEMMA CardPainted ==
    ASSUME NEW s \in Guest, NEW c \in Card
    PROVE  LET t == [s EXCEPT !.card = c] IN
           /\ t \in Guest /\ t.card = c
           /\ t.roster = s.roster /\ t.named = s.named /\ t.grace = s.grace /\ t.over = s.over
           /\ Timed(s) => Timed(t)
           /\ ToldInTime(s) => ToldInTime(t)
<1> DEFINE t == [s EXCEPT !.card = c]
<1>1. /\ t \in Guest /\ t.card = c /\ t.age = s.age
      /\ t.roster = s.roster /\ t.named = s.named /\ t.grace = s.grace /\ t.over = s.over
  BY DEF Guest
<1> QED BY <1>1 DEF Timed, ToldInTime, HostSeen

LEMMA DrainInboxKeeps == ASSUME AbsenceHolds, DrainInbox PROVE AbsenceHolds'
<1> DEFINE f == Head(frames)
           s == ProcessFrame(guest, f)
           u == IF Tail(frames) = <<>> THEN Reports(s) ELSE s
           ex == blinked /\ guest.grace /\ s.grace
<1>1. /\ frames \in Seq(Carried) /\ frames # <<>> /\ f = frames[1] /\ 1 \in 1..Len(frames)
      /\ f \in Carried /\ guest \in Guest /\ linked \in BOOLEAN /\ blinked \in BOOLEAN
      /\ seats \in Seats /\ guest' = u /\ frames' = Tail(frames)
      /\ blinked' = (blinked /\ guest.grace /\ u.grace)
      /\ UNCHANGED <<hostAt, seats, company, latest, spoken, blips, time, linked, due>>
  BY DEF AbsenceHolds, AbsenceTypeOK, DrainInbox, Blinks
<1>2. /\ f.kind = "joined" => f.seat # guest.named
      /\ f.kind = "left" => f.seat # hostAt
      /\ f.kind # "holds" => f.seat <= seats
  BY <1>1 DEF AbsenceHolds, Known, Fits
<1>3. /\ s \in Guest /\ Timed(s) /\ ToldInTime(s) /\ s.over = guest.over
      /\ Carded(s, linked, ex)
      /\ \A h : h \in guest.roster /\ (f.kind = "left" => f.seat # h) => h \in s.roster
      /\ \A h : f = Joining(h) => h \in s.roster
      /\ s.named = guest.named \/ (f.kind = "state" /\ s.named = f.seat)
  BY <1>1, <1>2, ProcessKeeps DEF AbsenceHolds, Known
<1>4. /\ Tail(frames) \in Seq(Carried) /\ Fits(Tail(frames), s.roster, s.named, hostAt, seats)
      /\ Coming(frames, guest.roster, hostAt) => Coming(Tail(frames), s.roster, hostAt)
  <2> HIDE DEF s
  <2> QED BY <1>1, <1>2, <1>3, TailFits DEF AbsenceHolds, Known
<1>5. ex \in BOOLEAN
  BY <1>1, <1>3 DEF Guest
<1> HIDE DEF f, s
<1>6. /\ u \in Guest /\ u.roster = s.roster /\ u.named = s.named /\ Timed(u) /\ ToldInTime(u)
      /\ Carded(u, linked, blinked /\ guest.grace /\ u.grace)
  <2>1. CASE u = s
    BY <1>3, <2>1
  <2>2. CASE u = Reports(s)
    <3> DEFINE ux == ex /\ s.grace /\ u.grace
    <3>1. /\ u \in Guest /\ \A x \in {"roster", "named", "age", "over"} : u[x] = s[x]
          /\ Timed(u) /\ ToldInTime(u) /\ Carded(u, linked, ux)
      <4> HIDE DEF u, ex
      <4> QED BY <1>1, <1>3, <1>5, <2>2, ReportsKeep
    <3>2. ux => blinked /\ guest.grace /\ u.grace
      OBVIOUS
    <3> HIDE DEF u, ux, ex
    <3>3. Carded(u, linked, blinked /\ guest.grace /\ u.grace)
      BY <3>1, <3>2 DEF Carded
    <3> QED BY <3>1, <3>3
  <2> QED BY <2>1, <2>2
<1>7. s.named <= seats
  BY <1>2, <1>3 DEF AbsenceHolds, Known
<1>8. AbsenceTypeOK'
  <2>1. blinked' \in BOOLEAN
    BY <1>1
  <2> HIDE DEF u
  <2> QED BY <1>1, <1>4, <1>6, <2>1 DEF AbsenceHolds, AbsenceTypeOK
<1> HIDE DEF u
<1>9. /\ Timed(guest') /\ ToldInTime(guest') /\ Carded(guest', linked', blinked')
      /\ guest'.roster = s.roster /\ guest'.named = s.named
  BY <1>1, <1>6
<1>10. linked' /\ hostAt' # 0 => Coming(frames', guest'.roster, hostAt')
  BY <1>1, <1>4, <1>9 DEF AbsenceHolds, Known
<1>11. hostAt' <= seats' /\ latest'.seat <= seats' /\ guest'.named <= seats'
  BY <1>1, <1>7, <1>9 DEF AbsenceHolds, Known
<1>12. Fits(frames', guest'.roster, guest'.named, hostAt', seats')
  BY <1>1, <1>4, <1>9
<1> QED BY <1>8, <1>9, <1>10, <1>11, <1>12, Assembled

LEMMA TickKeeps == ASSUME AbsenceHolds, Tick PROVE AbsenceHolds'
<1> DEFINE r == [guest EXCEPT !.holds = @ /\ guest.lease > 0]
           s == RefreshHostAway(r, FALSE)
           u == IF s.age = Expire THEN Over(s) ELSE Reports(s)
<1>1. /\ guest \in Guest /\ linked \in BOOLEAN /\ blinked \in BOOLEAN
      /\ guest' = u /\ due' = FALSE /\ blinked' = (blinked /\ guest.grace /\ u.grace)
      /\ UNCHANGED <<hostAt, seats, company, latest, spoken, blips, time, linked, frames>>
  BY DEF AbsenceHolds, AbsenceTypeOK, Tick, Blinks
<1>2. /\ r \in Guest /\ r.roster = guest.roster /\ r.named = guest.named /\ r.age = guest.age
      /\ r.grace = guest.grace /\ r.card = guest.card /\ r.over = guest.over
  BY <1>1 DEF Guest
<1>3. ToldInTime(r) /\ (HostSeen(r) => ~r.grace)
  BY <1>2 DEF AbsenceHolds, Known, Timed, ToldInTime, HostSeen
<1>4. s \in Guest /\ Timed(s) /\ ToldInTime(s) /\ s.card = guest.card
      /\ \A x \in Fields \ {"age"} : s[x] = r[x]
  <2> HIDE DEF r
  <2> QED BY <1>2, <1>3, ClockIs
<1> HIDE DEF s, r
<1>5. s.roster = guest.roster /\ s.named = guest.named /\ s.grace = guest.grace /\ s.over = guest.over
  BY <1>2, <1>4 DEF Fields
<1>6. Carded(s, linked, blinked)
  BY <1>4, <1>5 DEF AbsenceHolds, Known, Carded, Counting
<1>7. /\ u \in Guest /\ u.roster = s.roster /\ u.named = s.named /\ Timed(u) /\ ToldInTime(u)
      /\ Carded(u, linked, blinked /\ guest.grace /\ u.grace)
  <2>1. CASE u = Reports(s)
    <3> HIDE DEF u
    <3>1. /\ u \in Guest /\ \A x \in {"roster", "named", "age", "over"} : u[x] = s[x]
          /\ Timed(u) /\ ToldInTime(u) /\ Carded(u, linked, blinked /\ s.grace /\ u.grace)
      BY <1>1, <1>4, <1>6, <2>1, ReportsKeep
    <3> QED BY <1>5, <3>1
  <2>2. CASE u = Over(s)
    <3> DEFINE c == Clear(s.card)
               d == Health(c, "ok")
    <3>1. s.card \in Card
      BY <1>4 DEF Guest
    <3>2. c \in Card /\ c.mode = "none" /\ c.timers = {}
      BY <3>1, CardSteps
    <3>3. d \in Card /\ d.mode = "none" /\ d.timers = {}
      <4> HIDE DEF c
      <4> QED BY <3>2, CardSteps
    <3> HIDE DEF d
    <3>4. u = [s EXCEPT !.over = TRUE, !.card = d]
      BY <2>2 DEF Over, d
    <3> HIDE DEF u
    <3>5. /\ u \in Guest /\ u.card = d /\ u.over /\ u.age = s.age
          /\ u.roster = s.roster /\ u.named = s.named /\ u.grace = s.grace
      BY <1>4, <3>3, <3>4 DEF Guest
    <3>6. Timed(u) /\ ToldInTime(u)
      BY <1>4, <3>5 DEF Timed, ToldInTime, HostSeen
    <3> QED BY <3>3, <3>5, <3>6 DEF Carded, Counting
  <2> QED BY <2>1, <2>2
<1> HIDE DEF u
<1>8. AbsenceTypeOK'
  <2>1. blinked' \in BOOLEAN
    BY <1>1, <1>7 DEF Guest
  <2> QED BY <1>1, <1>7, <2>1 DEF AbsenceHolds, AbsenceTypeOK
<1>9. /\ Timed(guest') /\ ToldInTime(guest') /\ Carded(guest', linked', blinked')
      /\ guest'.roster = guest.roster /\ guest'.named = guest.named
  BY <1>1, <1>5, <1>7
<1>10. /\ hostAt' <= seats' /\ latest'.seat <= seats' /\ guest'.named <= seats'
       /\ Fits(frames', guest'.roster, guest'.named, hostAt', seats')
       /\ linked' /\ hostAt' # 0 => Coming(frames', guest'.roster, hostAt')
  BY <1>1, <1>9 DEF AbsenceHolds, Known
<1> QED BY <1>8, <1>9, <1>10, Assembled

\* A line that is down says so over any sentence, and takes its timer with it.
LEMMA ReconnectingKeeps ==
    ASSUME NEW s \in Guest, Timed(s), ToldInTime(s)
    PROVE  LET t == Told(s, [kind |-> "reconnecting"]) IN
           /\ t \in Guest /\ Timed(t) /\ ToldInTime(t) /\ Carded(t, FALSE, TRUE)
           /\ t.roster = s.roster /\ t.named = s.named
<1> DEFINE c == Paint(s.card, "dropped")
           d == Health(c, "reconnecting")
           t == Told(s, [kind |-> "reconnecting"])
<1>1. s.card \in Card
  BY DEF Guest
<1>2. c \in Card /\ c.mode = "dropped" /\ c.timers = {}
  BY <1>1, Painted
<1>3. d \in Card /\ d.mode = "dropped" /\ d.timers = {}
  <2> HIDE DEF c
  <2> QED BY <1>2, CardSteps
<1>4. t = [s EXCEPT !.card = d]
  BY DEF Told, OnNotice
<1> HIDE DEF d, t
<1>5. /\ t \in Guest /\ t.card = d /\ Timed(t) /\ ToldInTime(t)
      /\ t.roster = s.roster /\ t.named = s.named
  BY <1>3, <1>4, CardPainted
<1>6. Carded(t, FALSE, TRUE)
  BY <1>3, <1>5 DEF Carded, Counting
<1> QED BY <1>5, <1>6 DEF t

LEMMA SocketDropsKeeps == ASSUME AbsenceHolds, SocketDrops PROVE AbsenceHolds'
<1> DEFINE t == Told(guest, [kind |-> "reconnecting"])
<1>1. /\ guest \in Guest /\ frames \in Seq(Carried) /\ blips \in Nat
      /\ guest' = t /\ linked' = FALSE /\ blinked' = TRUE /\ blips' = blips + 1
      /\ UNCHANGED <<hostAt, seats, company, latest, spoken, time, due>>
  BY DEF AbsenceHolds, AbsenceTypeOK, SocketDrops
<1>2. /\ t \in Guest /\ Timed(t) /\ ToldInTime(t) /\ Carded(t, FALSE, TRUE)
      /\ t.roster = guest.roster /\ t.named = guest.named
  BY <1>1, ReconnectingKeeps DEF AbsenceHolds, Known
<1> HIDE DEF t
<1>3. PICK k \in 0..Len(frames) : frames' = SubSeq(frames, 1, k)
  BY DEF SocketDrops
<1>4. frames' \in Seq(Carried) /\ Fits(frames', guest.roster, guest.named, hostAt, seats)
  BY <1>1, <1>3, PrefixFits DEF AbsenceHolds, Known
<1>5. AbsenceTypeOK'
  <2>1. guest' \in Guest /\ linked' \in BOOLEAN /\ blinked' \in BOOLEAN /\ blips' \in Nat
    <3>1. guest' = t /\ t \in Guest
      BY <1>1, <1>2
    <3>2. linked' \in BOOLEAN /\ blinked' \in BOOLEAN
      BY <1>1
    <3>3. blips' \in Nat
      BY <1>1
    <3> QED BY <3>1, <3>2, <3>3
  <2>2. UNCHANGED <<hostAt, seats, company, latest, spoken, time, due>>
    BY <1>1
  <2>3. AbsenceTypeOK
    BY DEF AbsenceHolds
  <2> QED BY <1>4, <2>1, <2>2, <2>3 DEF AbsenceTypeOK
<1>6. hostAt' <= seats' /\ latest'.seat <= seats' /\ guest'.named <= seats'
  BY <1>1, <1>2 DEF AbsenceHolds, Known
<1>7. /\ Timed(guest') /\ ToldInTime(guest') /\ Carded(guest', linked', blinked')
      /\ guest'.roster = guest.roster /\ guest'.named = guest.named /\ ~linked'
  BY <1>1, <1>2
<1>8. Fits(frames', guest'.roster, guest'.named, hostAt', seats')
  BY <1>1, <1>4, <1>7
<1> QED BY <1>5, <1>6, <1>7, <1>8, Assembled

LEMMA RetryFailsKeeps == ASSUME AbsenceHolds, RetryFails PROVE AbsenceHolds'
<1> DEFINE t == Told(guest, [kind |-> "reconnecting"])
<1>1. /\ guest \in Guest /\ blips \in Nat /\ ~linked
      /\ guest' = t /\ linked' = FALSE /\ blinked' = TRUE /\ blips' = blips + 1
      /\ UNCHANGED <<hostAt, seats, company, latest, spoken, time, frames, due>>
  BY DEF AbsenceHolds, AbsenceTypeOK, RetryFails
<1>2. /\ t \in Guest /\ Timed(t) /\ ToldInTime(t) /\ Carded(t, FALSE, TRUE)
      /\ t.roster = guest.roster /\ t.named = guest.named
  BY <1>1, ReconnectingKeeps DEF AbsenceHolds, Known
<1> HIDE DEF t
<1>3. AbsenceTypeOK'
  <2>1. guest' \in Guest /\ linked' \in BOOLEAN /\ blinked' \in BOOLEAN /\ blips' \in Nat
    <3>1. guest' = t /\ t \in Guest
      BY <1>1, <1>2
    <3>2. linked' \in BOOLEAN /\ blinked' \in BOOLEAN
      BY <1>1
    <3>3. blips' \in Nat
      BY <1>1
    <3> QED BY <3>1, <3>2, <3>3
  <2>2. UNCHANGED <<hostAt, seats, company, latest, spoken, time, frames, due>>
    BY <1>1
  <2>3. AbsenceTypeOK
    BY DEF AbsenceHolds
  <2> QED BY <2>1, <2>2, <2>3 DEF AbsenceTypeOK
<1>4. /\ hostAt' <= seats' /\ latest'.seat <= seats' /\ guest'.named <= seats'
      /\ Fits(frames', guest'.roster, guest'.named, hostAt', seats')
  BY <1>1, <1>2 DEF AbsenceHolds, Known
<1>5. Timed(guest') /\ ToldInTime(guest') /\ Carded(guest', linked', blinked') /\ ~linked'
  BY <1>1, <1>2
<1> QED BY <1>3, <1>4, <1>5, Assembled

LEMMA CountdownEndsKeeps == ASSUME AbsenceHolds, CountdownEnds PROVE AbsenceHolds'
<1> DEFINE c == Paint(guest.card, "ended")
           t == [guest EXCEPT !.card = c]
<1>1. /\ guest \in Guest /\ guest.card \in Card /\ "count" \in guest.card.timers /\ guest' = t
      /\ UNCHANGED <<hostAt, seats, company, latest, spoken, blips, time, linked, frames, due,
                     blinked>>
  BY DEF AbsenceHolds, AbsenceTypeOK, CountdownEnds, Guest
<1>2. c \in Card /\ c.mode = "ended" /\ c.timers = {}
  BY <1>1, Painted
<1> HIDE DEF c
<1>3. /\ t \in Guest /\ t.card = c /\ Timed(t) /\ ToldInTime(t)
      /\ t.roster = guest.roster /\ t.named = guest.named
      /\ t.grace = guest.grace /\ t.over = guest.over
  BY <1>1, <1>2, CardPainted DEF AbsenceHolds, Known
<1> HIDE DEF t
<1>4. Carded(t, linked, blinked)
  BY <1>1, <1>2, <1>3 DEF AbsenceHolds, Known, Carded, Counting
<1>5. AbsenceTypeOK'
  BY <1>1, <1>3 DEF AbsenceHolds, AbsenceTypeOK
<1>6. /\ hostAt' <= seats' /\ latest'.seat <= seats' /\ guest'.named <= seats'
      /\ Fits(frames', guest'.roster, guest'.named, hostAt', seats')
      /\ linked' /\ hostAt' # 0 => Coming(frames', guest'.roster, hostAt')
  BY <1>1, <1>3 DEF AbsenceHolds, Known
<1>7. Timed(guest') /\ ToldInTime(guest') /\ Carded(guest', linked', blinked')
  BY <1>1, <1>3, <1>4
<1> QED BY <1>5, <1>6, <1>7, Assembled

LEMMA StandEndsKeeps == ASSUME AbsenceHolds, StandEnds PROVE AbsenceHolds'
<1> DEFINE c == Clear(guest.card)
           t == [guest EXCEPT !.card = c]
<1>1. /\ guest \in Guest /\ guest.card \in Card /\ "stand" \in guest.card.timers /\ guest' = t
      /\ UNCHANGED <<hostAt, seats, company, latest, spoken, blips, time, linked, frames, due,
                     blinked>>
  BY DEF AbsenceHolds, AbsenceTypeOK, StandEnds, Guest
<1>2. c \in Card /\ c.mode = "none" /\ c.timers = {}
  BY <1>1, CardSteps
<1> HIDE DEF c
<1>3. /\ t \in Guest /\ t.card = c /\ Timed(t) /\ ToldInTime(t)
      /\ t.roster = guest.roster /\ t.named = guest.named
      /\ t.grace = guest.grace /\ t.over = guest.over
  BY <1>1, <1>2, CardPainted DEF AbsenceHolds, Known
<1> HIDE DEF t
<1>4. ~guest.grace
  BY <1>1 DEF AbsenceHolds, Known, Carded
<1>5. Carded(t, linked, blinked)
  BY <1>2, <1>3, <1>4 DEF Carded, Counting
<1>6. AbsenceTypeOK'
  BY <1>1, <1>3 DEF AbsenceHolds, AbsenceTypeOK
<1>7. /\ hostAt' <= seats' /\ latest'.seat <= seats' /\ guest'.named <= seats'
      /\ Fits(frames', guest'.roster, guest'.named, hostAt', seats')
      /\ linked' /\ hostAt' # 0 => Coming(frames', guest'.roster, hostAt')
  BY <1>1, <1>3 DEF AbsenceHolds, Known
<1>8. Timed(guest') /\ ToldInTime(guest') /\ Carded(guest', linked', blinked')
  BY <1>1, <1>3, <1>5
<1> QED BY <1>6, <1>7, <1>8, Assembled

LEMMA ElapseKeeps == ASSUME AbsenceHolds, Elapse PROVE AbsenceHolds'
<1> DEFINE a == IF guest.age \in {Off, Expire} THEN guest.age ELSE guest.age + 1
           c == [guest.card EXCEPT !.left = Less(@)]
           t == guest'
<1>1. /\ guest \in Guest /\ guest.card \in Card /\ guest.age \in 0..Off /\ guest.lease \in 0..Expire
      /\ time \in Nat /\ time' = time + 1 /\ due' = TRUE
      /\ guest' = [guest EXCEPT !.age = a, !.lease = Less(@), !.card = c]
      /\ UNCHANGED <<hostAt, seats, company, latest, spoken, blips, linked, frames, blinked>>
  <2>1. guest \in Guest /\ time \in Nat
    BY DEF AbsenceHolds, AbsenceTypeOK
  <2>2. guest.card \in Card /\ guest.age \in 0..Off /\ guest.lease \in 0..Expire
    BY <2>1 DEF Guest
  <2>3. /\ time' = time + 1 /\ due' = TRUE
        /\ UNCHANGED <<hostAt, seats, company, latest, spoken, blips, linked, frames, blinked>>
        /\ guest' = [guest EXCEPT !.age = IF @ \in {Off, Expire} THEN @ ELSE @ + 1, !.lease = Less(@),
                                  !.card.left = Less(@)]
    BY DEF Elapse
  <2>4. guest' = [guest EXCEPT !.age = a, !.lease = Less(@), !.card = c]
    BY Zenon, <2>3
  <2> QED BY <2>1, <2>2, <2>3, <2>4
<1>2. a \in 0..Off /\ (a = Off <=> guest.age = Off) /\ Less(guest.lease) \in 0..Expire
  <2>1. a \in 0..Off /\ (a = Off <=> guest.age = Off)
    BY <1>1, BoundsAssumption DEF Off
  <2>2. Less(guest.lease) \in 0..Expire
    BY <1>1, BoundsAssumption DEF Less
  <2> QED BY <2>1, <2>2
<1>3. c \in Card /\ c.mode = guest.card.mode /\ c.timers = guest.card.timers
  BY <1>1 DEF Card, Less
<1> HIDE DEF a, c
<1>4. /\ t \in Guest /\ t.card = c /\ t.age = a /\ t.roster = guest.roster /\ t.named = guest.named
      /\ t.grace = guest.grace /\ t.over = guest.over
  BY <1>1, <1>2, <1>3 DEF Guest
<1>5. Timed(t) /\ ToldInTime(t)
  BY <1>2, <1>4 DEF AbsenceHolds, Known, Timed, ToldInTime, HostSeen
<1>6. Carded(t, linked', blinked')
  BY <1>1, <1>3, <1>4 DEF AbsenceHolds, Known, Carded, Counting
<1>7. AbsenceTypeOK'
  BY <1>1, <1>4 DEF AbsenceHolds, AbsenceTypeOK
<1>8. /\ hostAt' <= seats' /\ latest'.seat <= seats' /\ guest'.named <= seats'
      /\ Fits(frames', guest'.roster, guest'.named, hostAt', seats')
      /\ linked' /\ hostAt' # 0 => Coming(frames', guest'.roster, hostAt')
  BY <1>1, <1>4 DEF AbsenceHolds, Known
<1> QED BY <1>5, <1>6, <1>7, <1>8, Assembled

\* The room as it is holds the host, if there is one, and nobody the guest has not heard of
\* under the seat its state names.
LEMMA RoomIsKnown ==
    ASSUME AbsenceHolds, SeatedAgain
    PROVE  LET s == [guest EXCEPT !.roster = Room] IN
           /\ s \in Guest /\ s.roster = Room /\ s.named = guest.named /\ s.grace = guest.grace
           /\ s.over = guest.over /\ s.card = guest.card
           /\ Timed(s) /\ ToldInTime(s) /\ Weakly(s, FALSE)
           /\ hostAt # 0 => hostAt \in Room
           /\ hostAt \in guest.roster => hostAt \in Room
<1> USE SeatsAre
<1> DEFINE s == [guest EXCEPT !.roster = Room]
<1>1. guest \in Guest /\ guest.named \in Seats /\ hostAt \in Seats \cup {0} /\ ~linked
      /\ guest.roster \in SUBSET (Seats \cup {Friend})
  BY DEF AbsenceHolds, AbsenceTypeOK, Guest, SeatedAgain
<1>2. Room \in SUBSET (Seats \cup {Friend}) /\ (hostAt # 0 => hostAt \in Room)
  BY <1>1 DEF Room, HostSeated
<1>3. hostAt \in guest.roster => hostAt \in Room
  <2>1. 0 # Friend
    BY BoundsAssumption DEF Friend
  <2> QED BY <1>1, <1>2, <2>1
<1>4. guest.named \in Room => HostSeen(guest)
  <2>1. guest.named \in Room => guest.named = hostAt
    BY <1>1 DEF Room, HostSeated
  <2> QED BY <2>1 DEF AbsenceHolds, Known, Fits, HostSeen
<1>5. /\ s \in Guest /\ s.roster = Room /\ s.named = guest.named /\ s.grace = guest.grace
      /\ s.over = guest.over /\ s.card = guest.card /\ s.age = guest.age
  BY <1>1, <1>2 DEF Guest
<1> HIDE DEF s
<1>6. Timed(s) /\ ToldInTime(s) /\ Weakly(s, FALSE)
  <2>1. Timed(s) /\ ToldInTime(s)
    BY <1>4, <1>5 DEF AbsenceHolds, Known, Timed, ToldInTime, HostSeen
  <2>2. Weakly(s, FALSE)
    BY <1>5 DEF AbsenceHolds, Known, Carded, Weakly, Counting
  <2> QED BY <2>1, <2>2
<1> QED BY <1>2, <1>3, <1>5, <1>6 DEF s

\* The forced reports of a new seat take the dropped line down, and no countdown.
LEMMA ForcedKeep ==
    ASSUME AbsenceHolds, SeatedAgain
    PROVE  LET s == [guest EXCEPT !.roster = Room]
               t == [Told(Told(s, Documents), Membership(s)) EXCEPT
                        !.people = PeerInfos(s), !.documents = s.holds]
           IN  /\ t \in Guest /\ t.roster = Room /\ t.named = guest.named
               /\ t.grace = guest.grace /\ t.over = guest.over
               /\ Timed(t) /\ ToldInTime(t) /\ Carded(t, TRUE, blinked)
<1> DEFINE s == [guest EXCEPT !.roster = Room]
           d == Told(s, Documents)
           m == Told(d, Membership(s))
           t == [m EXCEPT !.people = PeerInfos(s), !.documents = s.holds]
<1>1. /\ s \in Guest /\ s.roster = Room /\ s.named = guest.named /\ s.grace = guest.grace
      /\ s.over = guest.over /\ s.card = guest.card
      /\ Timed(s) /\ ToldInTime(s) /\ Weakly(s, FALSE)
  BY RoomIsKnown
<1> HIDE DEF s
<1>2. /\ CardOnly(d, s) /\ Weakly(d, TRUE)
      /\ ~HostSeen(s) /\ Counting(s) => Counting(d)
  BY <1>1, RosterKeeps
<1> HIDE DEF d
<1>3. d \in Guest /\ Weakly(d, FALSE) /\ HostSeen(d) = HostSeen(s)
  BY <1>2 DEF CardOnly, Fields, Weakly, HostSeen
<1>4. /\ CardOnly(m, d) /\ Weakly(m, TRUE)
      /\ ~HostSeen(d) /\ Counting(d) => Counting(m)
  <2>1. Membership(s) = Membership(d)
    BY <1>3 DEF Membership
  <2> QED BY <1>3, <2>1, RosterKeeps
<1> HIDE DEF m
<1>5. /\ m \in Guest /\ m.roster = s.roster /\ m.named = s.named /\ m.grace = s.grace
      /\ m.over = s.over /\ m.age = s.age
  BY <1>2, <1>4 DEF CardOnly, Fields
<1>6. PeerInfos(s) \in UNION {[r -> BOOLEAN] : r \in SUBSET (Seats \cup {Friend})}
      /\ s.holds \in BOOLEAN
  BY <1>1 DEF PeerInfos, Guest
<1>7. /\ t \in Guest /\ t.roster = s.roster /\ t.named = s.named /\ t.grace = s.grace
      /\ t.over = s.over /\ t.age = s.age /\ t.card = m.card
  BY <1>5, <1>6 DEF Guest
<1> HIDE DEF t
<1>8. Timed(t) /\ ToldInTime(t)
  BY <1>1, <1>7 DEF Timed, ToldInTime, HostSeen
<1>9. Weakly(t, TRUE)
  BY <1>4, <1>5, <1>7 DEF Weakly, Counting
<1>10. t.grace /\ ~blinked /\ ~t.over => Counting(t)
  <2> SUFFICES ASSUME t.grace, ~blinked, ~t.over PROVE Counting(t)
    OBVIOUS
  <2>1. Counting(guest)
    BY <1>1, <1>7 DEF AbsenceHolds, Known, Carded
  <2>2. ~HostSeen(s)
    BY <1>1, <1>7 DEF Timed, ToldInTime
  <2> QED BY <1>1, <1>2, <1>3, <1>4, <1>7, <2>1, <2>2 DEF Counting
<1>11. Carded(t, TRUE, blinked)
  BY <1>9, <1>10 DEF Carded, Weakly
<1> QED BY <1>1, <1>7, <1>8, <1>11 DEF t, m, d, s

LEMMA SeatedAgainKeeps == ASSUME AbsenceHolds, SeatedAgain PROVE AbsenceHolds'
<1> DEFINE s == [guest EXCEPT !.roster = Room]
           t == [Told(Told(s, Documents), Membership(s)) EXCEPT
                    !.people = PeerInfos(s), !.documents = s.holds]
           u == IF frames = <<>> THEN Reports(t) ELSE t
<1>1. /\ guest' = u /\ due' = TRUE
      /\ frames' = frames \o IF company /\ ~HostSeated THEN <<LastState>> ELSE <<>>
      /\ UNCHANGED <<hostAt, seats, company, latest, spoken, blips, time>>
  BY DEF SeatedAgain
<1>2. linked' /\ linked' \in BOOLEAN /\ linked' = TRUE
  BY DEF SeatedAgain
<1>3. blinked' = (blinked /\ guest.grace /\ u.grace)
  BY <1>1 DEF SeatedAgain, Blinks
<1>4. /\ t \in Guest /\ t.roster = Room /\ t.named = guest.named
      /\ t.grace = guest.grace /\ t.over = guest.over
      /\ Timed(t) /\ ToldInTime(t) /\ Carded(t, TRUE, blinked)
  BY ForcedKeep
<1>5. /\ frames \in Seq(Carried) /\ guest.named \in Seats /\ hostAt \in Seats \cup {0}
      /\ seats \in Seats /\ latest \in [edition : Nat, seat : Seats] /\ blinked \in BOOLEAN
  BY DEF AbsenceHolds, AbsenceTypeOK, Guest
<1> HIDE DEF t
<1>6. /\ u \in Guest /\ u.roster = Room /\ u.named = guest.named /\ Timed(u) /\ ToldInTime(u)
      /\ Carded(u, TRUE, blinked /\ guest.grace /\ u.grace)
  <2>1. CASE u = t
    <3>1. t.grace \in BOOLEAN
      BY <1>4 DEF Guest
    <3> HIDE DEF u
    <3> QED BY <1>4, <2>1, <3>1 DEF Carded, Counting
  <2>2. CASE u = Reports(t)
    <3> HIDE DEF u
    <3>1. /\ u \in Guest /\ \A x \in {"roster", "named", "age", "over"} : u[x] = t[x]
          /\ Timed(u) /\ ToldInTime(u) /\ Carded(u, TRUE, blinked /\ t.grace /\ u.grace)
      <4> DEFINE isOpen == TRUE
      <4>1. isOpen \in BOOLEAN /\ Carded(t, isOpen, blinked)
        BY <1>4
      <4> HIDE DEF isOpen
      <4>2. /\ u \in Guest /\ \A x \in {"roster", "named", "age", "over"} : u[x] = t[x]
            /\ Timed(u) /\ ToldInTime(u) /\ Carded(u, isOpen, blinked /\ t.grace /\ u.grace)
        BY <1>4, <1>5, <2>2, <4>1, ReportsKeep
      <4> QED BY <4>2 DEF isOpen
    <3> QED BY <1>4, <3>1
  <2> QED BY <2>1, <2>2
<1> HIDE DEF u
<1>7. Fits(frames, Room, guest.named, hostAt, seats)
  <2>1. /\ Fits(frames, guest.roster, guest.named, hostAt, seats) /\ guest.named <= seats
        /\ hostAt \in guest.roster => hostAt \in Room
    BY RoomIsKnown DEF AbsenceHolds, Known
  <2> QED BY <1>5, <2>1, OtherHost
<1>8. frames' \in Seq(Carried) /\ Fits(frames', Room, guest.named, hostAt, seats)
  <2>1. LastState \in Carried /\ LastState.kind = "state" /\ LastState.seat = latest.seat
    BY <1>5 DEF Carried, LastState
  <2>2. frames \o <<LastState>> = Append(frames, LastState) /\ frames \o <<>> = frames
    BY <1>5, <2>1, Appended
  <2>3. CASE company /\ ~HostSeated
    <3>1. LastState.seat <= seats /\ LastState.seat # hostAt
      BY <1>5, <2>1, <2>3, SeatsAre DEF AbsenceHolds, Known, HostSeated
    <3>2. /\ Append(frames, LastState) \in Seq(Carried)
          /\ Fits(Append(frames, LastState), Room, guest.named, hostAt, seats)
      BY <1>5, <1>7, <2>1, <3>1, AppendFits
    <3> QED BY <1>1, <2>2, <2>3, <3>2
  <2>4. CASE ~(company /\ ~HostSeated)
    BY <1>1, <1>5, <1>7, <2>2, <2>4
  <2> QED BY <2>3, <2>4
<1>9. AbsenceTypeOK'
  <2>1. blinked' \in BOOLEAN /\ due' \in BOOLEAN /\ guest' \in Guest
    <3>1. u.grace \in BOOLEAN /\ guest.grace \in BOOLEAN
      BY <1>6 DEF AbsenceHolds, AbsenceTypeOK, Guest
    <3> QED BY <1>1, <1>3, <1>6, <3>1
  <2>2. UNCHANGED <<hostAt, seats, company, latest, spoken, blips, time>>
    BY <1>1
  <2> QED BY <1>2, <1>8, <2>1, <2>2 DEF AbsenceHolds, AbsenceTypeOK
<1>10. Timed(guest') /\ ToldInTime(guest') /\ Carded(guest', linked', blinked')
       /\ guest'.roster = Room /\ guest'.named = guest.named
  BY <1>1, <1>2, <1>3, <1>6
<1>11. hostAt' <= seats' /\ latest'.seat <= seats' /\ guest'.named <= seats'
  BY <1>1, <1>10 DEF AbsenceHolds, Known
<1>12. Fits(frames', guest'.roster, guest'.named, hostAt', seats')
  BY <1>1, <1>8, <1>10
<1>13. linked' /\ hostAt' # 0 => Coming(frames', guest'.roster, hostAt')
  BY <1>1, <1>10, RoomIsKnown DEF Coming
<1> QED BY <1>9, <1>10, <1>11, <1>12, <1>13, Assembled

LEMMA AbsenceStarts == ASSUME AbsenceInit PROVE AbsenceHolds
<1> USE SeatsAre
<1>1. /\ hostAt = 1 /\ seats = 1 /\ company \in BOOLEAN /\ latest = [edition |-> 1, seat |-> 1]
      /\ spoken = 0 /\ blips = 0 /\ time = 0
      /\ linked \in BOOLEAN /\ frames = <<>> /\ due = FALSE /\ blinked \in BOOLEAN
  BY DEF AbsenceInit
<1> DEFINE here == {1} \cup IF company THEN {Friend} ELSE {}
           people == [x \in here |-> x = 1]
           card == [mode |-> "none", left |-> 0, timers |-> {}, health |-> "ok"]
<1>2. guest = [roster |-> here, named |-> 1, issued |-> 1, age |-> Off,
               holds |-> FALSE, lease |-> 0, lastPeers |-> here, lastOpen |-> FALSE,
               people |-> people, documents |-> FALSE, grace |-> FALSE,
               card |-> card, over |-> FALSE]
  BY DEF AbsenceInit
<1>3. here \in SUBSET (Seats \cup {Friend}) /\ 1 \in here
  OBVIOUS
<1>4. people \in UNION {[r -> BOOLEAN] : r \in SUBSET (Seats \cup {Friend})}
  <2> HIDE DEF here
  <2>1. people \in [here -> BOOLEAN]
    OBVIOUS
  <2> HIDE DEF people
  <2> QED BY <1>3, <2>1
<1>5. card \in Card
  BY DEF Card
<1> HIDE DEF here, people, card
<1>6. guest \in Guest
  BY <1>2, <1>3, <1>4, <1>5 DEF Guest
<1>7. AbsenceTypeOK
  <2>1. latest \in [edition : Nat, seat : Seats]
    BY <1>1
  <2>2. frames \in Seq(Carried)
    BY <1>1
  <2>3. hostAt \in Seats \cup {0} /\ seats \in Seats /\ due \in BOOLEAN
    BY <1>1
  <2>4. spoken \in Nat /\ blips \in Nat /\ time \in Nat
    BY <1>1
  <2> QED BY <1>1, <1>6, <2>1, <2>2, <2>3, <2>4 DEF AbsenceTypeOK
<1>8. Timed(guest) /\ ToldInTime(guest) /\ Carded(guest, linked, blinked)
  BY <1>2 DEF Timed, ToldInTime, Carded, Counting, card
<1>9. Fits(frames, guest.roster, guest.named, hostAt, seats) /\ Coming(frames, guest.roster, hostAt)
  BY <1>1, <1>2, <1>3 DEF Fits, Coming
<1> QED BY <1>1, <1>2, <1>7, <1>8, <1>9 DEF AbsenceHolds, Known

LEMMA AbsenceKept == ASSUME AbsenceHolds, [AbsenceNext]_absenceVars PROVE AbsenceHolds'
<1>1. CASE AbsenceNext
  BY <1>1, HostLeavesKeeps, HostReturnsKeeps, HostPublishesKeeps, FriendHoldsKeeps,
     DrainInboxKeeps, TickKeeps, SocketDropsKeeps, RetryFailsKeeps, SeatedAgainKeeps,
     CountdownEndsKeeps, StandEndsKeeps, ElapseKeeps
     DEF AbsenceNext
<1>2. CASE UNCHANGED absenceVars
  BY <1>2 DEF absenceVars, AbsenceHolds, AbsenceTypeOK, Known, Timed, ToldInTime, HostSeen,
              Carded, Counting, Fits, Coming
<1> QED BY <1>1, <1>2

\* Whatever order the host's frames, the ticks and the guest's own socket come in, every
\* variable keeps its type (peer.ts, relay.ts, peer-engine.ts, main.ts).
THEOREM AbsenceTypes == AbsenceSpec => []AbsenceTypeOK
<1>1. AbsenceHolds => AbsenceTypeOK
  BY DEF AbsenceHolds
<1> QED BY <1>1, AbsenceStarts, AbsenceKept, PTL DEF AbsenceSpec

\* The card counts an absence down only while there is one, says a return only when the host is
\* back and a dropped line only while it is, and leaves no absence out but where the guest's own
\* socket dropped in it: for every window, and any number of seats, drops and ticks (notice.ts,
\* wireSessionCard).
THEOREM AbsenceCardSaysWhatIs == AbsenceSpec => []CardSaysWhatIs
<1>1. AbsenceHolds => CardSaysWhatIs
  BY DEF AbsenceHolds, Known, Carded, Counting, CardSaysWhatIs, Counts
<1> QED BY <1>1, AbsenceStarts, AbsenceKept, PTL DEF AbsenceSpec

-----------------------------------------------------------------------------
(* The faces and their dialog.                                             *)

Askable == Peers \cup {Self}
Faces   == Askable \cup {More}
Names   == Typings \cup {First}
Buttons == {Pick(p) : p \in Askable} \cup {Go, Follows, Rename, Back, Field}
Spots   == {Face(a) : a \in Faces} \cup Buttons \cup {Elsewhere}

Menus == [view : {"none", "everyone", "person"}, peer : Askable \cup {None},
          anchor : Faces \cup {None}, fromList : BOOLEAN]
Pages == [menu : Menus, renaming : Names \cup {None}, value : Names \cup {None}, focus : Spots,
          controls : SUBSET Buttons, strip : SUBSET Faces, expanded : SUBSET Faces,
          refusal : Peers \cup {None}, following : Peers \cup {None}, selfName : Names,
          at : UNION {[S -> BOOLEAN] : S \in SUBSET Peers}]

MenuTypeOK ==
    /\ page \in Pages
    /\ goTos \subseteq [peer : Peers, session : Nat, waits : BOOLEAN]
    /\ follows \subseteq [peer : Peers, session : Nat]
    /\ renames \in Seq([name : Names, session : Nat])
    /\ stands \subseteq Nat /\ stood \in Nat
    /\ visit \in Nat /\ presses \in Nat /\ draws \in Nat

\* The strip is that of the room, and the dialog that of the room and the person.
Framed(e) == e.strip = Anchors(e) /\ e.expanded = {e.menu.anchor} \cap e.strip
Filled(e) == e.controls = Controls(e) /\ (e.value # None <=> Field \in e.controls)

\* The name field has focus only where there is one.
Focused(e) == e.focus = Field => Field \in e.controls

\* The clock of the refusal that stands is the one clock, and started as it did.
RefusalTimed == page.refusal # None => stands = {Stand - stood} /\ stood <= Stand

MenuInv ==
    MenuTypeOK /\ Framed(page) /\ Filled(page) /\ Focused(page) /\ RefusalTimed

-----------------------------------------------------------------------------
LEMMA SpotsApart ==
    /\ Elsewhere \notin Buttons /\ \A a : Face(a) \notin Buttons /\ Face(a) # Elsewhere
    /\ \A a, b : Face(a) = Face(b) => a = b
    /\ \A a, b : Pick(a) = Pick(b) => a = b
    /\ \A p : Pick(p) \notin {Go, Follows, Rename, Back, Field}
    /\ Field \notin {Go, Follows, Rename, Back} /\ Follows \notin {Go, Rename, Back}
BY DEF Buttons, Face, Pick, Go, Follows, Rename, Back, Field, Elsewhere

LEMMA AnchorsAre ==
    ASSUME NEW e \in Pages
    PROVE  Anchors(e) \subseteq Faces /\ None \notin Anchors(e)
<1> DEFINE shown == VisibleFaces(InRoom(e), e.following)
<1>1. InRoom(e) \subseteq Askable
  BY DEF InRoom, Pages, Askable
<1>2. shown \subseteq InRoom(e)
  BY DEF VisibleFaces
<1>3. Anchors(e) \subseteq shown \cup {More}
  BY DEF Anchors
<1> HIDE DEF shown
<1> QED
  BY <1>1, <1>2, <1>3, MenuAssumption DEF Askable, Faces

\* The strip depends on who is in the room, and on who is followed if they are.
LEMMA AnchorsSame ==
    ASSUME NEW e \in Pages, NEW f \in Pages, e.at = f.at,
           e.following = f.following \/ {e.following, f.following} \cap InRoom(e) = {}
    PROVE  Anchors(e) = Anchors(f)
<1>1. InRoom(e) = InRoom(f)
  BY DEF InRoom
<1>2. VisibleFaces(InRoom(e), e.following) = VisibleFaces(InRoom(f), f.following)
  BY <1>1 DEF VisibleFaces
<1> QED
  BY <1>1, <1>2 DEF Anchors

LEMMA ControlsAre ==
    ASSUME NEW e \in Pages
    PROVE  /\ Controls(e) \subseteq Buttons
           /\ Field \in Controls(e) <=>
                 e.menu.view = "person" /\ e.menu.peer = Self /\ e.renaming # None
           /\ e.menu.view = "none" => Controls(e) = {}
<1>1. e.menu.view \in {"none", "everyone", "person"} /\ InRoom(e) \subseteq Askable
  BY DEF Pages, Menus, InRoom, Askable
<1>2. CASE e.menu.view = "none"
  BY <1>2 DEF Controls
<1>3. CASE e.menu.view = "everyone"
  <2>1. Controls(e) = {Pick(p) : p \in InRoom(e)}
    BY <1>3 DEF Controls
  <2> QED
    BY <1>1, <1>3, <2>1, SpotsApart DEF Buttons
<1>4. CASE e.menu.view = "person"
  <2>1. Controls(e) = PersonActs(e, e.menu.peer) \cup (IF e.menu.fromList THEN {Back} ELSE {})
    BY <1>4 DEF Controls
  <2>2. PersonActs(e, e.menu.peer) \subseteq {Go, Follows, Rename, Field}
    BY DEF PersonActs
  <2>3. Field \in PersonActs(e, e.menu.peer) <=> e.menu.peer = Self /\ e.renaming # None
    BY SpotsApart DEF PersonActs
  <2> QED
    BY <1>4, <2>1, <2>2, <2>3, SpotsApart DEF Buttons
<1> QED
  BY <1>1, <1>2, <1>3, <1>4

LEMMA ControlsSame ==
    ASSUME NEW e \in Pages, NEW f \in Pages, e.menu = f.menu, e.renaming = f.renaming,
           e.at = f.at \/ (e.menu.view = "person" /\ e.menu.peer = Self)
    PROVE  Controls(e) = Controls(f)
<1>1. CASE e.at = f.at
  <2>1. InRoom(e) = InRoom(f) /\ PersonActs(e, e.menu.peer) = PersonActs(f, f.menu.peer)
    BY <1>1 DEF InRoom, PersonActs
  <2> QED
    BY <2>1 DEF Controls
<1>2. CASE e.menu.view = "person" /\ e.menu.peer = Self
  <2>1. PersonActs(e, e.menu.peer) = PersonActs(f, f.menu.peer)
    BY <1>2 DEF PersonActs
  <2>2. /\ Controls(e) = PersonActs(e, e.menu.peer) \cup (IF e.menu.fromList THEN {Back} ELSE {})
        /\ Controls(f) = PersonActs(f, f.menu.peer) \cup (IF f.menu.fromList THEN {Back} ELSE {})
    BY <1>2 DEF Controls
  <2> QED
    BY <2>1, <2>2
<1> QED
  BY <1>1, <1>2

-----------------------------------------------------------------------------
LEMMA SyncExpandedIs ==
    ASSUME NEW e \in Pages, e.strip = Anchors(e)
    PROVE  /\ SyncExpanded(e) \in Pages /\ Framed(SyncExpanded(e))
           /\ \A x \in DOMAIN e \ {"expanded"} : SyncExpanded(e)[x] = e[x]
           /\ Filled(e) => Filled(SyncExpanded(e))
           /\ Controls(SyncExpanded(e)) = Controls(e)
<1> DEFINE f == SyncExpanded(e)
<1>1. f = [e EXCEPT !.expanded = {e.menu.anchor} \cap e.strip]
  BY DEF SyncExpanded
<1>2. {e.menu.anchor} \cap e.strip \in SUBSET Faces
  BY DEF Pages
<1>3. f \in Pages
  BY <1>1, <1>2 DEF Pages
<1>4. \A x \in DOMAIN e \ {"expanded"} : f[x] = e[x]
  BY <1>1 DEF Pages
<1>5. /\ f.menu = e.menu /\ f.renaming = e.renaming /\ f.at = e.at /\ f.following = e.following
      /\ f.strip = e.strip /\ f.controls = e.controls /\ f.value = e.value
      /\ f.expanded = {e.menu.anchor} \cap e.strip
  BY <1>1 DEF Pages
<1> HIDE DEF f
<1>6. Anchors(f) = Anchors(e)
  BY <1>3, <1>5, AnchorsSame
<1>7. Controls(f) = Controls(e)
  BY <1>3, <1>5, ControlsSame
<1> QED
  BY <1>3, <1>4, <1>5, <1>6, <1>7 DEF Framed, Filled, f

\* A draw of the strip leaves all else alone, but for the focus of a face that went.
LEMMA RenderRoomIs ==
    ASSUME NEW e \in Pages
    PROVE  LET f == RenderRoom(e)
           IN  /\ f \in Pages /\ Framed(f)
               /\ f.menu = e.menu /\ f.renaming = e.renaming /\ f.value = e.value
               /\ f.controls = e.controls /\ f.refusal = e.refusal /\ f.following = e.following
               /\ f.selfName = e.selfName /\ f.at = e.at
               /\ f.focus = e.focus \/ \E a \in e.strip \ f.strip : e.focus = Face(a)
               /\ f.focus \in {e.focus, Elsewhere}
               /\ Controls(f) = Controls(e)
<1> DEFINE faces == Anchors(e)
           g == [e EXCEPT !.strip = faces]
           h == SyncExpanded(g)
           k == [h EXCEPT !.focus = Elsewhere]
<1>1. faces \in SUBSET Faces
  BY AnchorsAre
<1>2. /\ g \in Pages /\ g.strip = faces /\ g.at = e.at /\ g.following = e.following
      /\ g.menu = e.menu /\ g.renaming = e.renaming /\ g.value = e.value
      /\ g.controls = e.controls /\ g.refusal = e.refusal /\ g.selfName = e.selfName
      /\ g.focus = e.focus
  <2> HIDE DEF faces
  <2> QED BY <1>1 DEF Pages
<1>3. g.strip = Anchors(g)
  <2> HIDE DEF g
  <2> QED BY <1>2, AnchorsSame
<1>4. RenderRoom(e) \in {h, k}
      /\ (RenderRoom(e) # h => e.focus \in {Face(a) : a \in e.strip \ faces})
  BY DEF RenderRoom
<1> HIDE DEF g, faces
<1>5. h \in Pages /\ Framed(h) /\ \A x \in DOMAIN g \ {"expanded"} : h[x] = g[x]
  BY <1>2, <1>3, SyncExpandedIs
<1>6. /\ h.strip = g.strip /\ h.at = g.at /\ h.following = g.following
      /\ h.menu = g.menu /\ h.renaming = g.renaming /\ h.value = g.value
      /\ h.controls = g.controls /\ h.refusal = g.refusal /\ h.selfName = g.selfName
      /\ h.focus = g.focus
  BY <1>2, <1>5 DEF Pages
<1> HIDE DEF h
<1>7. k \in Pages
  BY <1>5 DEF Pages, Spots
<1>8. /\ k.strip = h.strip /\ k.at = h.at /\ k.following = h.following
      /\ k.menu = h.menu /\ k.renaming = h.renaming /\ k.value = h.value
      /\ k.controls = h.controls /\ k.refusal = h.refusal /\ k.selfName = h.selfName
      /\ k.expanded = h.expanded /\ k.focus = Elsewhere
  BY <1>5 DEF Pages
<1> HIDE DEF k
<1>9. Framed(k)
  BY <1>5, <1>7, <1>8, AnchorsSame DEF Framed
<1>10. Controls(h) = Controls(e) /\ Controls(k) = Controls(e)
  <2>1. /\ h.menu = e.menu /\ h.renaming = e.renaming /\ h.at = e.at
        /\ k.menu = e.menu /\ k.renaming = e.renaming /\ k.at = e.at
    BY <1>2, <1>6, <1>8
  <2> QED
    BY <1>5, <1>7, <2>1, ControlsSame
<1>11. \A f \in {h, k} : f.strip = faces /\ f.at = e.at /\ f.following = e.following
      /\ f.menu = e.menu /\ f.renaming = e.renaming /\ f.value = e.value
      /\ f.controls = e.controls /\ f.refusal = e.refusal /\ f.selfName = e.selfName
  BY <1>2, <1>6, <1>8
<1>12. h.focus = e.focus /\ k.focus = Elsewhere
  BY <1>2, <1>6, <1>8
<1>13. CASE RenderRoom(e) = h
  BY <1>5, <1>10, <1>11, <1>12, <1>13
<1>14. CASE RenderRoom(e) = k /\ RenderRoom(e) # h
  BY <1>4, <1>7, <1>9, <1>10, <1>11, <1>12, <1>14
<1> QED
  BY <1>4, <1>13, <1>14

LEMMA SoundSame ==
    ASSUME NEW e \in Pages, NEW f \in Pages, f.menu = e.menu, f.renaming = e.renaming,
           f.value = e.value, f.controls = e.controls, f.strip = e.strip,
           f.expanded = e.expanded, f.following = e.following, f.at = e.at
    PROVE  (Framed(e) => Framed(f)) /\ (Filled(e) => Filled(f))
<1>1. Anchors(f) = Anchors(e)
  BY AnchorsSame
<1>2. Controls(f) = Controls(e)
  BY ControlsSame
<1> QED
  BY <1>1, <1>2 DEF Framed, Filled

LEMMA FocusOnIs ==
    ASSUME NEW e \in Pages, NEW x
    PROVE  LET f == FocusOn(e, x)
           IN  /\ f \in Pages /\ (Framed(e) => Framed(f)) /\ (Filled(e) => Filled(f))
               /\ Focused(e) => Focused(f)
               /\ f.refusal = e.refusal /\ f.menu = e.menu /\ f.following = e.following
               /\ f.at = e.at /\ f.strip = e.strip
<1> DEFINE y == IF x \in e.controls \cup {Face(a) : a \in e.strip} THEN x
                ELSE IF e.focus \in e.controls THEN Elsewhere ELSE e.focus
           f == [e EXCEPT !.focus = y]
<1>1. FocusOn(e, x) = f
  BY DEF FocusOn
<1>2. e.controls \cup {Face(a) : a \in e.strip} \subseteq Spots /\ e.focus \in Spots
  BY DEF Pages, Spots
<1>3. y \in Spots
  BY <1>2 DEF Spots
<1>7. Focused(e) /\ y = Field => Field \in e.controls
  BY SpotsApart DEF Focused, Field, Face, Elsewhere
<1> HIDE DEF y
<1>4. f \in Pages
  BY <1>3 DEF Pages
<1>5. /\ f.focus = y /\ f.menu = e.menu /\ f.renaming = e.renaming /\ f.value = e.value
      /\ f.controls = e.controls /\ f.strip = e.strip /\ f.expanded = e.expanded
      /\ f.following = e.following /\ f.at = e.at /\ f.refusal = e.refusal
  BY DEF Pages
<1> HIDE DEF f
<1>6. Focused(e) => Focused(f)
  BY <1>5, <1>7 DEF Focused
<1> QED
  BY <1>1, <1>4, <1>5, <1>6, SoundSame

LEMMA CloseMenuIs ==
    ASSUME NEW e \in Pages, NEW refocus \in BOOLEAN
    PROVE  LET f == CloseMenu(e, refocus)
           IN  /\ f \in Pages /\ (e.strip = Anchors(e) => Framed(f)) /\ Filled(f)
               /\ f.menu = NoMenu /\ f.expanded = {}
               /\ f.refusal = e.refusal /\ f.following = e.following /\ f.at = e.at
               /\ f.strip = e.strip /\ f.controls = {} /\ f.selfName = e.selfName
               /\ ~refocus /\ e.focus \notin e.controls => f.focus = e.focus
               /\ Focused(e) => Focused(f)
<1> DEFINE y == IF e.focus \in e.controls THEN Elsewhere ELSE e.focus
           f == [e EXCEPT !.menu = NoMenu, !.renaming = None, !.value = None, !.controls = {},
                          !.expanded = {}, !.focus = y]
           g == FocusOn(f, Face(e.menu.anchor))
<1>1. CloseMenu(e, refocus) = IF refocus THEN g ELSE f
  BY DEF CloseMenu
<1>2. y \in Spots /\ (Focused(e) => y # Field)
  BY SpotsApart DEF Pages, Spots, Focused, Field, Elsewhere
<1>3. NoMenu \in Menus /\ NoMenu.view = "none" /\ NoMenu.anchor = None
  BY DEF Menus, NoMenu
<1> HIDE DEF y
<1>4. f \in Pages
  BY <1>2, <1>3 DEF Pages
<1>5. /\ f.menu = NoMenu /\ f.renaming = None /\ f.value = None /\ f.controls = {}
      /\ f.expanded = {} /\ f.strip = e.strip /\ f.following = e.following /\ f.at = e.at
      /\ f.refusal = e.refusal /\ f.selfName = e.selfName /\ f.focus = y
  BY DEF Pages
<1> HIDE DEF f
<1>6. e.strip = Anchors(e) => Framed(f)
  <2>1. Anchors(f) = Anchors(e) /\ None \notin Anchors(e)
    BY <1>4, <1>5, AnchorsSame, AnchorsAre
  <2> QED
    BY <1>3, <1>5, <2>1 DEF Framed
<1>7. Filled(f)
  BY <1>3, <1>4, <1>5, ControlsAre DEF Filled
<1>8. /\ g \in Pages /\ (Framed(f) => Framed(g)) /\ Filled(g) /\ g.menu = f.menu
      /\ g.refusal = f.refusal /\ g.following = f.following /\ g.at = f.at
      /\ g.strip = f.strip /\ (Focused(f) => Focused(g))
  BY <1>4, <1>7, FocusOnIs
<1>9. g.controls = {} /\ g.expanded = {} /\ g.selfName = f.selfName
  BY <1>4, <1>5 DEF FocusOn, Pages
<1>10. Focused(e) => Focused(f)
  BY <1>2, <1>5 DEF Focused
<1> HIDE DEF g
<1> QED
  BY <1>1, <1>4, <1>5, <1>6, <1>7, <1>8, <1>9, <1>10 DEF y

\* A draw of the dialog makes it the room's; what is typed in it stays if the field does, and
\* focus stays where it is if it is on no control or on the one that is asked for.
LEMMA RenderMenuIs ==
    ASSUME NEW e \in Pages, NEW selector \in Spots, e.strip = Anchors(e),
           e.menu.view = "none" => Filled(e)
    PROVE  LET f == RenderMenu(e, selector)
           IN  /\ f \in Pages /\ Filled(f) /\ f.strip = Anchors(f)
               /\ Framed(e) => Framed(f)
               /\ f.strip = e.strip /\ f.refusal = e.refusal /\ f.following = e.following
               /\ f.at = e.at /\ f.selfName = e.selfName
               /\ \/ f.menu = e.menu /\ f.renaming = e.renaming
                  \/ f.menu = NoMenu /\ f.controls = {}
               /\ e.value # None /\ Field \in Controls(e) =>
                     f.value = e.value /\ f.renaming = e.renaming
               /\ e.focus \notin e.controls /\ selector \notin Buttons => f.focus = e.focus
               /\ selector = e.focus /\ e.focus \in f.controls => f.focus = e.focus
               /\ Focused(e) => Focused(f)
<1> DEFINE R(f) ==
      /\ f \in Pages /\ Filled(f) /\ f.strip = Anchors(f)
      /\ Framed(e) => Framed(f)
      /\ f.strip = e.strip /\ f.refusal = e.refusal /\ f.following = e.following
      /\ f.at = e.at /\ f.selfName = e.selfName
      /\ \/ f.menu = e.menu /\ f.renaming = e.renaming
         \/ f.menu = NoMenu /\ f.controls = {}
      /\ e.value # None /\ Field \in Controls(e) => f.value = e.value /\ f.renaming = e.renaming
      /\ e.focus \notin e.controls /\ selector \notin Buttons => f.focus = e.focus
      /\ selector = e.focus /\ e.focus \in f.controls => f.focus = e.focus
      /\ Focused(e) => Focused(f)
<1>1. CASE e.menu.view = "none"
  <2>1. RenderMenu(e, selector) = e /\ Filled(e)
    BY <1>1 DEF RenderMenu
  <2> QED
    BY <2>1
<1>2. CASE e.menu.view = "person" /\ e.menu.peer \notin InRoom(e)
  <2>1. RenderMenu(e, selector) = CloseMenu(e, FALSE)
    BY <1>2 DEF RenderMenu
  <2>2. Field \notin Controls(e)
    BY <1>2, ControlsAre DEF InRoom
  <2> DEFINE f == CloseMenu(e, FALSE)
  <2>3. /\ f \in Pages /\ Framed(f) /\ Filled(f) /\ f.menu = NoMenu
        /\ f.refusal = e.refusal /\ f.following = e.following /\ f.at = e.at
        /\ f.strip = e.strip /\ f.controls = {} /\ f.selfName = e.selfName
        /\ e.focus \notin e.controls => f.focus = e.focus
        /\ Focused(e) => Focused(f)
    BY CloseMenuIs
  <2> HIDE DEF f
  <2>4. R(f)
    BY <2>2, <2>3 DEF Framed
  <2> QED
    BY <2>1, <2>4 DEF f
<1>3. CASE e.menu.view # "none" /\ ~(e.menu.view = "person" /\ e.menu.peer \notin InRoom(e))
  <2> DEFINE v == IF Field \in Controls(e) THEN RenameView(e) ELSE None
             y == IF selector \in Controls(e) THEN selector
                  ELSE IF e.focus \in e.controls THEN Elsewhere ELSE e.focus
             f == [e EXCEPT !.controls = Controls(e), !.value = v, !.focus = y]
  <2>1. RenderMenu(e, selector) = f
    BY <1>3 DEF RenderMenu
  <2>2. Controls(e) \in SUBSET Buttons
        /\ (Field \in Controls(e) => e.renaming # None)
    BY ControlsAre
  <2>3. v \in Names \cup {None} /\ (v # None <=> Field \in Controls(e))
        /\ (e.value # None /\ Field \in Controls(e) => v = e.value)
    BY <2>2 DEF Pages, RenameView
  <2>4. y \in Spots
    BY DEF Pages, Spots
  <2>5. /\ e.focus \notin e.controls /\ selector \notin Buttons => y = e.focus
        /\ selector = e.focus /\ e.focus \in Controls(e) => y = e.focus
        /\ Focused(e) /\ y = Field => Field \in Controls(e)
    BY <2>2, SpotsApart DEF Focused, Field, Elsewhere
  <2> HIDE DEF v, y
  <2>6. f \in Pages
    BY <2>2, <2>3, <2>4 DEF Pages
  <2>7. /\ f.controls = Controls(e) /\ f.value = v /\ f.focus = y /\ f.menu = e.menu
        /\ f.renaming = e.renaming /\ f.strip = e.strip /\ f.expanded = e.expanded
        /\ f.following = e.following /\ f.at = e.at /\ f.refusal = e.refusal
        /\ f.selfName = e.selfName
    BY DEF Pages
  <2> HIDE DEF f
  <2>8. Anchors(f) = Anchors(e)
    BY <2>6, <2>7, AnchorsSame
  <2>9. Controls(f) = Controls(e)
    BY <2>6, <2>7, ControlsSame
  <2>10. R(f)
    BY <2>3, <2>5, <2>6, <2>7, <2>8, <2>9 DEF Framed, Filled, Focused
  <2> QED
    BY <2>1, <2>10
<1> QED
  BY <1>1, <1>2, <1>3

\* A draw of the room keeps what is typed, and the focus that it can find again.
LEMMA DrawRoomIs ==
    ASSUME NEW d \in Pages, Filled(d), NEW e \in Pages, e.menu = d.menu, e.renaming = d.renaming,
           e.value = d.value, e.controls = d.controls
    PROVE  LET f == DrawRoom(e)
           IN  /\ f \in Pages /\ Framed(f) /\ Filled(f)
               /\ f.refusal = e.refusal /\ f.following = e.following
               /\ f.at = e.at /\ f.selfName = e.selfName
               /\ \/ f.menu = e.menu /\ f.renaming = e.renaming
                  \/ f.menu = NoMenu /\ f.controls = {}
               /\ e.value # None => f.value = e.value /\ f.renaming = e.renaming
               /\ e.focus \in (f.controls \ {Follows}) \cup {Face(a) : a \in f.strip}
                     => f.focus = e.focus
               /\ Focused(e) => Focused(f)
<1> DEFINE r == RenderRoom(e)
           selector == MenuFocusSelector(r)
           f == RenderMenu(r, selector)
<1>1. /\ r \in Pages /\ Framed(r)
      /\ r.menu = e.menu /\ r.renaming = e.renaming /\ r.value = e.value
      /\ r.controls = e.controls /\ r.refusal = e.refusal /\ r.following = e.following
      /\ r.selfName = e.selfName /\ r.at = e.at
      /\ r.focus = e.focus \/ \E a \in e.strip \ r.strip : e.focus = Face(a)
      /\ r.focus \in {e.focus, Elsewhere}
  BY RenderRoomIs
<1>2. DrawRoom(e) = IF RenameHoldsTheList(r) THEN r ELSE f
  BY DEF DrawRoom
<1>3. r.value # None => /\ Field \in r.controls /\ r.controls = Controls(r)
                        /\ Field \in Controls(r)
  <2> SUFFICES ASSUME r.value # None PROVE Field \in r.controls /\ r.controls = Controls(r)
    OBVIOUS
  <2>1. Field \in d.controls /\ d.controls = Controls(d)
    BY <1>1 DEF Filled
  <2>2. d.menu.view = "person" /\ d.menu.peer = Self
    BY <2>1, ControlsAre
  <2>3. Controls(r) = Controls(d)
    BY <1>1, <2>2, ControlsSame
  <2> QED
    BY <1>1, <2>1, <2>3
<1>4. r.value = None => Field \notin r.controls
  BY <1>1 DEF Filled
<1>5. e.focus \in Buttons => r.focus = e.focus
  BY <1>1, SpotsApart
<1>6. \A a \in r.strip : e.focus = Face(a) => r.focus = e.focus
  BY <1>1, SpotsApart
<1>7. r.menu.view = "none" => Filled(r)
  <2> SUFFICES ASSUME r.menu.view = "none" PROVE Filled(r)
    OBVIOUS
  <2>1. Controls(r) = {} /\ Controls(d) = {}
    BY <1>1, ControlsAre
  <2> QED
    BY <1>1, <2>1 DEF Filled
<1>0. Focused(e) => Focused(r)
  BY <1>1 DEF Focused, Field, Elsewhere
<1>8. CASE RenameHoldsTheList(r)
  <2>1. Filled(r)
    BY <1>3, <1>8 DEF Filled, RenameHoldsTheList
  <2> HIDE DEF r
  <2> QED
    BY <1>0, <1>1, <1>2, <1>5, <1>6, <1>8, <2>1, ControlsAre DEF Filled
<1>9. CASE ~RenameHoldsTheList(r)
  <2>1. /\ selector \in Spots
        /\ r.focus \in r.controls \ {Follows, Field} => selector = r.focus
        /\ r.focus \notin r.controls \ {Follows, Field} => selector \notin Buttons
    BY <1>1, SpotsApart DEF MenuFocusSelector, Pages, Spots
  <2> HIDE DEF r, selector
  <2>2. r.strip = Anchors(r)
    BY <1>1 DEF Framed
  <2>3. /\ f \in Pages /\ Filled(f) /\ (Framed(r) => Framed(f))
        /\ f.strip = r.strip /\ f.refusal = r.refusal /\ f.following = r.following
        /\ f.at = r.at /\ f.selfName = r.selfName
        /\ \/ f.menu = r.menu /\ f.renaming = r.renaming
           \/ f.menu = NoMenu /\ f.controls = {}
        /\ r.value # None /\ Field \in Controls(r) => f.value = r.value /\ f.renaming = r.renaming
        /\ r.focus \notin r.controls /\ selector \notin Buttons => f.focus = r.focus
        /\ selector = r.focus /\ r.focus \in f.controls => f.focus = r.focus
        /\ Focused(r) => Focused(f)
    BY <1>1, <1>7, <2>1, <2>2, RenderMenuIs
  <2>4. f.controls \subseteq Buttons
    BY <2>3 DEF Pages
  <2>5. r.controls \subseteq Buttons
    BY <1>1 DEF Pages
  <2>6. r.focus = Field => Field \notin r.controls
    BY <1>4, <1>9 DEF RenameHoldsTheList
  <2> HIDE DEF f
  <2>7. ASSUME e.focus \in f.controls, e.focus # Follows PROVE f.focus = e.focus
    BY <1>5, <2>1, <2>3, <2>4, <2>6, <2>7
  <2>8. ASSUME NEW a \in f.strip, e.focus = Face(a) PROVE f.focus = e.focus
    <3>1. r.focus = Face(a) /\ r.focus \notin r.controls
      BY <1>6, <2>3, <2>5, <2>8, SpotsApart
    <3> QED
      BY <2>1, <2>3, <2>8, <3>1
  <2> QED
    BY <1>0, <1>1, <1>2, <1>3, <1>9, <2>3, <2>7, <2>8
<1> QED
  BY <1>8, <1>9

LEMMA OpenMenuIs ==
    ASSUME NEW e \in Pages, e.strip = Anchors(e), NEW menu \in Menus, menu.view # "none"
    PROVE  LET f == OpenMenu(e, menu)
           IN  /\ f \in Pages /\ Framed(f) /\ Filled(f) /\ f.refusal = e.refusal
               /\ Focused(e) => Focused(f)
<1> DEFINE g == [e EXCEPT !.menu = menu, !.renaming = None]
           h == RenderMenu(g, Elsewhere)
           k == SyncExpanded(h)
<1>1. g \in Pages
  BY DEF Pages
<1>2. /\ g.menu = menu /\ g.at = e.at /\ g.following = e.following /\ g.strip = e.strip
      /\ g.refusal = e.refusal /\ (Focused(e) => Focused(g))
  BY DEF Pages, Focused
<1>3. OpenMenu(e, menu) = FocusOn(k, FirstOf(k))
  BY DEF OpenMenu
<1> HIDE DEF g
<1>4. g.strip = Anchors(g) /\ Elsewhere \in Spots
  BY <1>1, <1>2, AnchorsSame DEF Spots
<1>5. /\ h \in Pages /\ Filled(h) /\ h.strip = Anchors(h) /\ h.refusal = g.refusal
      /\ Focused(g) => Focused(h)
  BY <1>1, <1>2, <1>4, RenderMenuIs
<1> HIDE DEF h
<1>6. /\ k \in Pages /\ Framed(k) /\ Filled(k) /\ k.refusal = h.refusal
      /\ Focused(h) => Focused(k)
  BY <1>5, SyncExpandedIs DEF Pages, Focused
<1> HIDE DEF k
<1> QED
  BY <1>2, <1>3, <1>5, <1>6, FocusOnIs

LEMMA EndRenameIs ==
    ASSUME NEW e \in Pages, Framed(e), Filled(e)
    PROVE  LET f == EndRename(e)
           IN  /\ f \in Pages /\ Framed(f) /\ Filled(f) /\ f.refusal = e.refusal
               /\ Focused(e) => Focused(f)
<1> DEFINE g == [e EXCEPT !.renaming = None, !.value = None]
<1>1. g \in Pages
  BY DEF Pages
<1>2. /\ g.menu = e.menu /\ g.at = e.at /\ g.following = e.following /\ g.strip = e.strip
      /\ g.refusal = e.refusal /\ g.expanded = e.expanded /\ g.controls = e.controls
      /\ g.renaming = None /\ g.value = None /\ (Focused(e) => Focused(g))
  BY DEF Pages, Focused
<1>3. EndRename(e) = RenderMenu(g, Rename)
  BY DEF EndRename
<1> HIDE DEF g
<1>4. Anchors(g) = Anchors(e) /\ Rename \in Spots
  BY <1>1, <1>2, AnchorsSame DEF Spots, Buttons
<1>5. Framed(g) /\ g.strip = Anchors(g)
  BY <1>2, <1>4 DEF Framed
<1>6. g.menu.view = "none" => Filled(g)
  BY <1>1, <1>2, ControlsAre DEF Filled
<1> QED
  BY <1>1, <1>2, <1>3, <1>4, <1>5, <1>6, RenderMenuIs

LEMMA SyncFollowIs ==
    ASSUME NEW e \in Pages, Filled(e), NEW p \in Peers \cup {None}
    PROVE  LET f == SyncFollow(e, p)
           IN  /\ f \in Pages /\ Framed(f) /\ Filled(f) /\ f.refusal = e.refusal
               /\ f.at = e.at /\ f.following = p
               /\ \/ f.menu = e.menu /\ f.renaming = e.renaming
                  \/ f.menu = NoMenu /\ f.controls = {}
               /\ e.value # None => f.value = e.value /\ f.renaming = e.renaming
               /\ e.focus \in (f.controls \ {Follows}) \cup {Face(a) : a \in f.strip}
                     => f.focus = e.focus
               /\ Focused(e) => Focused(f)
<1> DEFINE g == [e EXCEPT !.following = p]
<1>1. g \in Pages
  BY DEF Pages
<1>2. /\ g.menu = e.menu /\ g.at = e.at /\ g.following = p /\ g.refusal = e.refusal
      /\ g.controls = e.controls /\ g.renaming = e.renaming /\ g.value = e.value
      /\ g.focus = e.focus /\ (Focused(e) => Focused(g))
  BY DEF Pages, Focused
<1>3. SyncFollow(e, p) = DrawRoom(g)
  BY DEF SyncFollow
<1> HIDE DEF g
<1> QED
  BY <1>1, <1>2, <1>3, DrawRoomIs

LEMMA RenamedIs ==
    ASSUME NEW d \in Pages, Filled(d), NEW e \in Pages, e.menu = d.menu, e.renaming = d.renaming,
           e.value = d.value, e.controls = d.controls
    PROVE  LET f == Renamed(e)
           IN  /\ f \in Pages /\ Framed(f) /\ Filled(f) /\ f.refusal = e.refusal
               /\ e.value # None => f.value = e.value /\ f.renaming = e.renaming
               /\ Focused(e) => Focused(f)
<1> DEFINE g == DrawRoom(e)
<1>1. /\ g \in Pages /\ Framed(g) /\ Filled(g) /\ g.refusal = e.refusal
      /\ Focused(e) => Focused(g)
      /\ e.value # None => g.value = e.value /\ g.renaming = e.renaming
  BY DrawRoomIs
<1>2. Renamed(e) = RenderMenu(g, Rename)
  BY DEF Renamed
<1>3. Rename \in Spots
  BY DEF Spots, Buttons
<1> HIDE DEF g
<1>4. g.strip = Anchors(g) /\ g.controls = Controls(g) /\ (g.value # None => Field \in g.controls)
  BY <1>1 DEF Framed, Filled
<1> QED
  BY <1>1, <1>2, <1>3, <1>4, RenderMenuIs

-----------------------------------------------------------------------------
(* The steps.                                                              *)

\* What the properties of a step say.
StepKeeps ==
    /\ /\ page.value # None /\ page.value \notin {Blank, page.renaming}
       /\ presses' = presses /\ visit' = visit
       /\ goTos \subseteq goTos' /\ follows \subseteq follows'
       => page'.value = page.value /\ page'.renaming = page.renaming
    /\ /\ draws' # draws /\ page.focus # Follows
       /\ page.focus \in page'.controls \cup {Face(a) : a \in page'.strip}
       => page'.focus = page.focus
    /\ page.refusal # None /\ page'.refusal = None => stood = Stand \/ visit' # visit

Asked ==
    /\ goTos' \subseteq [peer : Peers, session : Nat, waits : BOOLEAN]
    /\ follows' \subseteq [peer : Peers, session : Nat]
    /\ renames' \in Seq([name : Names, session : Nat])

PageSound == page' \in Pages /\ Framed(page') /\ Filled(page') /\ Focused(page')

\* A press of the person's, which no property of a typed name or of focus is about.
LEMMA PressStep ==
    ASSUME MenuInv, Presses, Asked, PageSound, page'.refusal = page.refusal,
           UNCHANGED <<stands, stood, visit>>
    PROVE  MenuInv' /\ StepKeeps
<1>1. presses' \in Nat /\ presses' # presses /\ draws' = draws
  BY DEF Presses, MenuInv, MenuTypeOK
<1>2. MenuTypeOK'
  BY <1>1 DEF MenuInv, MenuTypeOK, Asked, PageSound
<1>3. RefusalTimed'
  BY DEF MenuInv, RefusalTimed
<1>4. Framed(page)' /\ Filled(page)' /\ Focused(page)'
  BY DEF PageSound, Framed, Filled, Focused, Anchors, Controls, VisibleFaces, InRoom, PersonActs
<1> QED
  BY <1>1, <1>2, <1>3, <1>4 DEF MenuInv, StepKeeps

LEMMA RestStep ==
    ASSUME MenuInv, Presses, Rests, PageSound, page'.refusal = page.refusal
    PROVE  MenuInv' /\ StepKeeps
<1>1. Asked /\ UNCHANGED <<stands, stood, visit>>
  BY DEF Rests, promises, Asked, MenuInv, MenuTypeOK
<1> QED
  BY <1>1, PressStep

LEMMA PageFacts ==
    ASSUME MenuInv
    PROVE  /\ page \in Pages /\ Framed(page) /\ Filled(page) /\ Focused(page)
           /\ page.strip = Anchors(page) /\ page.strip \subseteq Faces
           /\ page.menu \in Menus /\ page.menu.anchor \in Faces \cup {None}
           /\ page.controls \subseteq Buttons
           /\ NoMenu \in Menus /\ NoMenu.view = "none"
BY DEF MenuInv, MenuTypeOK, Framed, Pages, Menus, NoMenu

LEMMA PressAnchorStep ==
    ASSUME MenuInv, NEW a \in Peers \cup {Self, More}, PressAnchor(a)
    PROVE  MenuInv' /\ StepKeeps
<1> DEFINE e == [page EXCEPT !.focus = Face(a)]
           everyone == [NoMenu EXCEPT !.view = "everyone", !.anchor = a]
           person == [view |-> "person", peer |-> a, anchor |-> a, fromList |-> FALSE]
<1>1. Face(a) \in Spots /\ a \in Faces
  BY DEF Spots, Faces, Askable
<1>2. /\ e \in Pages /\ e.focus = Face(a) /\ e.menu = page.menu /\ e.renaming = page.renaming
      /\ e.value = page.value /\ e.controls = page.controls /\ e.strip = page.strip
      /\ e.expanded = page.expanded /\ e.following = page.following /\ e.at = page.at
      /\ e.refusal = page.refusal
  BY <1>1, PageFacts DEF Pages
<1>3. \/ page' = CloseMenu(e, TRUE)
      \/ page' = OpenMenu(e, everyone)
      \/ a \in Askable /\ page' = OpenMenu(e, person)
  BY DEF PressAnchor, Faces, Askable
<1> HIDE DEF e
<1>4. Anchors(e) = Anchors(page)
  BY <1>2, PageFacts, AnchorsSame
<1>5. e.strip = Anchors(e) /\ Focused(e)
  BY <1>2, <1>4, PageFacts, SpotsApart DEF Focused, Buttons
<1>6. everyone \in Menus /\ everyone.view # "none"
  BY <1>1 DEF Menus, NoMenu
<1>7. a \in Askable => person \in Menus /\ person.view # "none"
  BY <1>1 DEF Menus
<1> HIDE DEF everyone, person
<1>8. PageSound /\ page'.refusal = page.refusal
  <2>1. CASE page' = CloseMenu(e, TRUE)
    BY <1>2, <1>5, <2>1, CloseMenuIs DEF PageSound
  <2>2. CASE page' = OpenMenu(e, everyone)
    BY <1>2, <1>5, <1>6, <2>2, OpenMenuIs DEF PageSound
  <2>3. CASE a \in Askable /\ page' = OpenMenu(e, person)
    BY <1>2, <1>5, <1>7, <2>3, OpenMenuIs DEF PageSound
  <2> QED
    BY <1>3, <2>1, <2>2, <2>3
<1> QED
  BY <1>8, RestStep DEF PressAnchor

LEMMA PickStep ==
    ASSUME MenuInv, NEW p \in Peers \cup {Self}, PickFromList(p)
    PROVE  MenuInv' /\ StepKeeps
<1> DEFINE person == [view |-> "person", peer |-> p, anchor |-> page.menu.anchor, fromList |-> TRUE]
<1>1. person \in Menus /\ person.view # "none"
  BY PageFacts DEF Menus, Askable
<1>2. page' = OpenMenu(page, person)
  BY DEF PickFromList
<1> HIDE DEF person
<1>3. PageSound /\ page'.refusal = page.refusal
  BY <1>1, <1>2, PageFacts, OpenMenuIs DEF PageSound
<1> QED
  BY <1>3, RestStep DEF PickFromList

LEMMA BackStep ==
    ASSUME MenuInv, BackToEveryone
    PROVE  MenuInv' /\ StepKeeps
<1> DEFINE menu == [NoMenu EXCEPT !.view = "everyone", !.anchor = page.menu.anchor]
           e == [page EXCEPT !.menu = menu]
           f == RenderMenu(e, Elsewhere)
<1>1. menu \in Menus /\ menu.view # "none" /\ menu.anchor = page.menu.anchor
  BY PageFacts DEF Menus, NoMenu
<1>2. page' = FocusOn(f, Pick(page.menu.peer))
  BY DEF BackToEveryone
<1> HIDE DEF menu
<1>3. /\ e \in Pages /\ e.menu = menu /\ e.strip = page.strip /\ e.expanded = page.expanded
      /\ e.following = page.following /\ e.at = page.at /\ e.refusal = page.refusal
      /\ Focused(e)
  BY <1>1, PageFacts DEF Pages, Focused
<1> HIDE DEF e
<1>4. Anchors(e) = Anchors(page) /\ Elsewhere \in Spots
  BY <1>3, PageFacts, AnchorsSame DEF Spots
<1>5. Framed(e) /\ e.strip = Anchors(e)
  BY <1>1, <1>3, <1>4, PageFacts DEF Framed
<1>6. /\ f \in Pages /\ Framed(f) /\ Filled(f) /\ Focused(f) /\ f.refusal = e.refusal
  BY <1>1, <1>3, <1>4, <1>5, RenderMenuIs
<1> HIDE DEF f
<1>7. PageSound /\ page'.refusal = page.refusal
  BY <1>2, <1>3, <1>6, FocusOnIs DEF PageSound
<1> QED
  BY <1>7, RestStep DEF BackToEveryone

LEMMA EscapeStep ==
    ASSUME MenuInv, Escape
    PROVE  MenuInv' /\ StepKeeps
<1>1. page' \in {EndRename(page), CloseMenu(page, TRUE)}
  BY DEF Escape
<1>2. PageSound /\ page'.refusal = page.refusal
  BY <1>1, PageFacts, EndRenameIs, CloseMenuIs DEF PageSound
<1> QED
  BY <1>2, RestStep DEF Escape

LEMMA RenameSteps ==
    ASSUME MenuInv, StartRename \/ CancelRename
    PROVE  MenuInv' /\ StepKeeps
<1>1. CASE StartRename
  <2> DEFINE e == [page EXCEPT !.renaming = page.selfName, !.value = None]
  <2>1. page' = RenderMenu(e, Field) /\ Rename \in page.controls
    BY <1>1 DEF StartRename
  <2>2. /\ e \in Pages /\ e.menu = page.menu /\ e.strip = page.strip
        /\ e.expanded = page.expanded /\ e.following = page.following /\ e.at = page.at
        /\ e.refusal = page.refusal /\ Focused(e)
    BY PageFacts DEF Pages, Focused
  <2>3. e.menu.view # "none"
    BY <2>1, <2>2, PageFacts, ControlsAre DEF Filled
  <2> HIDE DEF e
  <2>4. Anchors(e) = Anchors(page) /\ Field \in Spots
    BY <2>2, PageFacts, AnchorsSame DEF Spots, Buttons
  <2>5. Framed(e) /\ e.strip = Anchors(e)
    BY <2>2, <2>4, PageFacts DEF Framed
  <2>6. PageSound /\ page'.refusal = page.refusal
    BY <2>1, <2>2, <2>3, <2>4, <2>5, RenderMenuIs DEF PageSound
  <2> QED
    BY <1>1, <2>6, RestStep DEF StartRename
<1>2. CASE CancelRename
  <2>1. PageSound /\ page'.refusal = page.refusal
    BY <1>2, PageFacts, EndRenameIs DEF PageSound, CancelRename
  <2> QED
    BY <1>2, <2>1, RestStep DEF CancelRename
<1> QED
  BY <1>1, <1>2

LEMMA TypingStep ==
    ASSUME MenuInv, NEW t \in Typings, Type(t)
    PROVE  MenuInv' /\ StepKeeps
<1> DEFINE e == [page EXCEPT !.value = t]
<1>1. t # None /\ t \in Names
  BY MenuAssumption DEF Names
<1>2. page' = e /\ Field \in page.controls
  BY PageFacts DEF Type, Focused
<1>3. /\ e \in Pages /\ e.menu = page.menu /\ e.renaming = page.renaming
      /\ e.value = t /\ e.controls = page.controls /\ e.strip = page.strip
      /\ e.expanded = page.expanded /\ e.following = page.following
      /\ e.at = page.at /\ e.focus = page.focus /\ e.refusal = page.refusal
  BY <1>1, PageFacts DEF Pages
<1> HIDE DEF e
<1>4. Anchors(e) = Anchors(page) /\ Controls(e) = Controls(page)
  BY <1>3, PageFacts, AnchorsSame, ControlsSame
<1>5. Framed(e) /\ Filled(e) /\ Focused(e)
  BY <1>1, <1>2, <1>3, <1>4, PageFacts DEF Framed, Filled, Focused
<1>6. PageSound /\ page'.refusal = page.refusal
  BY <1>2, <1>3, <1>5 DEF PageSound
<1> QED
  BY <1>6, RestStep DEF Type

LEMMA CommitStep ==
    ASSUME MenuInv, CommitRename
    PROVE  MenuInv' /\ StepKeeps
<1> DEFINE e == EndRename(page)
           r == [name |-> page.value, session |-> visit]
<1>1. /\ e \in Pages /\ Framed(e) /\ Filled(e) /\ Focused(e) /\ e.refusal = page.refusal
  BY PageFacts, EndRenameIs
<1>2. \/ page' = Renamed(e) /\ renames' = renames
      \/ page' = e /\ renames' = Append(renames, r)
  BY DEF CommitRename
<1>3. page.value \in Names
  BY PageFacts DEF CommitRename, Filled, Pages
<1>4. r \in [name : Names, session : Nat]
  BY <1>3 DEF MenuInv, MenuTypeOK
<1> HIDE DEF e, r
<1>5. PageSound /\ page'.refusal = page.refusal
  BY <1>1, <1>2, RenamedIs DEF PageSound
<1>6. Asked
  <2> DEFINE T == [name : Names, session : Nat]
  <2>1. renames \in Seq(T) /\ r \in T
    BY <1>4 DEF MenuInv, MenuTypeOK
  <2> HIDE DEF T
  <2>2. renames' \in Seq(T)
    BY <1>2, <2>1
  <2> QED
    BY <2>2 DEF Asked, CommitRename, MenuInv, MenuTypeOK, T
<1> QED
  BY <1>5, <1>6, PressStep DEF CommitRename

LEMMA FollowSteps ==
    ASSUME MenuInv, NEW p \in Peers, GoTo(p) \/ Follow(p) \/ StopFollow(p) \/ FollowEnds
    PROVE  MenuInv' /\ StepKeeps
<1> DEFINE e == SyncFollow(page, None)
           g == CloseMenu(e, FALSE)
<1>1. /\ e \in Pages /\ Framed(e) /\ Filled(e) /\ Focused(e) /\ e.refusal = page.refusal
  BY PageFacts, SyncFollowIs
<1>2. CASE GoTo(p)
  <2>1. page' \in {page, e}
    BY <1>2 DEF GoTo
  <2>2. Asked
    <3>1. [peer |-> p, session |-> visit, waits |-> FALSE]
             \in [peer : Peers, session : Nat, waits : BOOLEAN]
      BY DEF MenuInv, MenuTypeOK
    <3> QED
      BY <1>2, <3>1 DEF GoTo, Asked, MenuInv, MenuTypeOK
  <2> HIDE DEF e
  <2>3. PageSound /\ page'.refusal = page.refusal
    BY <1>1, <2>1, PageFacts DEF PageSound
  <2> QED
    BY <1>2, <2>2, <2>3, PressStep DEF GoTo
<1>3. CASE Follow(p)
  <2>1. page' = SyncFollow(page, p)
    BY <1>3 DEF Follow
  <2>2. Asked
    BY <1>3 DEF Follow, Asked, MenuInv, MenuTypeOK
  <2>3. PageSound /\ page'.refusal = page.refusal
    BY <2>1, PageFacts, SyncFollowIs DEF PageSound
  <2> QED
    BY <1>3, <2>2, <2>3, PressStep DEF Follow
<1>4. CASE StopFollow(p)
  <2>1. page' \in {FocusOn(g, Face(p)), e}
    BY <1>4 DEF StopFollow
  <2> HIDE DEF e
  <2>2. /\ g \in Pages /\ Framed(g) /\ Filled(g) /\ Focused(g) /\ g.refusal = e.refusal
    BY <1>1, CloseMenuIs DEF Framed
  <2> HIDE DEF g
  <2>3. PageSound /\ page'.refusal = page.refusal
    BY <1>1, <2>1, <2>2, FocusOnIs DEF PageSound
  <2> QED
    BY <1>4, <2>3, RestStep DEF StopFollow
<1>5. CASE FollowEnds
  <2>1. page' = e
    BY <1>5 DEF FollowEnds
  <2>2. PageSound /\ page'.refusal = page.refusal
    BY <1>1, <2>1 DEF PageSound
  <2> QED
    BY <1>5, <2>2, RestStep DEF FollowEnds
<1> QED
  BY <1>2, <1>3, <1>4, <1>5

\* A session that begins has nobody in the dialog and everyone in the strip.
LEMMA FreshIs ==
    ASSUME NEW e \in Pages, Filled(e), e.menu = NoMenu, e.expanded = {}
    PROVE  LET f == Fresh(e)
           IN  /\ f \in Pages /\ Framed(f) /\ Filled(f) /\ f.refusal = e.refusal
               /\ Focused(e) => Focused(f)
<1> DEFINE faces == Anchors(e)
           f == [e EXCEPT !.selfName = First, !.strip = faces]
<1>1. faces \in SUBSET Faces /\ None \notin faces
  BY AnchorsAre
<1>2. Fresh(e) = f
  BY DEF Fresh
<1> HIDE DEF faces
<1>3. /\ f \in Pages /\ f.menu = e.menu /\ f.renaming = e.renaming /\ f.value = e.value
      /\ f.controls = e.controls /\ f.expanded = e.expanded /\ f.following = e.following
      /\ f.at = e.at /\ f.focus = e.focus /\ f.refusal = e.refusal /\ f.strip = faces
  BY <1>1 DEF Pages, Names
<1> HIDE DEF f
<1>4. Anchors(f) = faces /\ Controls(f) = Controls(e)
  BY <1>3, AnchorsSame, ControlsSame DEF faces
<1>5. NoMenu.anchor = None
  BY DEF NoMenu
<1> QED
  BY <1>1, <1>2, <1>3, <1>4, <1>5 DEF Framed, Filled, Focused

LEMMA LeavesStep ==
    ASSUME MenuInv, Leaves
    PROVE  MenuInv' /\ StepKeeps
<1> DEFINE e == [page EXCEPT !.refusal = None, !.following = None, !.focus = Elsewhere]
           g == CloseMenu(e, FALSE)
<1>1. page' = Fresh(g)
  BY DEF Leaves
<1>2. e \in Pages /\ e.refusal = None /\ e.focus = Elsewhere
  BY PageFacts DEF Pages, Spots
<1>3. Focused(e)
  BY <1>2, SpotsApart DEF Focused, Buttons
<1> HIDE DEF e
<1>4. /\ g \in Pages /\ Filled(g) /\ Focused(g) /\ g.refusal = None /\ g.menu = NoMenu
      /\ g.expanded = {}
  BY <1>2, <1>3, CloseMenuIs
<1> HIDE DEF g
<1>5. PageSound /\ page'.refusal = None
  BY <1>1, <1>4, FreshIs DEF PageSound
<1>6. /\ presses' # presses /\ presses' \in Nat /\ draws' = draws
      /\ visit' # visit /\ visit' \in Nat
  BY DEF Leaves, Presses, MenuInv, MenuTypeOK
<1>7. MenuTypeOK' /\ RefusalTimed'
  BY <1>5, <1>6 DEF Leaves, promises, PageSound, MenuInv, MenuTypeOK, RefusalTimed
<1>8. Framed(page)' /\ Filled(page)' /\ Focused(page)'
  BY <1>5 DEF PageSound, Framed, Filled, Focused, Anchors, Controls, VisibleFaces, InRoom, PersonActs
<1> QED
  BY <1>6, <1>7, <1>8 DEF MenuInv, StepKeeps

-----------------------------------------------------------------------------
\* A step that is not a press and no frame of the room.
LEMMA QuietStep ==
    ASSUME MenuInv, PageSound, Asked, UNCHANGED <<visit, counts>>,
           stands' \subseteq Nat, stood' \in Nat, RefusalTimed',
           page.refusal # None /\ page'.refusal = None => stood = Stand,
           /\ page.value # None /\ page.value \notin {Blank, page.renaming}
           /\ goTos \subseteq goTos' /\ follows \subseteq follows'
           => page'.value = page.value /\ page'.renaming = page.renaming
    PROVE  MenuInv' /\ StepKeeps
<1>1. MenuTypeOK'
  BY DEF MenuInv, MenuTypeOK, Asked, PageSound, counts
<1>2. Framed(page)' /\ Filled(page)' /\ Focused(page)'
  BY DEF PageSound, Framed, Filled, Focused, Anchors, Controls, VisibleFaces, InRoom, PersonActs
<1> QED
  BY <1>1, <1>2 DEF MenuInv, StepKeeps, counts

LEMMA StillStep ==
    ASSUME MenuInv, PageSound, Asked, UNCHANGED <<stands, stood, visit, counts>>,
           page'.refusal = page.refusal,
           /\ page.value # None /\ page.value \notin {Blank, page.renaming}
           /\ goTos \subseteq goTos' /\ follows \subseteq follows'
           => page'.value = page.value /\ page'.renaming = page.renaming
    PROVE  MenuInv' /\ StepKeeps
<1>1. RefusalTimed' /\ stands' \subseteq Nat /\ stood' \in Nat
  BY DEF MenuInv, MenuTypeOK, RefusalTimed
<1> QED
  BY <1>1, QuietStep

\* Focus that moves disturbs nothing, to a field that is there.
LEMMA FocusMoves ==
    ASSUME MenuInv, NEW x \in Spots, x = Field => Field \in page.controls
    PROVE  LET e == [page EXCEPT !.focus = x]
           IN  /\ e \in Pages /\ Framed(e) /\ Filled(e) /\ Focused(e)
               /\ e.refusal = page.refusal /\ e.value = page.value
               /\ e.renaming = page.renaming /\ e.strip = Anchors(e)
<1> DEFINE e == [page EXCEPT !.focus = x]
<1>1. /\ e \in Pages /\ e.menu = page.menu /\ e.renaming = page.renaming
      /\ e.value = page.value /\ e.controls = page.controls /\ e.strip = page.strip
      /\ e.expanded = page.expanded /\ e.following = page.following
      /\ e.at = page.at /\ e.focus = x /\ e.refusal = page.refusal
  BY PageFacts DEF Pages
<1> HIDE DEF e
<1>2. Framed(e) /\ Filled(e) /\ Focused(e)
  BY <1>1, PageFacts, SoundSame DEF Focused
<1> QED
  BY <1>1, <1>2 DEF Framed, e

LEMMA OutsideStep ==
    ASSUME MenuInv, PressOutside
    PROVE  MenuInv' /\ StepKeeps
<1> DEFINE e == [page EXCEPT !.focus = Elsewhere]
<1>1. /\ e \in Pages /\ Framed(e) /\ Filled(e) /\ Focused(e)
      /\ e.refusal = page.refusal /\ e.value = page.value
      /\ e.renaming = page.renaming /\ e.strip = Anchors(e)
  <2>1. Elsewhere \in Spots /\ Elsewhere # Field
    BY SpotsApart DEF Spots, Buttons
  <2> QED
    BY <2>1, FocusMoves
<1>2. page' = IF page.renaming # None /\ page.value \notin {None, Blank, page.renaming} THEN e
              ELSE CloseMenu(e, FALSE)
  BY DEF PressOutside
<1> HIDE DEF e
<1>3. page.value # None => page.renaming # None
  BY PageFacts, ControlsAre DEF Filled
<1>4. PageSound /\ page'.refusal = page.refusal
  BY <1>1, <1>2, CloseMenuIs DEF PageSound
<1>5. Asked
  BY DEF PressOutside, Rests, promises, Asked, MenuInv, MenuTypeOK
<1> QED
  BY <1>1, <1>2, <1>3, <1>4, <1>5, StillStep DEF PressOutside, Rests

LEMMA TabStep ==
    ASSUME MenuInv, NEW x, Tab(x)
    PROVE  MenuInv' /\ StepKeeps
<1> DEFINE e == [page EXCEPT !.focus = x]
<1>1. x \in Spots /\ (x = Field => Field \in page.controls)
  BY PageFacts, SpotsApart DEF Tab, Spots, Buttons
<1>2. /\ e \in Pages /\ Framed(e) /\ Filled(e) /\ Focused(e)
      /\ e.refusal = page.refusal /\ e.value = page.value /\ e.renaming = page.renaming
  BY <1>1, FocusMoves
<1>3. page' = e
  BY DEF Tab
<1> HIDE DEF e
<1>4. PageSound /\ Asked
  BY <1>2, <1>3 DEF PageSound, Tab, Rests, promises, Asked, MenuInv, MenuTypeOK
<1> QED
  BY <1>2, <1>3, <1>4, StillStep DEF Tab, Rests

\* What lands is no longer under way.
LEMMA LandSteps ==
    ASSUME MenuInv, \/ \E r \in goTos : GoToLands(r)
                    \/ \E r \in follows : FollowLands(r)
    PROVE  MenuInv' /\ StepKeeps
<1> DEFINE g == CloseMenu(page, FALSE)
<1>1. /\ g \in Pages /\ Framed(g) /\ Filled(g) /\ Focused(g) /\ g.refusal = page.refusal
  BY PageFacts, CloseMenuIs
<1>2. CASE \E r \in goTos : GoToLands(r)
  <2>1. PICK r \in goTos : GoToLands(r)
    BY <1>2
  <2>2. page' \in {page, CloseMenu(page, TRUE)}
    BY <2>1 DEF GoToLands
  <2>3. PageSound /\ page'.refusal = page.refusal
    BY <2>2, PageFacts, CloseMenuIs DEF PageSound
  <2>4. Asked /\ ~(goTos \subseteq goTos')
    BY <2>1 DEF GoToLands, Asked, MenuInv, MenuTypeOK
  <2> QED
    BY <2>1, <2>3, <2>4, StillStep DEF GoToLands
<1>3. CASE \E r \in follows : FollowLands(r)
  <2>1. PICK r \in follows : FollowLands(r)
    BY <1>3
  <2>2. page' \in {page, FocusOn(g, Face(r.peer))}
    BY <2>1 DEF FollowLands
  <2> HIDE DEF g
  <2>3. PageSound /\ page'.refusal = page.refusal
    BY <1>1, <2>2, PageFacts, FocusOnIs DEF PageSound
  <2>4. Asked /\ ~(follows \subseteq follows')
    BY <2>1 DEF FollowLands, Asked, MenuInv, MenuTypeOK
  <2> QED
    BY <2>1, <2>3, <2>4, StillStep DEF FollowLands
<1> QED
  BY <1>2, <1>3

\* Another sentence under the same dialog.
LEMMA RefusalDraws ==
    ASSUME MenuInv, NEW q \in Peers \cup {None}, NEW selector \in Spots
    PROVE  LET f == RenderMenu([page EXCEPT !.refusal = q], selector)
           IN  /\ f \in Pages /\ Framed(f) /\ Filled(f) /\ Focused(f) /\ f.refusal = q
               /\ page.value # None => f.value = page.value /\ f.renaming = page.renaming
<1> DEFINE e == [page EXCEPT !.refusal = q]
<1>1. /\ e \in Pages /\ e.menu = page.menu /\ e.renaming = page.renaming
      /\ e.value = page.value /\ e.controls = page.controls /\ e.strip = page.strip
      /\ e.expanded = page.expanded /\ e.following = page.following
      /\ e.at = page.at /\ e.focus = page.focus /\ e.refusal = q
  BY PageFacts DEF Pages
<1> HIDE DEF e
<1>2. Framed(e) /\ Filled(e) /\ Focused(e)
  BY <1>1, PageFacts, SoundSame DEF Focused
<1>3. e.strip = Anchors(e) /\ (e.value # None => Field \in Controls(e))
  BY <1>2 DEF Framed, Filled
<1>4. LET f == RenderMenu(e, selector)
      IN  /\ f \in Pages /\ Framed(f) /\ Filled(f) /\ Focused(f) /\ f.refusal = q
          /\ page.value # None => f.value = page.value /\ f.renaming = page.renaming
  BY <1>1, <1>2, <1>3, RenderMenuIs
<1> QED
  BY <1>4 DEF e

LEMMA ShowStep ==
    ASSUME MenuInv, NEW r \in goTos, ShowGoToRefusal(r)
    PROVE  MenuInv' /\ StepKeeps
<1> DEFINE f == RenderMenu([page EXCEPT !.refusal = r.peer], Go)
<1>1. r.peer \in Peers /\ r.peer # None /\ Go \in Spots
  BY MenuAssumption DEF MenuInv, MenuTypeOK, Spots, Buttons
<1>2. f \in Pages /\ Framed(f) /\ Filled(f) /\ Focused(f) /\ f.refusal = r.peer
  BY <1>1, RefusalDraws
<1>3. \/ page' = f /\ stands' = {Stand} /\ stood' = 0
      \/ UNCHANGED <<page, stands, stood>>
  BY DEF ShowGoToRefusal, Cleared
<1> HIDE DEF f
<1>4. Asked /\ ~(goTos \subseteq goTos') /\ UNCHANGED <<visit, counts>>
  BY DEF ShowGoToRefusal, Asked, MenuInv, MenuTypeOK
<1>5. CASE page' = f /\ stands' = {Stand} /\ stood' = 0
  <2>1. PageSound /\ page'.refusal # None
    BY <1>1, <1>2, <1>5 DEF PageSound
  <2>2. RefusalTimed' /\ stands' \subseteq Nat /\ stood' \in Nat
    BY <1>5, MenuAssumption DEF RefusalTimed
  <2> QED
    BY <1>4, <2>1, <2>2, QuietStep
<1>6. CASE UNCHANGED <<page, stands, stood>>
  <2>1. PageSound /\ page'.refusal = page.refusal
    BY <1>6, PageFacts DEF PageSound
  <2> QED
    BY <1>4, <1>6, <2>1, StillStep
<1> QED
  BY <1>3, <1>5, <1>6

LEMMA WaitsStep ==
    ASSUME MenuInv, NEW r \in goTos, GoToWaits(r)
    PROVE  MenuInv' /\ StepKeeps
<1>1. [r EXCEPT !.waits = TRUE] \in [peer : Peers, session : Nat, waits : BOOLEAN]
  BY DEF MenuInv, MenuTypeOK
<1>2. Asked
  BY <1>1 DEF GoToWaits, Asked, MenuInv, MenuTypeOK
<1>3. PageSound
  BY PageFacts DEF GoToWaits, PageSound
<1> QED
  BY <1>2, <1>3, StillStep DEF GoToWaits

\* The one clock runs out when its refusal has stood its time.
LEMMA RefusalEndsStep ==
    ASSUME MenuInv, RefusalEnds
    PROVE  MenuInv' /\ StepKeeps
<1> DEFINE sel == IF page.focus \in page.controls THEN Go ELSE Elsewhere
           f == RenderMenu([page EXCEPT !.refusal = None], sel)
<1>1. sel \in Spots
  BY DEF Spots, Buttons
<1>2. page' = f
  BY DEF RefusalEnds
<1> HIDE DEF sel
<1>3. /\ f \in Pages /\ Framed(f) /\ Filled(f) /\ Focused(f) /\ f.refusal = None
      /\ page.value # None => f.value = page.value /\ f.renaming = page.renaming
  BY <1>1, RefusalDraws
<1> HIDE DEF f
<1>4. PageSound /\ page'.refusal = None
  BY <1>2, <1>3 DEF PageSound
<1>5. Asked /\ UNCHANGED <<visit, counts>> /\ stood' \in Nat /\ stands' \subseteq Nat
  BY DEF RefusalEnds, promises, Asked, MenuInv, MenuTypeOK
<1>6. RefusalTimed'
  BY <1>4 DEF RefusalTimed
<1>7. page.refusal # None => stood = Stand
  <2> SUFFICES ASSUME page.refusal # None PROVE stood = Stand
    OBVIOUS
  <2>1. stands = {Stand - stood} /\ 0 \in stands /\ stood \in Nat /\ Stand \in Nat
    BY MenuAssumption DEF MenuInv, MenuTypeOK, RefusalTimed, RefusalEnds
  <2>2. Stand - stood = 0
    BY <2>1
  <2> QED
    BY <2>1, <2>2
<1> QED
  BY <1>2, <1>3, <1>4, <1>5, <1>6, <1>7, QuietStep

LEMMA TimeStep ==
    ASSUME MenuInv, TimePasses
    PROVE  MenuInv' /\ StepKeeps
<1>1. Stand \in Nat /\ stood \in Nat /\ stands \subseteq Nat /\ 0 \notin stands
  BY MenuAssumption DEF MenuInv, MenuTypeOK, TimePasses
<1>2. /\ page' = page /\ Asked /\ UNCHANGED <<visit, counts>>
      /\ stands' = {t - 1 : t \in stands}
      /\ stood' = IF page.refusal = None THEN 0 ELSE stood + 1
  BY DEF TimePasses, promises, Asked, MenuInv, MenuTypeOK
<1>3. PageSound
  BY <1>2, PageFacts DEF PageSound
<1>4. \A t \in stands : t - 1 \in Nat
  BY <1>1
<1>5. stands' \subseteq Nat /\ stood' \in Nat
  BY <1>1, <1>2, <1>4
<1>6. RefusalTimed'
  <2> SUFFICES ASSUME page.refusal # None
               PROVE  stands' = {Stand - stood'} /\ stood' <= Stand
    BY <1>2 DEF RefusalTimed
  <2>1. stands = {Stand - stood} /\ stood <= Stand
    BY DEF MenuInv, RefusalTimed
  <2>2. stands' = {(Stand - stood) - 1} /\ stood' = stood + 1 /\ Stand - stood # 0
    BY <1>1, <1>2, <2>1
  <2>3. (Stand - stood) - 1 = Stand - stood' /\ stood' <= Stand
    BY <1>1, <2>1, <2>2
  <2> QED
    BY <2>2, <2>3
<1> QED
  BY <1>2, <1>3, <1>5, <1>6, QuietStep

LEMMA NameStep ==
    ASSUME MenuInv, NEW taken \in BOOLEAN, RenameAnswered(taken)
    PROVE  MenuInv' /\ StepKeeps
<1> DEFINE r == Head(renames)
           e == IF taken THEN [page EXCEPT !.selfName = r.name] ELSE page
<1>1. r \in [name : Names, session : Nat] /\ renames' \in Seq([name : Names, session : Nat])
  <2> DEFINE T == [name : Names, session : Nat]
  <2>1. renames \in Seq(T) /\ renames # <<>> /\ renames' = Tail(renames)
    BY DEF RenameAnswered, MenuInv, MenuTypeOK
  <2> HIDE DEF T
  <2>2. Head(renames) \in T /\ Tail(renames) \in Seq(T)
    BY <2>1
  <2> QED
    BY <2>1, <2>2 DEF T
<1>2. page' = IF ~Active(r) THEN page ELSE Renamed(e)
  BY DEF RenameAnswered
<1> HIDE DEF r
<1>3. /\ e \in Pages /\ e.menu = page.menu /\ e.renaming = page.renaming
      /\ e.value = page.value /\ e.controls = page.controls /\ e.focus = page.focus
      /\ e.refusal = page.refusal
  BY <1>1, PageFacts DEF Pages
<1> HIDE DEF e
<1>4. Focused(e)
  BY <1>3, PageFacts DEF Focused
<1> DEFINE f == Renamed(e)
<1>5. /\ f \in Pages /\ Framed(f) /\ Filled(f) /\ Focused(f) /\ f.refusal = e.refusal
      /\ e.value # None => f.value = e.value /\ f.renaming = e.renaming
  BY <1>3, <1>4, PageFacts, RenamedIs
<1> HIDE DEF f
<1>6. /\ PageSound /\ page'.refusal = page.refusal
      /\ page.value # None => page'.value = page.value /\ page'.renaming = page.renaming
  BY <1>2, <1>3, <1>5, PageFacts DEF PageSound, f
<1>7. Asked
  BY <1>1 DEF RenameAnswered, Asked, MenuInv, MenuTypeOK
<1> QED
  BY <1>6, <1>7, StillStep DEF RenameAnswered

\* A frame draws the room once, and once more when the one who is followed has gone: of
\* that second draw the strip is the same, and the dialog no larger.
LEMMA FrameStep ==
    ASSUME MenuInv, NEW p \in Peers, PresenceFrame(p)
    PROVE  MenuInv' /\ StepKeeps
<1>0. PICK at \in {Without(page.at, p), [page.at EXCEPT ![p] = ~@]} :
        LET e == DrawRoom([page EXCEPT !.at = at])
        IN  page' = IF page.following \in DOMAIN page.at \ DOMAIN at THEN SyncFollow(e, None) ELSE e
  BY DEF PresenceFrame
<1> DEFINE d == [page EXCEPT !.at = at]
           e == DrawRoom(d)
           g == SyncFollow(e, None)
<1>1. at \in UNION {[S -> BOOLEAN] : S \in SUBSET Peers}
  <2>1. PICK S \in SUBSET Peers : page.at \in [S -> BOOLEAN]
    BY PageFacts DEF Pages
  <2>2. Without(page.at, p) \in [S \ {p} -> BOOLEAN]
    BY <2>1 DEF Without
  <2>3. [page.at EXCEPT ![p] = ~@] \in [S -> BOOLEAN]
    BY <2>1
  <2>4. at \in [S -> BOOLEAN] \/ at \in [S \ {p} -> BOOLEAN]
    BY <1>0, <2>2, <2>3
  <2> QED
    BY <2>4
<1>2. /\ d \in Pages /\ d.menu = page.menu /\ d.renaming = page.renaming
      /\ d.value = page.value /\ d.controls = page.controls /\ d.focus = page.focus
      /\ d.refusal = page.refusal /\ d.at = at /\ d.following = page.following
  BY <1>1, PageFacts DEF Pages
<1>3. page' = IF page.following \in DOMAIN page.at \ DOMAIN at THEN g ELSE e
  BY <1>0
<1> HIDE DEF d
<1>4. Focused(d)
  BY <1>2, PageFacts DEF Focused
<1>5. /\ e \in Pages /\ Framed(e) /\ Filled(e) /\ Focused(e) /\ e.refusal = page.refusal
      /\ e.following = page.following /\ e.at = at
      /\ page.value # None => e.value = page.value /\ e.renaming = page.renaming
      /\ page.focus \in (e.controls \ {Follows}) \cup {Face(a) : a \in e.strip}
            => e.focus = page.focus
  BY <1>2, <1>4, PageFacts, DrawRoomIs
<1> HIDE DEF e
<1>6. /\ g \in Pages /\ Framed(g) /\ Filled(g) /\ Focused(g) /\ g.refusal = e.refusal
      /\ g.at = e.at /\ g.following = None
      /\ \/ g.menu = e.menu /\ g.renaming = e.renaming
         \/ g.menu = NoMenu /\ g.controls = {}
      /\ e.value # None => g.value = e.value /\ g.renaming = e.renaming
      /\ e.focus \in (g.controls \ {Follows}) \cup {Face(a) : a \in g.strip}
            => g.focus = e.focus
  BY <1>5, SyncFollowIs
<1> HIDE DEF g
<1>7. page.following \in DOMAIN page.at \ DOMAIN at => g.strip = e.strip
  <2> SUFFICES ASSUME page.following \in DOMAIN page.at \ DOMAIN at PROVE g.strip = e.strip
    OBVIOUS
  <2>1. page.following \in Peers /\ InRoom(g) = {Self} \cup DOMAIN at /\ DOMAIN at \subseteq Peers
    <3>1. DOMAIN page.at \subseteq Peers /\ DOMAIN at \subseteq Peers
      BY <1>1, PageFacts DEF Pages
    <3> QED
      BY <1>5, <1>6, <3>1 DEF InRoom
  <2>2. {g.following, e.following} \cap InRoom(g) = {}
    BY <1>5, <1>6, <2>1, MenuAssumption
  <2>3. Anchors(g) = Anchors(e)
    BY <1>5, <1>6, <2>2, AnchorsSame
  <2> QED
    BY <1>5, <1>6, <2>3 DEF Framed
<1>8. g.controls \subseteq e.controls
  BY <1>5, <1>6, ControlsSame DEF Filled
<1>9. /\ PageSound /\ page'.refusal = page.refusal
      /\ page.value # None => page'.value = page.value /\ page'.renaming = page.renaming
  BY <1>3, <1>5, <1>6 DEF PageSound
<1>10. page.focus \in (page'.controls \ {Follows}) \cup {Face(a) : a \in page'.strip}
            => page'.focus = page.focus
  <2>1. CASE page' = e
    BY <1>5, <2>1
  <2>2. CASE page.following \in DOMAIN page.at \ DOMAIN at /\ page' = g
    <3> SUFFICES ASSUME page.focus \in (g.controls \ {Follows}) \cup {Face(a) : a \in g.strip}
                 PROVE  g.focus = page.focus
      BY <2>2
    <3>1. page.focus \in (e.controls \ {Follows}) \cup {Face(a) : a \in e.strip}
      BY <1>7, <1>8, <2>2
    <3> QED
      BY <1>5, <1>6, <3>1
  <2> QED
    BY <1>3, <2>1, <2>2
<1>11. Asked /\ UNCHANGED <<stands, stood, visit, presses>> /\ draws' \in Nat
       /\ goTos' = goTos /\ follows' = follows
  BY DEF PresenceFrame, Rests, promises, Asked, MenuInv, MenuTypeOK
<1>12. MenuTypeOK'
  BY <1>9, <1>11 DEF MenuInv, MenuTypeOK, Asked, PageSound
<1>13. RefusalTimed'
  BY <1>9, <1>11 DEF MenuInv, RefusalTimed
<1>14. Framed(page)' /\ Filled(page)' /\ Focused(page)'
  BY <1>9 DEF PageSound, Framed, Filled, Focused, Anchors, Controls, VisibleFaces, InRoom, PersonActs
<1>15. StepKeeps
  BY <1>9, <1>10, <1>11 DEF StepKeeps
<1> QED
  BY <1>12, <1>13, <1>14, <1>15 DEF MenuInv

-----------------------------------------------------------------------------
LEMMA MenuInitInv == MenuInit => MenuInv
<1> DEFINE e == [menu |-> NoMenu, renaming |-> None, value |-> None, focus |-> Elsewhere,
                 controls |-> {}, strip |-> {}, expanded |-> {}, refusal |-> None,
                 following |-> None, selfName |-> First, at |-> [p \in Peers |-> TRUE]]
<1> SUFFICES ASSUME MenuInit PROVE MenuInv
  OBVIOUS
<1>1. NoMenu \in Menus /\ NoMenu.view = "none"
  BY DEF Menus, NoMenu
<1>2. [p \in Peers |-> TRUE] \in UNION {[S -> BOOLEAN] : S \in SUBSET Peers}
  <2>1. [p \in Peers |-> TRUE] \in [Peers -> BOOLEAN]
    OBVIOUS
  <2> QED
    BY <2>1
<1>3. /\ e \in Pages /\ e.menu = NoMenu /\ e.controls = {} /\ e.value = None /\ e.expanded = {}
      /\ e.focus = Elsewhere /\ e.refusal = None
  BY <1>1, <1>2 DEF Pages, Spots, Names
<1>4. page = Fresh(e)
  BY DEF MenuInit
<1> HIDE DEF e
<1>5. Filled(e) /\ Focused(e)
  BY <1>1, <1>3, ControlsAre, SpotsApart DEF Filled, Focused, Buttons
<1>6. /\ page \in Pages /\ Framed(page) /\ Filled(page) /\ Focused(page) /\ page.refusal = None
  BY <1>3, <1>4, <1>5, FreshIs
<1>7. MenuTypeOK
  BY <1>6 DEF MenuInit, MenuTypeOK
<1> QED
  BY <1>6, <1>7 DEF MenuInv, RefusalTimed

LEMMA MenuStep == MenuInv /\ MenuNext => MenuInv' /\ StepKeeps
<1> SUFFICES ASSUME MenuInv, MenuNext PROVE MenuInv' /\ StepKeeps
  OBVIOUS
<1>1. CASE \E a \in Peers \cup {Self, More} : PressAnchor(a)
  BY <1>1, PressAnchorStep
<1>2. CASE \E p \in Peers \cup {Self} : PickFromList(p)
  BY <1>2, PickStep
<1>3. CASE \E x \in page.controls \cup {Face(a) : a \in page.strip} \cup {Elsewhere} : Tab(x)
  BY <1>3, TabStep
<1>4. CASE \E t \in Typings : Type(t)
  BY <1>4, TypingStep
<1>5. CASE BackToEveryone \/ Escape \/ PressOutside \/ StartRename \/ CancelRename \/ CommitRename
  BY <1>5, BackStep, EscapeStep, OutsideStep, RenameSteps, CommitStep
<1>6. CASE \E p \in Peers : GoTo(p) \/ Follow(p) \/ StopFollow(p)
  BY <1>6, FollowSteps
<1>7. CASE FollowEnds
  <2>1. \E p : p \in Peers
    BY <1>7, PageFacts DEF FollowEnds, Pages
  <2> QED
    BY <1>7, <2>1, FollowSteps
<1>8. CASE Leaves
  BY <1>8, LeavesStep
<1>9. CASE \E r \in goTos : GoToLands(r) \/ ShowGoToRefusal(r) \/ GoToWaits(r)
  BY <1>9, LandSteps, ShowStep, WaitsStep
<1>10. CASE \E r \in follows : FollowLands(r)
  BY <1>10, LandSteps
<1>11. CASE \E taken \in BOOLEAN : RenameAnswered(taken)
  BY <1>11, NameStep
<1>12. CASE \E p \in Peers : PresenceFrame(p)
  BY <1>12, FrameStep
<1>13. CASE RefusalEnds \/ TimePasses
  BY <1>13, RefusalEndsStep, TimeStep
<1> QED
  BY <1>1, <1>2, <1>3, <1>4, <1>5, <1>6, <1>7, <1>8, <1>9, <1>10, <1>11, <1>12, <1>13 DEF MenuNext

\* Of a step that the page takes no part in.
LEMMA MenuRests == MenuInv /\ UNCHANGED menuVars => MenuInv' /\ StepKeeps
<1> SUFFICES ASSUME MenuInv, UNCHANGED menuVars PROVE MenuInv' /\ StepKeeps
  OBVIOUS
<1>1. UNCHANGED <<page, goTos, follows, renames, stands, stood, visit, presses, draws>>
  BY DEF menuVars, promises, counts
<1>2. PageSound /\ Asked
  BY <1>1, PageFacts DEF PageSound, Asked, MenuInv, MenuTypeOK
<1> QED
  BY <1>1, <1>2, StillStep DEF counts

\* The theorem: however frames, answers, clocks and presses interleave, the strip and the dialog
\* are the room's, and a typed name, focus and a refusal are each kept as they are promised
\* (src/src/browser/main.ts, drawRoom, renameView, showGoToRefusal).
THEOREM MenuStaysThePersons == MenuSpec => MenuIsThePersons
<1>1. MenuInv /\ [MenuNext]_menuVars => MenuInv' /\ StepKeeps
  BY MenuStep, MenuRests
<1>2. MenuInv => DialogIsTheRoom
  BY DEF MenuInv, Framed, Filled, DialogIsTheRoom
<1>3. StepKeeps => /\ page.value # None /\ page.value \notin {Blank, page.renaming}
                      /\ presses' = presses /\ visit' = visit
                      /\ goTos \subseteq goTos' /\ follows \subseteq follows'
                      => page'.value = page.value /\ page'.renaming = page.renaming
  BY DEF StepKeeps
<1>4. StepKeeps => /\ draws' # draws /\ page.focus # Follows
                      /\ page.focus \in page'.controls \cup {Face(a) : a \in page'.strip}
                      => page'.focus = page.focus
  BY DEF StepKeeps
<1>5. StepKeeps => (page.refusal # None /\ page'.refusal = None => stood = Stand \/ visit' # visit)
  BY DEF StepKeeps
<1>6. MenuSpec => []DialogIsTheRoom
  BY <1>1, <1>2, MenuInitInv, PTL DEF MenuSpec
<1>7. MenuSpec => TypedNameIsKept
  BY <1>1, <1>3, MenuInitInv, PTL DEF MenuSpec, TypedNameIsKept
<1>8. MenuSpec => FocusIsKept
  BY <1>1, <1>4, MenuInitInv, PTL DEF MenuSpec, FocusIsKept
<1>9. MenuSpec => RefusalStands
  BY <1>1, <1>5, MenuInitInv, PTL DEF MenuSpec, RefusalStands
<1> QED
  BY <1>6, <1>7, <1>8, <1>9, PTL DEF MenuIsThePersons
=============================================================================
