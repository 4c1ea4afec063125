----------------------------- MODULE PageProofs -----------------------------
(***************************************************************************)
(* What holds of the page.                                                 *)
(*                                                                         *)
(* Of Page, for any number of ways in and reloads: its types, that a card  *)
(* with nothing behind it can be used, and, where the two ways in are not  *)
(* taken at once, that the tab remembers what is so and holds one session. *)
(*                                                                         *)
(* Of Tree, for any paths and listings: that the pane shows what the view  *)
(* holds, and that a create's answer is given to the row that asked.       *)
(*                                                                         *)
(* Of Opening, for any documents, participants and carets: that what is in *)
(* front of the editor is what was asked for last.                         *)
(***************************************************************************)
EXTENDS Page, Tree, Opening, FiniteSetTheorems, TLAPS

-----------------------------------------------------------------------------
(* The invariants.                                                         *)

\* A way in that has not reached its session, and one that has.
Going(t) == tries[t].at \in {"queued", "prepare", "dial", "pick", "list", "mint"}
Came(t)  == tries[t].at \in {"first", "over"}

\* A gate is closed by a way in that is going, or by the session it led to; an open join gate
\* has its button; the card is in front where there is no session; and nothing has begun before
\* the bundle runs.
Gates ==
    /\ hosting => \E t \in Try : Hosts(t) /\ Going(t)
    /\ settled /\ seat = 0 => \E t \in Try : ~Hosts(t) /\ Going(t)
    /\ ~settled => card.joinOn
    /\ card.shown <=> seat = 0
    /\ ~card.armed => ~settled /\ ~hosting /\ seat = 0 /\ \A t \in Try : ~Going(t)

\* The start action is shown by what was last read of the origin, and stands while it is answered.
Offers ==
    /\ card.hostOn => card.intent = "start" /\ Offered(card, card.read)
    /\ hosting => card.hostOn
    /\ card.asking = 0 => card.read = "unread"
    /\ ~card.armed => card.asking = 0

\* A number is taken in its turn, a stage belongs to one of the two ways in, and what the page
\* remembers of a session is of one that came.
Numbered ==
    /\ \A t \in Try : t > begun => tries[t].at = "none"
    /\ \A t \in Try : tries[t].at \in {"queued", "dial", "first"} => ~Hosts(t)
    /\ \A t \in Try : tries[t].at \in {"pick", "list", "mint"} => Hosts(t)
    /\ seat # 0 => Came(seat)
    /\ bar \in Try => Came(bar)
    /\ \A t \in told.left : Came(t)

\* One way in at a time, with its gate closed and no session yet; a session whose first document
\* is being opened is the one the page holds, if it still holds one; and what the tab keeps is
\* that session's.
OneAtATime ==
    calm =>
        /\ \A t, u \in Try : Going(t) /\ Going(u) => t = u
        /\ \A t \in Try : Going(t) => seat = 0 /\ (IF Hosts(t) THEN hosting ELSE settled)
        /\ \A t \in Try : tries[t].at = "first" => seat \in {0, t}
        /\ mark <=> Hosts(seat)
        /\ seat \notin told.left

PageInv == TypeOK /\ Gates /\ Offers /\ Numbered /\ OneAtATime /\ TabRemembers

-----------------------------------------------------------------------------
(* The card, the ways in and the leave, as the steps change them.          *)

LEMMA ShowHostingFacts ==
    ASSUME NEW c \in CardType, NEW read \in Reads
    PROVE  /\ ShowHosting(c, read) \in CardType
           /\ \A f \in {"armed", "loaded", "shown", "joinOn", "intent", "linkIsTheInvite", "picker",
                        "asking"} : ShowHosting(c, read)[f] = c[f]
           /\ ShowHosting(c, read).read = read
           /\ ShowHosting(c, read).hostOn <=> c.intent = "start" /\ Offered(c, read)
<1>1. (c.intent = "start" /\ Offered(c, read)) \in BOOLEAN
  BY DEF Offered
<1> QED BY <1>1 DEF ShowHosting, CardType

LEMMA HandedBackFacts ==
    ASSUME NEW c \in CardType
    PROVE  /\ HandedBack(c) \in CardType /\ HandedBack(c).joinOn
           /\ \A f \in {"armed", "loaded", "shown", "intent", "linkIsTheInvite", "picker", "read",
                        "asking", "hostOn"} : HandedBack(c)[f] = c[f]
BY DEF HandedBack, CardType

\* A card shown again offers a room as it was last read.
LEMMA StartAgainFacts ==
    ASSUME NEW c \in CardType
    PROVE  /\ StartAgain(c) \in CardType /\ StartAgain(c).joinOn /\ StartAgain(c).shown
           /\ StartAgain(c).intent = "start"
           /\ \A f \in {"armed", "loaded", "picker", "read", "asking"} : StartAgain(c)[f] = c[f]
           /\ StartAgain(c).hostOn <=>
                IF c.read = "unread" THEN c.hostOn ELSE Offered(c, c.read)
<1> DEFINE b == [HandedBack(c) EXCEPT !.intent = "start", !.shown = TRUE, !.linkIsTheInvite = FALSE]
<1>1. /\ b \in CardType /\ b.joinOn /\ b.shown /\ b.intent = "start"
      /\ \A f \in {"armed", "loaded", "picker", "read", "asking", "hostOn"} : b[f] = c[f]
  BY DEF HandedBack, CardType
<1>2. b.read \in Reads /\ (Offered(b, b.read) <=> Offered(c, c.read))
  BY <1>1 DEF CardType, Offered
<1>3. StartAgain(c) = IF b.read = "unread" THEN b ELSE ShowHosting(b, b.read)
  BY DEF StartAgain, ShowsAgain
<1> HIDE DEF b
<1>4. CASE b.read = "unread"
  BY <1>1, <1>3, <1>4
<1>5. CASE b.read # "unread"
  BY <1>1, <1>2, <1>3, <1>5, ShowHostingFacts
<1> QED BY <1>4, <1>5

LEMMA FreshCardFacts ==
    ASSUME NEW link \in BOOLEAN, NEW picker \in BOOLEAN
    PROVE  /\ FreshCard(link, picker) \in CardType
           /\ FreshCard(link, picker).joinOn /\ FreshCard(link, picker).shown
           /\ ~FreshCard(link, picker).armed /\ ~FreshCard(link, picker).hostOn
           /\ FreshCard(link, picker).read = "unread" /\ FreshCard(link, picker).asking = 0
BY DEF FreshCard, CardType, Reads

\* A way in goes on by itself.
LEMMA MovesFacts ==
    ASSUME TypeOK, NEW t \in Try, NEW stage \in Stages, Moves(t, stage)
    PROVE  /\ tries' \in [Try -> [kind: Kinds, at: Stages]]
           /\ tries'[t].at = stage
           /\ \A u \in Try : tries'[u].kind = tries[u].kind /\ (u # t => tries'[u] = tries[u])
BY DEF TypeOK, Moves

\* A way in begins: the next number is taken by a try that none was.
LEMMA BeginsFacts ==
    ASSUME PageAssumption, TypeOK, begun < MaxTries, NEW kind \in Kinds, NEW stage \in Stages,
           tries' = [tries EXCEPT ![begun + 1] = [kind |-> kind, at |-> stage]]
    PROVE  /\ begun + 1 \in Try /\ begun + 1 \in 0..MaxTries
           /\ tries' \in [Try -> [kind: Kinds, at: Stages]]
           /\ tries'[begun + 1].kind = kind /\ tries'[begun + 1].at = stage
           /\ \A u \in Try : u # begun + 1 => tries'[u] = tries[u]
<1>1. begun + 1 \in Try /\ begun + 1 \in 0..MaxTries
  BY DEF PageAssumption, TypeOK, Try
<1> QED BY <1>1 DEF TypeOK

\* What a submit leaves behind: nothing but an answered card, a duplicate, or a way in.
LEMMA AttemptFacts ==
    ASSUME PageAssumption, TypeOK, NEW c \in CardType, AttemptJoin(c)
    PROVE  /\ card' \in CardType /\ tries' \in [Try -> [kind: Kinds, at: Stages]]
           /\ begun' \in 0..MaxTries /\ settled' \in BOOLEAN
           /\ \A f \in {"armed", "shown", "intent", "picker", "read", "asking", "hostOn"} :
                 card'[f] = c[f]
           /\ \/ UNCHANGED <<tries, begun, settled>> /\ (settled \/ card'.joinOn)
              \/ /\ ~settled /\ settled' /\ begun' = begun + 1 /\ begun + 1 \in Try
                 /\ tries'[begun + 1].kind = "join"
                 /\ tries'[begun + 1].at \in {"prepare", "queued"}
                 /\ \A u \in Try : u # begun + 1 => tries'[u] = tries[u]
<1>1. \A on \in BOOLEAN :
         /\ [c EXCEPT !.joinOn = on] \in CardType /\ [c EXCEPT !.joinOn = on].joinOn = on
         /\ \A f \in {"armed", "shown", "intent", "picker", "read", "asking", "hostOn"} :
               [c EXCEPT !.joinOn = on][f] = c[f]
  BY DEF CardType
<1>2. CASE card' = [c EXCEPT !.joinOn = TRUE] /\ UNCHANGED <<tries, begun, settled>>
  BY <1>1, <1>2 DEF TypeOK
<1>3. CASE settled /\ card' = c /\ UNCHANGED <<tries, begun, settled>>
  BY <1>3 DEF TypeOK
<1>4. CASE /\ ~settled /\ begun < MaxTries /\ settled' = TRUE /\ begun' = begun + 1
           /\ tries' = [tries EXCEPT ![begun + 1] =
                          [kind |-> "join", at |-> IF c.loaded THEN "prepare" ELSE "queued"]]
           /\ card' = [c EXCEPT !.joinOn = FALSE]
  <2>1. PICK stage \in {"prepare", "queued"} :
            tries' = [tries EXCEPT ![begun + 1] = [kind |-> "join", at |-> stage]]
    BY <1>4
  <2>2. "join" \in Kinds /\ stage \in Stages
    BY DEF Kinds, Stages
  <2> QED BY <1>1, <1>4, <2>1, <2>2, BeginsFacts
<1> QED BY <1>2, <1>3, <1>4 DEF AttemptJoin

\* What a leave leaves behind, where there was a session to leave.
LEMMA LeaveFacts ==
    ASSUME PageAssumption, TypeOK, NEW closing \in 0..2, LeaveSession(closing)
    PROVE  /\ seat' = 0 /\ card' \in CardType /\ settled' \in BOOLEAN /\ linkGuard' \in 0..MaxTries
           /\ leave' \in [asking: BOOLEAN, closing: 0..2, disposed: BOOLEAN]
           /\ guards' \subseteq guards /\ engines' \subseteq engines
           /\ bar' \in {bar, 0} /\ mark' \in BOOLEAN
           /\ told' \in [was: BOOLEAN, said: BOOLEAN, left: SUBSET Try]
           /\ told'.was = told.was /\ told'.said = told.said
           /\ IF seat = 0
              THEN UNCHANGED <<bar, mark, card, settled, told, engines>>
              ELSE /\ bar' = 0 /\ mark' = FALSE /\ settled' = FALSE
                   /\ card' = StartAgain(card) /\ engines' = engines \ {seat}
                   /\ told'.left = told.left \cup {seat}
<1>1. leave \in [asking: BOOLEAN, closing: 0..2, disposed: BOOLEAN] /\ card \in CardType
      /\ told \in [was: BOOLEAN, said: BOOLEAN, left: SUBSET Try] /\ 0 \in 0..MaxTries
  BY DEF TypeOK, PageAssumption
<1>2. CASE seat = 0
  <2>1. leave' \in [asking: BOOLEAN, closing: 0..2, disposed: BOOLEAN]
    BY <1>1, <1>2 DEF LeaveSession
  <2>2. UNCHANGED <<guards, engines, linkGuard, seat, bar, mark, card, settled, told>>
    BY <1>2 DEF LeaveSession
  <2>3. settled \in BOOLEAN /\ mark \in BOOLEAN /\ linkGuard \in 0..MaxTries
    BY DEF TypeOK
  <2> QED BY <1>1, <1>2, <2>1, <2>2, <2>3
<1>3. CASE seat # 0
  <2>1. leave' \in [asking: BOOLEAN, closing: 0..2, disposed: BOOLEAN]
    <3>1. \A no \in BOOLEAN : [asking |-> no, closing |-> closing, disposed |-> no]
                                \in [asking: BOOLEAN, closing: 0..2, disposed: BOOLEAN]
      OBVIOUS
    <3> QED BY <1>3, <3>1 DEF LeaveSession
  <2>2. seat \in Try
    BY <1>3 DEF TypeOK, Try
  <2>3. told.left \cup {seat} \in SUBSET Try /\ told' = [told EXCEPT !.left = told.left \cup {seat}]
    BY <1>1, <1>3, <2>2 DEF LeaveSession
  <2>4. /\ told' \in [was: BOOLEAN, said: BOOLEAN, left: SUBSET Try]
        /\ told'.was = told.was /\ told'.said = told.said /\ told'.left = told.left \cup {seat}
    BY <1>1, <2>3
  <2>5. card' = StartAgain(card) /\ card' \in CardType
    BY <1>1, <1>3, StartAgainFacts DEF LeaveSession
  <2> QED BY <1>1, <1>3, <2>1, <2>4, <2>5 DEF LeaveSession, DropSession, ForgetsTheRoom
<1> QED BY <1>2, <1>3

\* The three ways to leave: a session is left, or the question of a host is.
LEMMA LeavingFacts ==
    ASSUME TypeOK, PressLeave \/ ClosingDone \/ RoomGone
    PROVE  /\ UNCHANGED <<tries, begun, hosting, calm, reloads>>
           /\ \/ \E n \in 0..2 : LeaveSession(n)
              \/ /\ UNCHANGED <<guards, engines, linkGuard, seat, bar, mark, card, settled, told>>
                 /\ leave' \in [asking: BOOLEAN, closing: 0..2, disposed: BOOLEAN]
<1>1. leave.closing \in 0..2 /\ leave \in [asking: BOOLEAN, closing: 0..2, disposed: BOOLEAN]
  BY DEF TypeOK
<1>2. CASE PressLeave
  <2>1. (~leave.asking) \in BOOLEAN
    OBVIOUS
  <2> QED BY <1>1, <1>2, <2>1 DEF PressLeave
<1>3. CASE ClosingDone
  <2>1. leave.closing - 1 \in 0..2
    BY <1>1, <1>3 DEF ClosingDone
  <2> QED BY <1>3, <2>1 DEF ClosingDone
<1>4. CASE RoomGone
  BY <1>1, <1>4 DEF RoomGone
<1> QED BY <1>2, <1>3, <1>4

\* A session is seated in front of the card.
LEMMA SeatFacts ==
    ASSUME TypeOK, NEW t \in Try, SeatSession(t)
    PROVE  /\ seat' = t /\ engines' = engines \cup {t} /\ t \in 0..MaxTries
           /\ card' \in CardType /\ ~card'.shown
           /\ \A f \in {"armed", "joinOn", "intent", "picker", "read", "asking", "hostOn"} :
                 card'[f] = card[f]
<1>1. card' = [card EXCEPT !.shown = FALSE] /\ card \in CardType
  BY DEF TypeOK, SeatSession
<1>2. /\ card' \in CardType /\ ~card'.shown
      /\ \A f \in {"armed", "joinOn", "intent", "picker", "read", "asking", "hostOn"} :
            card'[f] = card[f]
  BY <1>1 DEF CardType
<1> QED BY <1>2 DEF SeatSession, Try

\* What a read of the origin leaves on the card.
LEMMA ReadFacts ==
    ASSUME TypeOK, FirstRead \/ SecondRead
    PROVE  /\ card' \in CardType /\ card'.asking \in {1, 2}
           /\ \A f \in {"armed", "shown", "joinOn", "intent", "picker"} : card'[f] = card[f]
           /\ \/ card'.read = card.read /\ card'.hostOn = card.hostOn
              \/ /\ ~hosting \/ card.asking = 0
                 /\ card'.hostOn <=> card.intent = "start" /\ Offered(card, card'.read)
           /\ UNCHANGED <<tries, begun, settled, hosting, seat, linkGuard, guards, engines, leave,
                          bar, mark, calm, reloads, told>>
<1>1. \A c \in CardType, n \in {1, 2} :
         /\ [c EXCEPT !.asking = n] \in CardType /\ [c EXCEPT !.asking = n].asking = n
         /\ \A f \in {"armed", "shown", "joinOn", "intent", "picker", "read", "hostOn"} :
               [c EXCEPT !.asking = n][f] = c[f]
  BY DEF CardType
<1>2. card \in CardType
  BY DEF TypeOK
<1>3. CASE FirstRead
  <2>1. PICK read \in Reads :
            /\ card.asking = 0
            /\ \/ card' = [ShowHosting(card, read) EXCEPT !.asking = 1]
               \/ card' = [ShowHosting(card, read) EXCEPT !.asking = 2]
    BY <1>3 DEF FirstRead, Reads
  <2>2. ShowHosting(card, read) \in CardType
    BY <1>2, ShowHostingFacts
  <2>3. /\ card' \in CardType /\ card'.asking \in {1, 2}
        /\ \A f \in {"armed", "shown", "joinOn", "intent", "picker", "read", "hostOn"} :
              card'[f] = ShowHosting(card, read)[f]
    <3>1. CASE card' = [ShowHosting(card, read) EXCEPT !.asking = 1]
      BY <1>1, <2>2, <3>1
    <3>2. CASE card' = [ShowHosting(card, read) EXCEPT !.asking = 2]
      BY <1>1, <2>2, <3>2
    <3> QED BY <2>1, <3>1, <3>2
  <2>4. card'.hostOn <=> card.intent = "start" /\ Offered(card, card'.read)
    <3>1. card'.read = read /\ card'.hostOn = ShowHosting(card, read).hostOn
      BY <1>2, <2>3, ShowHostingFacts
    <3>2. ShowHosting(card, read).hostOn <=> card.intent = "start" /\ Offered(card, read)
      BY <1>2, ShowHostingFacts
    <3> QED BY <3>1, <3>2
  <2>5. \A f \in {"armed", "shown", "joinOn", "intent", "picker"} : card'[f] = card[f]
    BY <1>2, <2>3, ShowHostingFacts
  <2> QED BY <1>3, <2>1, <2>3, <2>4, <2>5 DEF FirstRead
<1>4. CASE SecondRead
  <2>1. PICK read \in Reads :
            \/ card' = [card EXCEPT !.asking = 2]
            \/ card' = [ShowHosting(card, read) EXCEPT !.asking = 2] /\ ~hosting
    BY <1>4 DEF SecondRead, Reread
  <2>2. ShowHosting(card, read) \in CardType
    BY <1>2, ShowHostingFacts
  <2>3. CASE card' = [card EXCEPT !.asking = 2]
    BY <1>1, <1>2, <1>4, <2>3 DEF SecondRead
  <2>4. CASE card' = [ShowHosting(card, read) EXCEPT !.asking = 2] /\ ~hosting
    <3>1. /\ card' \in CardType /\ card'.asking = 2
          /\ \A f \in {"armed", "shown", "joinOn", "intent", "picker", "read", "hostOn"} :
                card'[f] = ShowHosting(card, read)[f]
      BY <1>1, <2>2, <2>4
    <3>2. card'.hostOn <=> card.intent = "start" /\ Offered(card, card'.read)
      BY <1>2, <3>1, ShowHostingFacts
    <3>3. \A f \in {"armed", "shown", "joinOn", "intent", "picker"} : card'[f] = card[f]
      BY <1>2, <3>1, ShowHostingFacts
    <3> QED BY <1>4, <2>4, <3>1, <3>2, <3>3 DEF SecondRead
  <2> QED BY <2>1, <2>3, <2>4
<1> QED BY <1>3, <1>4

\* A guest's card that becomes the start card offers a room.
LEMMA SwapFacts ==
    ASSUME TypeOK, SwapCardToStart
    PROVE  /\ card' \in CardType /\ card'.intent = "start" /\ card'.hostOn
           /\ Offered(card, card.read)
           /\ \A f \in {"armed", "shown", "joinOn", "picker", "read", "asking"} : card'[f] = card[f]
<1> DEFINE b == [card EXCEPT !.intent = "start"]
<1>1. /\ b \in CardType /\ b.intent = "start"
      /\ \A f \in {"armed", "shown", "joinOn", "picker", "read", "asking"} : b[f] = card[f]
  BY DEF TypeOK, CardType
<1>2. b.read \in Reads /\ b.read # "unread" /\ card' = ShowHosting(b, b.read)
      /\ Offered(card, card.read) /\ Offered(b, b.read)
  BY <1>1 DEF SwapCardToStart, ShowsAgain, CardType, Offered
<1> HIDE DEF b
<1> QED BY <1>1, <1>2, ShowHostingFacts

\* A reload starts from a fresh page.
LEMMA ReloadFacts ==
    ASSUME PageAssumption, TypeOK, Reload
    PROVE  /\ card' \in CardType /\ card'.joinOn /\ card'.shown /\ ~card'.armed /\ ~card'.hostOn
           /\ card'.read = "unread" /\ card'.asking = 0
           /\ tries' \in [Try -> [kind: Kinds, at: Stages]]
           /\ \A t \in Try : /\ tries'[t].kind = tries[t].kind
                             /\ tries'[t].at = IF tries[t].at = "none" THEN "none" ELSE "over"
           /\ told' \in [was: BOOLEAN, said: BOOLEAN, left: SUBSET Try]
           /\ told'.was = Hosts(seat) /\ told'.said = mark /\ told'.left = told.left
           /\ leave' \in [asking: BOOLEAN, closing: 0..2, disposed: BOOLEAN]
<1>1. /\ card' \in CardType /\ card'.joinOn /\ card'.shown /\ ~card'.armed /\ ~card'.hostOn
      /\ card'.read = "unread" /\ card'.asking = 0
  <2>1. card.picker \in BOOLEAN /\ (bar # 0) \in BOOLEAN
    BY DEF TypeOK, CardType
  <2> QED BY <2>1, FreshCardFacts DEF Reload
<1>2. tries' = [t \in Try |-> IF tries[t].at \notin {"none", "over"}
                              THEN [tries[t] EXCEPT !.at = "over"] ELSE tries[t]]
  BY DEF Reload, InFlight
<1>3. \A t \in Try : /\ tries[t] \in [kind: Kinds, at: Stages]
                     /\ [tries[t] EXCEPT !.at = "over"] \in [kind: Kinds, at: Stages]
                     /\ [tries[t] EXCEPT !.at = "over"].kind = tries[t].kind
                     /\ [tries[t] EXCEPT !.at = "over"].at = "over"
  BY DEF TypeOK, Stages
<1>4. \A t \in Try : /\ tries'[t] \in [kind: Kinds, at: Stages]
                     /\ tries'[t].kind = tries[t].kind
                     /\ tries'[t].at = IF tries[t].at = "none" THEN "none" ELSE "over"
  BY <1>2, <1>3
<1>5. tries' \in [Try -> [kind: Kinds, at: Stages]]
  BY <1>2, <1>3
<1>6. /\ told' \in [was: BOOLEAN, said: BOOLEAN, left: SUBSET Try]
      /\ told'.was = Hosts(seat) /\ told'.said = mark /\ told'.left = told.left
  <2>1. Hosts(seat) \in BOOLEAN
    BY DEF Hosts
  <2> QED BY <2>1 DEF Reload, TypeOK
<1>7. leave' \in [asking: BOOLEAN, closing: 0..2, disposed: BOOLEAN]
  <2>1. \A no \in BOOLEAN : [asking |-> no, closing |-> 0, disposed |-> no]
                                \in [asking: BOOLEAN, closing: 0..2, disposed: BOOLEAN]
    OBVIOUS
  <2> QED BY <2>1 DEF Reload
<1> QED BY <1>1, <1>4, <1>5, <1>6, <1>7

\* The load event begins what was queued, and nothing else.
LEMMA LoadFacts ==
    ASSUME TypeOK, Load
    PROVE  /\ card' \in CardType /\ card.armed
           /\ \A f \in {"armed", "shown", "joinOn", "intent", "picker", "read", "asking", "hostOn"} :
                 card'[f] = card[f]
           /\ tries' \in [Try -> [kind: Kinds, at: Stages]]
           /\ \A t \in Try : /\ tries'[t].kind = tries[t].kind
                             /\ tries'[t].at = IF tries[t].at = "queued" THEN "prepare" ELSE tries[t].at
<1>1. /\ card' \in CardType /\ card.armed
      /\ \A f \in {"armed", "shown", "joinOn", "intent", "picker", "read", "asking", "hostOn"} :
            card'[f] = card[f]
  BY DEF Load, TypeOK, CardType
<1>2. \A t \in Try : /\ tries[t] \in [kind: Kinds, at: Stages]
                     /\ [tries[t] EXCEPT !.at = "prepare"] \in [kind: Kinds, at: Stages]
                     /\ [tries[t] EXCEPT !.at = "prepare"].kind = tries[t].kind
                     /\ [tries[t] EXCEPT !.at = "prepare"].at = "prepare"
  BY DEF TypeOK, Stages
<1> QED BY <1>1, <1>2 DEF Load, At

\* A submit, at the card or replayed as the bundle runs.
LEMMA SubmitFacts ==
    ASSUME PageAssumption, TypeOK, Arm \/ SubmitJoin
    PROVE  /\ card' \in CardType /\ card'.armed
           /\ \A f \in {"shown", "intent", "picker", "read", "asking", "hostOn"} : card'[f] = card[f]
           /\ tries' \in [Try -> [kind: Kinds, at: Stages]]
           /\ begun' \in 0..MaxTries /\ settled' \in BOOLEAN
           /\ \/ /\ UNCHANGED <<tries, begun, settled>>
                 /\ settled \/ card'.joinOn \/ card'.joinOn = card.joinOn
              \/ /\ ~settled /\ settled' /\ begun' = begun + 1 /\ begun + 1 \in Try
                 /\ ((calm => ~hosting) /\ card.shown) \/ ~card.armed
                 /\ tries'[begun + 1].kind = "join"
                 /\ tries'[begun + 1].at \in {"prepare", "queued"}
                 /\ \A u \in Try : u # begun + 1 => tries'[u] = tries[u]
           /\ UNCHANGED <<hosting, seat, linkGuard, guards, engines, leave, bar, mark, calm,
                          reloads, told>>
<1>1. CASE SubmitJoin
  BY <1>1, AttemptFacts DEF SubmitJoin, TypeOK
<1>2. CASE Arm /\ card' = [card EXCEPT !.armed = TRUE]
  BY <1>2, AttemptFacts DEF Arm, TypeOK, CardType
<1>3. CASE Arm /\ AttemptJoin([card EXCEPT !.armed = TRUE, !.joinOn = FALSE])
  <2> DEFINE c == [card EXCEPT !.armed = TRUE, !.joinOn = FALSE]
  <2>1. /\ c \in CardType /\ c.armed
        /\ \A f \in {"shown", "intent", "picker", "read", "asking", "hostOn"} : c[f] = card[f]
    BY DEF TypeOK, CardType
  <2>2. AttemptJoin(c) /\ ~card.armed
        /\ UNCHANGED <<hosting, seat, linkGuard, guards, engines, leave, bar, mark, calm, reloads, told>>
    BY <1>3 DEF Arm
  <2> HIDE DEF c
  <2> QED BY <2>1, <2>2, AttemptFacts
<1> QED BY <1>1, <1>2, <1>3 DEF Arm

\* A host attempt.
LEMMA AttemptHostFacts ==
    ASSUME PageAssumption, TypeOK, AttemptHost
    PROVE  /\ card.shown /\ card.hostOn /\ ~hosting /\ (calm => ~settled)
           /\ hosting' = TRUE /\ begun' = begun + 1 /\ begun + 1 \in Try /\ begun' \in 0..MaxTries
           /\ tries' \in [Try -> [kind: Kinds, at: Stages]]
           /\ tries'[begun + 1].kind = "host" /\ tries'[begun + 1].at = "pick"
           /\ \A u \in Try : u # begun + 1 => tries'[u] = tries[u]
           /\ UNCHANGED <<card, settled, seat, linkGuard, guards, engines, leave, bar, mark, calm,
                          reloads, told>>
<1>1. "host" \in Kinds /\ "pick" \in Stages
  BY DEF Kinds, Stages
<1> QED BY <1>1, BeginsFacts DEF AttemptHost

\* A way in goes one stage on.
LEMMA StageFacts ==
    ASSUME TypeOK, NEW t \in Try, Picked(t) \/ Prepared(t) \/ Listed(t)
    PROVE  /\ Going(t) /\ tries[t].at # "queued"
           /\ tries' \in [Try -> [kind: Kinds, at: Stages]]
           /\ tries'[t].at \in {"prepare", "list", "dial", "mint"}
           /\ tries'[t].at = "list" => Hosts(t)
           /\ tries'[t].at = "mint" => tries[t].at = "list"
           /\ tries'[t].at = "dial" => ~Hosts(t)
           /\ \A u \in Try : tries'[u].kind = tries[u].kind /\ (u # t => tries'[u] = tries[u])
           /\ guards' \subseteq Try /\ linkGuard' \in {linkGuard, t}
           /\ UNCHANGED <<begun, card, settled, hosting, seat, engines, leave, bar, mark, calm,
                          reloads, told>>
<1>1. {"prepare", "list", "dial", "mint"} \subseteq Stages
  BY DEF Stages
<1>2. CASE Picked(t)
  BY <1>1, <1>2, MovesFacts DEF Picked, At, Going, TypeOK
<1>3. CASE Prepared(t)
  BY <1>1, <1>3, MovesFacts DEF Prepared, At, Going, TypeOK
<1>4. CASE Listed(t)
  BY <1>1, <1>4, MovesFacts DEF Listed, At, Going, TypeOK
<1> QED BY <1>2, <1>3, <1>4

\* A way in ends: it failed, or its session is seated.  One that is seated may await its first
\* document.
EndsAs(t, stage) ==
    /\ tries' \in [Try -> [kind: Kinds, at: Stages]]
    /\ tries'[t].at = stage
    /\ \A u \in Try : tries'[u].kind = tries[u].kind /\ (u # t => tries'[u] = tries[u])

LEMMA FailedJoinFacts ==
    ASSUME TypeOK, NEW t \in Try, FailedJoin(t)
    PROVE  /\ EndsAs(t, "over") /\ Going(t) /\ ~Hosts(t)
           /\ ~settled' /\ settled' \in BOOLEAN /\ card' = HandedBack(card)
           /\ guards' \subseteq Try /\ linkGuard' = 0
           /\ UNCHANGED <<begun, hosting, seat, engines, leave, bar, mark, calm, reloads, told>>
<1>1. "over" \in Stages
  BY DEF Stages
<1> QED BY <1>1, MovesFacts DEF FailedJoin, EndsAs, Going, Hosts, TypeOK

LEMMA FailedHostFacts ==
    ASSUME TypeOK, NEW t \in Try, FailedHost(t)
    PROVE  /\ EndsAs(t, "over") /\ Going(t) /\ Hosts(t)
           /\ ~hosting' /\ hosting' \in BOOLEAN
           /\ UNCHANGED <<begun, card, settled, seat, linkGuard, guards, engines, leave, bar, mark,
                          calm, reloads, told>>
<1>1. "over" \in Stages /\ t # 0
  BY DEF Stages, Try
<1> QED BY <1>1, MovesFacts DEF FailedHost, EndsAs, Going, Hosts

LEMMA JoinSeatedFacts ==
    ASSUME TypeOK, NEW t \in Try, JoinSeated(t)
    PROVE  /\ tries[t].at = "dial" /\ SeatSession(t)
           /\ calm => \A u \in Try : tries[u].at # "first"
           /\ EndsAs(t, "first") \/ EndsAs(t, "over")
           /\ bar' \in {bar, t}
           /\ UNCHANGED <<begun, settled, hosting, linkGuard, guards, leave, mark, calm, reloads, told>>
<1>1. "over" \in Stages /\ "first" \in Stages
  BY DEF Stages
<1> QED BY <1>1, MovesFacts DEF JoinSeated, EndsAs, PersistsLinkOf, Unhurried, At

LEMMA FirstOpenedFacts ==
    ASSUME TypeOK, NEW t \in Try, FirstOpened(t)
    PROVE  /\ tries[t].at = "first" /\ EndsAs(t, "over")
           /\ bar' = bar \/ (seat # 0 /\ bar' = seat)
           /\ UNCHANGED <<begun, card, settled, hosting, seat, linkGuard, guards, engines, leave,
                          mark, calm, reloads, told>>
<1>1. "over" \in Stages
  BY DEF Stages
<1> QED BY <1>1, MovesFacts DEF FirstOpened, EndsAs, PersistsLinkOf, At

LEMMA HostSeatedFacts ==
    ASSUME TypeOK, NEW t \in Try, HostSeated(t)
    PROVE  /\ tries[t].at = "mint" /\ SeatSession(t) /\ EndsAs(t, "over")
           /\ calm => \A u \in Try : tries[u].at # "first"
           /\ mark' = TRUE /\ hosting' = FALSE
           /\ UNCHANGED <<begun, settled, linkGuard, guards, leave, bar, calm, reloads, told>>
<1>1. "over" \in Stages
  BY DEF Stages
<1> QED BY <1>1, MovesFacts DEF HostSeated, EndsAs, Unhurried, At

\* A host's question and the leave it has answered.
LEMMA AskingFacts ==
    ASSUME TypeOK, CancelLeave \/ LeaveAnyway
    PROVE  /\ leave' \in [asking: BOOLEAN, closing: 0..2, disposed: BOOLEAN]
           /\ UNCHANGED <<tries, begun, card, settled, hosting, seat, linkGuard, guards, engines, bar,
                          mark, calm, reloads, told>>
<1>1. leave \in [asking: BOOLEAN, closing: 0..2, disposed: BOOLEAN]
  BY DEF TypeOK
<1>2. CASE CancelLeave
  <2>1. [leave EXCEPT !.asking = FALSE] \in [asking: BOOLEAN, closing: 0..2, disposed: BOOLEAN]
    BY <1>1
  <2> QED BY <1>2, <2>1 DEF CancelLeave
<1>3. CASE LeaveAnyway
  <2>1. leave.closing + 1 \in 0..2
    BY <1>1, <1>3 DEF LeaveAnyway
  <2>2. \A no, yes \in BOOLEAN : [asking |-> no, closing |-> leave.closing + 1, disposed |-> yes]
                                     \in [asking: BOOLEAN, closing: 0..2, disposed: BOOLEAN]
    BY <2>1
  <2> QED BY <1>3, <2>2 DEF LeaveAnyway
<1> QED BY <1>2, <1>3

-----------------------------------------------------------------------------
(* Types.                                                                  *)

LEMMA TypeStep ==
    ASSUME PageAssumption, TypeOK, [Next]_vars
    PROVE  TypeOK'
<1>1. 0 \in 0..MaxTries /\ Invite \in 0..Invite /\ 0 \in 0..Invite /\ Try \subseteq 0..Invite
      /\ 0..MaxTries \subseteq 0..Invite /\ Try \subseteq 0..MaxTries
  BY DEF PageAssumption, Invite, Try
<1>2. CASE FirstRead \/ SecondRead
  BY <1>2, ReadFacts DEF TypeOK
<1>3. CASE SwapCardToStart
  BY <1>3, SwapFacts DEF TypeOK, SwapCardToStart
<1>4. CASE Arm \/ SubmitJoin
  BY <1>4, SubmitFacts DEF TypeOK
<1>5. CASE Load
  BY <1>5, LoadFacts DEF TypeOK, Load
<1>6. CASE AttemptHost
  BY <1>6, AttemptHostFacts DEF TypeOK
<1>7. ASSUME NEW t \in Try, Picked(t) \/ Prepared(t) \/ Listed(t) PROVE TypeOK'
  BY <1>1, <1>7, StageFacts, ZenonT(30) DEF TypeOK
<1>8. ASSUME NEW t \in Try, FailedJoin(t) PROVE TypeOK'
  BY <1>1, <1>8, FailedJoinFacts, HandedBackFacts, ZenonT(30) DEF TypeOK, EndsAs
<1>9. ASSUME NEW t \in Try, FailedHost(t) PROVE TypeOK'
  BY <1>9, FailedHostFacts DEF TypeOK, EndsAs
<1>10. ASSUME NEW t \in Try, JoinSeated(t) PROVE TypeOK'
  <2>1. SeatSession(t) /\ bar' \in 0..Invite /\ tries' \in [Try -> [kind: Kinds, at: Stages]]
    BY <1>1, <1>10, JoinSeatedFacts DEF TypeOK, EndsAs
  <2> QED BY <1>10, <2>1, JoinSeatedFacts, SeatFacts DEF TypeOK
<1>11. ASSUME NEW t \in Try, FirstOpened(t) PROVE TypeOK'
  <2>1. bar' \in 0..Invite
    BY <1>1, <1>11, FirstOpenedFacts DEF TypeOK
  <2> QED BY <1>11, <2>1, FirstOpenedFacts DEF TypeOK, EndsAs
<1>12. ASSUME NEW t \in Try, HostSeated(t) PROVE TypeOK'
  <2>1. SeatSession(t) /\ tries' \in [Try -> [kind: Kinds, at: Stages]]
        /\ mark' \in BOOLEAN /\ hosting' \in BOOLEAN
        /\ UNCHANGED <<begun, settled, linkGuard, guards, leave, bar, calm, reloads, told>>
    BY <1>12, HostSeatedFacts DEF EndsAs
  <2>2. seat' = t /\ seat' \in 0..MaxTries /\ engines' = engines \cup {t} /\ card' \in CardType
    BY <2>1, SeatFacts
  <2> QED BY <2>1, <2>2 DEF TypeOK
<1>13. CASE PressLeave \/ ClosingDone \/ RoomGone
  <2>1. CASE \E n \in 0..2 : LeaveSession(n)
    BY <1>1, <1>13, <2>1, LeavingFacts, LeaveFacts DEF TypeOK
  <2>2. CASE ~\E n \in 0..2 : LeaveSession(n)
    BY <1>13, <2>2, LeavingFacts DEF TypeOK
  <2> QED BY <2>1, <2>2
<1>14. CASE CancelLeave \/ LeaveAnyway
  BY <1>14, AskingFacts DEF TypeOK
<1>15. CASE Reload
  <2>1. reloads' \in 0..MaxReloads
    BY <1>15 DEF Reload, TypeOK, PageAssumption
  <2> QED BY <1>1, <1>15, <2>1, ReloadFacts DEF TypeOK, Reload
<1>16. CASE UNCHANGED vars
  BY <1>16 DEF vars, TypeOK
<1> QED BY <1>2, <1>3, <1>4, <1>5, <1>6, <1>7, <1>8, <1>9, <1>10, <1>11, <1>12, <1>13, <1>14,
           <1>15, <1>16 DEF Next

-----------------------------------------------------------------------------
(* The gates and the offer.                                                *)

\* Who hosts is a matter of the kind a way in began with.
LEMMA KindStays ==
    ASSUME NEW t \in Try, tries'[t].kind = tries[t].kind
    PROVE  Hosts(t)' <=> Hosts(t)
BY DEF Hosts

LEMMA GatesStep ==
    ASSUME PageAssumption, TypeOK, Gates, Offers, Numbered, [Next]_vars
    PROVE  Gates'
<1>1. card \in CardType
  BY DEF TypeOK
<1>2. CASE FirstRead \/ SecondRead
  BY <1>2, ReadFacts DEF Gates, Hosts, Going
<1>3. CASE SwapCardToStart
  BY <1>3, SwapFacts DEF Gates, Hosts, Going, SwapCardToStart
<1>4. CASE Arm \/ SubmitJoin
  <2>1. UNCHANGED <<hosting, seat>> /\ card'.armed /\ card'.shown = card.shown
    BY <1>4, SubmitFacts
  <2>2. CASE UNCHANGED tries
    <3>1. \/ UNCHANGED settled /\ (settled \/ card'.joinOn \/ card'.joinOn = card.joinOn)
          \/ tries'[begun + 1].at \in {"prepare", "queued"} /\ begun + 1 \in Try
      BY <1>4, SubmitFacts
    <3>2. begun + 1 \in Try => tries[begun + 1].at = "none"
      BY DEF Numbered, TypeOK, Try, PageAssumption
    <3> QED BY <2>1, <2>2, <3>1, <3>2 DEF Gates, Hosts, Going
  <2>3. CASE ~UNCHANGED tries
    <3>1. PICK n \in Try :
            /\ n = begun + 1 /\ settled' /\ tries'[n].kind = "join"
            /\ tries'[n].at \in {"prepare", "queued"}
            /\ \A u \in Try : u # n => tries'[u] = tries[u]
      BY <1>4, <2>3, SubmitFacts
    <3>2. tries[n].at = "none"
      BY <3>1 DEF Numbered, TypeOK, Try, PageAssumption
    <3>3. ~Hosts(n)' /\ Going(n)'
      BY <3>1 DEF Hosts, Going
    <3>4. ASSUME hosting PROVE \E t \in Try : Hosts(t)' /\ Going(t)'
      <4>1. PICK t \in Try : Hosts(t) /\ Going(t)
        BY <3>4 DEF Gates
      <4>2. tries'[t] = tries[t]
        BY <3>1, <3>2, <4>1 DEF Going
      <4> QED BY <4>1, <4>2 DEF Hosts, Going
    <3> QED BY <2>1, <3>1, <3>3, <3>4 DEF Gates
  <2> QED BY <2>2, <2>3
<1>5. CASE Load
  BY <1>5, LoadFacts DEF Gates, Hosts, Going, Load
<1>6. CASE AttemptHost
  <2>1. PICK n \in Try :
            /\ n = begun + 1 /\ UNCHANGED <<card, settled, seat>> /\ card.hostOn
            /\ tries'[n].kind = "host" /\ tries'[n].at = "pick"
            /\ \A u \in Try : u # n => tries'[u] = tries[u]
    BY <1>6, AttemptHostFacts
  <2>2. tries[n].at = "none" /\ n # 0
    BY <2>1 DEF Numbered, TypeOK, Try, PageAssumption
  <2>3. card.armed
    BY <2>1 DEF Offers, Offered
  <2>4. Hosts(n)' /\ Going(n)'
    BY <2>1, <2>2 DEF Hosts, Going
  <2>5. ASSUME settled, seat = 0 PROVE \E t \in Try : ~Hosts(t)' /\ Going(t)'
    <3>1. PICK t \in Try : ~Hosts(t) /\ Going(t)
      BY <2>5 DEF Gates
    <3>2. tries'[t] = tries[t]
      BY <2>1, <2>2, <3>1 DEF Going
    <3> QED BY <3>1, <3>2 DEF Hosts, Going
  <2> QED BY <2>1, <2>3, <2>4, <2>5 DEF Gates
<1>7. ASSUME NEW t \in Try, Picked(t) \/ Prepared(t) \/ Listed(t) PROVE Gates'
  BY <1>7, StageFacts DEF Gates, Hosts, Going
<1>8. ASSUME NEW t \in Try, FailedJoin(t) PROVE Gates'
  BY <1>1, <1>8, FailedJoinFacts, HandedBackFacts DEF Gates, EndsAs, Hosts, Going
<1>9. ASSUME NEW t \in Try, FailedHost(t) PROVE Gates'
  BY <1>9, FailedHostFacts DEF Gates, EndsAs, Hosts, Going
<1>10. ASSUME NEW t \in Try, JoinSeated(t) PROVE Gates'
  <2>1. /\ seat' = t /\ t # 0 /\ settled' = settled /\ ~card'.shown
        /\ card'.armed = card.armed /\ card'.joinOn = card.joinOn /\ card.armed
        /\ hosting' => hosting /\ ~Hosts(t)
        /\ \A u \in Try : tries'[u].kind = tries[u].kind /\ (u # t => tries'[u] = tries[u])
    BY <1>10, JoinSeatedFacts, SeatFacts DEF Gates, Numbered, EndsAs, Going, Try
  <2>2. hosting' => \E u \in Try : Hosts(u)' /\ Going(u)'
    BY <2>1 DEF Gates, Hosts, Going
  <2> QED BY <2>1, <2>2 DEF Gates
<1>11. ASSUME NEW t \in Try, FirstOpened(t) PROVE Gates'
  BY <1>11, FirstOpenedFacts DEF Gates, EndsAs, Hosts, Going
<1>12. ASSUME NEW t \in Try, HostSeated(t) PROVE Gates'
  <2>1. /\ seat' = t /\ t # 0 /\ settled' = settled /\ ~card'.shown
        /\ card'.armed = card.armed /\ card'.joinOn = card.joinOn /\ card.armed
        /\ ~hosting'
    <3>1. /\ tries[t].at = "mint" /\ SeatSession(t) /\ settled' = settled /\ hosting' = FALSE
      BY <1>12, HostSeatedFacts
    <3>2. seat' = t /\ ~card'.shown /\ card'.armed = card.armed /\ card'.joinOn = card.joinOn
      BY <3>1, SeatFacts
    <3>3. card.armed /\ t # 0
      BY <3>1 DEF Gates, Going, Try
    <3> QED BY <3>1, <3>2, <3>3
  <2> QED BY <2>1 DEF Gates
<1>13. CASE PressLeave \/ ClosingDone \/ RoomGone
  <2>1. CASE \E n \in 0..2 : LeaveSession(n)
    <3>1. UNCHANGED <<tries, hosting>> /\ seat' = 0
      BY <1>13, <2>1, LeavingFacts, LeaveFacts
    <3>2. \/ seat = 0 /\ UNCHANGED <<card, settled>>
          \/ seat # 0 /\ settled' = FALSE /\ card' = StartAgain(card)
      BY <2>1, LeaveFacts
    <3>3. StartAgain(card).joinOn /\ StartAgain(card).shown /\ StartAgain(card).armed = card.armed
      BY <1>1, StartAgainFacts
    <3> QED BY <3>1, <3>2, <3>3 DEF Gates, Hosts, Going
  <2>2. CASE ~\E n \in 0..2 : LeaveSession(n)
    BY <1>13, <2>2, LeavingFacts DEF Gates, Hosts, Going
  <2> QED BY <2>1, <2>2
<1>14. CASE CancelLeave \/ LeaveAnyway
  BY <1>14, AskingFacts DEF Gates, Hosts, Going
<1>15. CASE Reload
  <2>1. card'.joinOn /\ card'.shown /\ seat' = 0 /\ settled' = FALSE /\ hosting' = FALSE
    BY <1>15, ReloadFacts DEF Reload
  <2>2. \A t \in Try : ~Going(t)'
    <3>1. \A t \in Try : tries'[t].at \in {"none", "over"}
      BY <1>15, ReloadFacts
    <3> QED BY <3>1 DEF Going
  <2> QED BY <2>1, <2>2 DEF Gates
<1>16. CASE UNCHANGED vars
  BY <1>16 DEF vars, Gates, Hosts, Going
<1> QED BY <1>2, <1>3, <1>4, <1>5, <1>6, <1>7, <1>8, <1>9, <1>10, <1>11, <1>12, <1>13, <1>14,
           <1>15, <1>16 DEF Next

LEMMA OffersStep ==
    ASSUME PageAssumption, TypeOK, Offers, [Next]_vars
    PROVE  Offers'
<1>1. card \in CardType
  BY DEF TypeOK
<1>2. CASE FirstRead \/ SecondRead
  <2>1. /\ card'.asking \in {1, 2} /\ card'.armed = card.armed /\ card'.intent = card.intent
        /\ card'.picker = card.picker /\ hosting' = hosting
        /\ \/ card'.read = card.read /\ card'.hostOn = card.hostOn
           \/ /\ ~hosting \/ card.asking = 0
              /\ card'.hostOn <=> card.intent = "start" /\ Offered(card, card'.read)
    BY <1>2, ReadFacts
  <2>2. card.armed
    BY <1>2 DEF FirstRead, SecondRead, Offers
  <2>3. card.asking = 0 => ~hosting
    BY DEF Offers, Offered
  <2> QED BY <2>1, <2>2, <2>3 DEF Offers, Offered
<1>3. CASE SwapCardToStart
  BY <1>3, SwapFacts DEF Offers, Offered, SwapCardToStart
<1>4. CASE Arm \/ SubmitJoin
  BY <1>4, SubmitFacts DEF Offers, Offered
<1>5. CASE Load
  BY <1>5, LoadFacts DEF Offers, Offered, Load
<1>6. CASE AttemptHost
  BY <1>6, AttemptHostFacts DEF Offers, Offered
<1>7. ASSUME NEW t \in Try, Picked(t) \/ Prepared(t) \/ Listed(t) PROVE Offers'
  BY <1>7, StageFacts DEF Offers, Offered
<1>8. ASSUME NEW t \in Try, FailedJoin(t) PROVE Offers'
  BY <1>1, <1>8, FailedJoinFacts, HandedBackFacts DEF Offers, Offered
<1>9. ASSUME NEW t \in Try, FailedHost(t) PROVE Offers'
  BY <1>9, FailedHostFacts DEF Offers, Offered
<1>10. ASSUME NEW t \in Try, JoinSeated(t) \/ HostSeated(t) PROVE Offers'
  BY <1>10, JoinSeatedFacts, HostSeatedFacts, SeatFacts DEF Offers, Offered
<1>11. ASSUME NEW t \in Try, FirstOpened(t) PROVE Offers'
  BY <1>11, FirstOpenedFacts DEF Offers, Offered
<1>12. CASE PressLeave \/ ClosingDone \/ RoomGone
  <2>1. CASE \E n \in 0..2 : LeaveSession(n)
    <3>1. UNCHANGED hosting /\ (card' = card \/ card' = StartAgain(card))
      BY <1>12, <2>1, LeavingFacts, LeaveFacts
    <3>2. /\ StartAgain(card).intent = "start"
          /\ \A f \in {"armed", "picker", "read", "asking"} : StartAgain(card)[f] = card[f]
          /\ StartAgain(card).hostOn <=>
                IF card.read = "unread" THEN card.hostOn ELSE Offered(card, card.read)
      BY <1>1, StartAgainFacts
    <3> QED BY <3>1, <3>2 DEF Offers, Offered
  <2>2. CASE ~\E n \in 0..2 : LeaveSession(n)
    BY <1>12, <2>2, LeavingFacts DEF Offers, Offered
  <2> QED BY <2>1, <2>2
<1>13. CASE CancelLeave \/ LeaveAnyway
  BY <1>13, AskingFacts DEF Offers, Offered
<1>14. CASE Reload
  BY <1>14, ReloadFacts DEF Offers, Reload
<1>15. CASE UNCHANGED vars
  BY <1>15 DEF vars, Offers, Offered
<1> QED BY <1>2, <1>3, <1>4, <1>5, <1>6, <1>7, <1>8, <1>9, <1>10, <1>11, <1>12, <1>13, <1>14,
           <1>15 DEF Next
-----------------------------------------------------------------------------
(* The ways in and what is remembered of them.                             *)

\* How the ways in are changed by a step: none is, the next one begins, one goes on or ends, or
\* all of them do by a load of the page.  A number that was taken keeps its kind, and a session
\* that came does not come again.
LEMMA WaysStep ==
    ASSUME PageAssumption, TypeOK, Numbered, [Next]_vars
    PROVE  /\ begun' \in Nat
           /\ \A t \in Try : /\ t > begun' => tries'[t].at = "none"
                             /\ tries[t].at # "none" => tries'[t].kind = tries[t].kind
                             /\ Came(t) => Came(t)'
                             /\ tries'[t].at \in {"queued", "dial", "first"} => ~Hosts(t)'
                             /\ tries'[t].at \in {"pick", "list", "mint"} => Hosts(t)'
<1> DEFINE Kept(t) == /\ t > begun' => tries'[t].at = "none"
                      /\ tries[t].at # "none" => tries'[t].kind = tries[t].kind
                      /\ Came(t) => Came(t)'
                      /\ tries'[t].at \in {"queued", "dial", "first"} => ~Hosts(t)'
                      /\ tries'[t].at \in {"pick", "list", "mint"} => Hosts(t)'
<1>1. begun \in Nat /\ begun' \in Nat /\ \A t \in Try : t \in Nat /\ t # 0
  BY TypeStep DEF TypeOK, PageAssumption, Try
<1>2. CASE UNCHANGED <<tries, begun>>
  BY <1>1, <1>2 DEF Numbered, Came, Hosts
<1>3. ASSUME NEW n \in Try, n = begun + 1, begun' = begun + 1,
             \/ tries'[n].kind = "join" /\ tries'[n].at \in {"prepare", "queued"}
             \/ tries'[n].kind = "host" /\ tries'[n].at = "pick",
             \A u \in Try : u # n => tries'[u] = tries[u]
      PROVE  \A t \in Try : Kept(t)
  <2>1. Kept(n)
    <3>1. tries[n].at = "none"
      BY <1>1, <1>3 DEF Numbered
    <3> QED BY <1>1, <1>3, <3>1 DEF Came, Hosts
  <2>2. ASSUME NEW t \in Try, t # n PROVE Kept(t)
    <3>1. tries'[t] = tries[t] /\ (t > begun' => t > begun)
      BY <1>1, <1>3, <2>2
    <3> QED BY <3>1 DEF Numbered, Came, Hosts
  <2> QED BY <2>1, <2>2
<1>4. ASSUME NEW t \in Try, begun' = begun, tries'[t].at # "none", tries[t].at # "none",
             Came(t) => Came(t)',
             tries'[t].at \in {"queued", "dial", "first"} => ~Hosts(t),
             tries'[t].at \in {"pick", "list", "mint"} => Hosts(t),
             \A u \in Try : tries'[u].kind = tries[u].kind /\ (u # t => tries'[u] = tries[u])
      PROVE  \A u \in Try : Kept(u)
  <2>1. ~(t > begun)
    BY <1>4 DEF Numbered
  <2>2. Kept(t)
    BY <1>1, <1>4, <2>1 DEF Hosts
  <2>3. ASSUME NEW u \in Try, u # t PROVE Kept(u)
    <3>1. tries'[u] = tries[u]
      BY <1>4, <2>3
    <3> QED BY <1>4, <3>1 DEF Numbered, Came, Hosts
  <2> QED BY <2>2, <2>3
<1>5. CASE Arm \/ SubmitJoin
  <2>1. CASE UNCHANGED <<tries, begun>>
    BY <1>1, <1>2, <2>1
  <2>2. CASE ~UNCHANGED <<tries, begun>>
    BY <1>1, <1>3, <1>5, <2>2, SubmitFacts
  <2> QED BY <2>1, <2>2
<1>6. CASE Load
  <2>1. begun' = begun
    BY <1>6 DEF Load
  <2>2. \A t \in Try : tries'[t].kind = tries[t].kind
                       /\ tries'[t].at = IF tries[t].at = "queued" THEN "prepare" ELSE tries[t].at
    BY <1>6, LoadFacts
  <2> QED BY <1>1, <2>1, <2>2 DEF Numbered, Came, Hosts
<1>7. CASE AttemptHost
  BY <1>1, <1>3, <1>7, AttemptHostFacts
<1>8. ASSUME NEW t \in Try, Picked(t) \/ Prepared(t) \/ Listed(t) PROVE \A u \in Try : Kept(u)
  <2>1. /\ begun' = begun /\ Going(t) /\ tries'[t].at \in {"prepare", "list", "dial", "mint"}
        /\ tries'[t].at = "list" => Hosts(t)
        /\ tries'[t].at = "mint" => tries[t].at = "list"
        /\ tries'[t].at = "dial" => ~Hosts(t)
        /\ \A u \in Try : tries'[u].kind = tries[u].kind /\ (u # t => tries'[u] = tries[u])
    BY <1>8, StageFacts
  <2>2. tries[t].at # "none" /\ ~Came(t)
    BY <2>1 DEF Going, Came
  <2>3. tries'[t].at = "mint" => Hosts(t)
    BY <2>1 DEF Numbered
  <2> QED BY <1>4, <2>1, <2>2, <2>3
<1>9. ASSUME NEW t \in Try, FailedJoin(t) \/ FailedHost(t) PROVE \A u \in Try : Kept(u)
  <2>1. EndsAs(t, "over") /\ Going(t) /\ begun' = begun
    BY <1>9, FailedJoinFacts, FailedHostFacts
  <2> QED BY <1>4, <2>1 DEF EndsAs, Going, Came
<1>10. ASSUME NEW t \in Try, JoinSeated(t) PROVE \A u \in Try : Kept(u)
  <2>1. tries[t].at = "dial" /\ (EndsAs(t, "first") \/ EndsAs(t, "over")) /\ begun' = begun
    BY <1>10, JoinSeatedFacts
  <2>2. ~Hosts(t)
    BY <2>1 DEF Numbered
  <2> QED BY <1>4, <2>1, <2>2 DEF EndsAs, Came
<1>11. ASSUME NEW t \in Try, FirstOpened(t) \/ HostSeated(t) PROVE \A u \in Try : Kept(u)
  <2>1. EndsAs(t, "over") /\ tries[t].at \in {"first", "mint"} /\ begun' = begun
    BY <1>11, FirstOpenedFacts, HostSeatedFacts
  <2> QED BY <1>4, <2>1 DEF EndsAs, Came
<1>12. CASE PressLeave \/ ClosingDone \/ RoomGone
  BY <1>1, <1>2, <1>12, LeavingFacts
<1>13. CASE Reload
  <2>1. begun' = begun
    BY <1>13 DEF Reload
  <2>2. \A t \in Try : /\ tries'[t].kind = tries[t].kind
                       /\ tries'[t].at = IF tries[t].at = "none" THEN "none" ELSE "over"
    BY <1>13, ReloadFacts
  <2> QED BY <1>1, <2>1, <2>2 DEF Numbered, Came, Hosts
<1>14. CASE FirstRead \/ SecondRead \/ SwapCardToStart \/ CancelLeave \/ LeaveAnyway \/ UNCHANGED vars
  <2>1. UNCHANGED <<tries, begun>>
    BY <1>14 DEF FirstRead, SecondRead, SwapCardToStart, CancelLeave, LeaveAnyway, vars
  <2> QED BY <1>1, <1>2, <2>1
<1> QED BY <1>1, <1>5, <1>6, <1>7, <1>8, <1>9, <1>10, <1>11, <1>12, <1>13, <1>14 DEF Next

\* The steps that leave the page's session and what is remembered of it as they are.
Remembering == <<seat, engines, bar, mark, calm, told>>

LEMMA QuietStep ==
    ASSUME PageAssumption, TypeOK,
           \/ FirstRead \/ SecondRead \/ SwapCardToStart \/ Arm \/ SubmitJoin \/ Load \/ AttemptHost
           \/ \E t \in Try : Picked(t) \/ Prepared(t) \/ Listed(t) \/ FailedJoin(t) \/ FailedHost(t)
           \/ CancelLeave \/ LeaveAnyway \/ UNCHANGED vars
    PROVE  UNCHANGED Remembering
BY DEF Remembering, FirstRead, SecondRead, SwapCardToStart, Arm, SubmitJoin, Load, AttemptHost,
       Picked, Prepared, Listed, FailedJoin, FailedHost, CancelLeave, LeaveAnyway, vars

LEMMA NumberedStep ==
    ASSUME PageAssumption, TypeOK, Numbered, [Next]_vars
    PROVE  Numbered'
<1>1. /\ 0 \notin Try /\ told.left \subseteq Try
      /\ seat # 0 => seat \in Try
      /\ \A t \in Try : Came(t) => Came(t)'
  BY WaysStep DEF TypeOK, Try
<1> DEFINE Known == /\ seat' # 0 => Came(seat)'
                    /\ bar' \in Try => Came(bar)'
                    /\ \A t \in told'.left : Came(t)'
<1> SUFFICES Known
  BY WaysStep DEF Numbered
<1>2. CASE UNCHANGED Remembering
  <2>1. seat' # 0 => Came(seat)'
    BY <1>1, <1>2 DEF Numbered, Remembering, Came
  <2>2. bar' \in Try => Came(bar)'
    BY <1>1, <1>2 DEF Numbered, Remembering, Came
  <2>3. \A t \in told'.left : Came(t)'
    BY <1>1, <1>2 DEF Numbered, Remembering
  <2> QED BY <2>1, <2>2, <2>3
<1>3. ASSUME NEW t \in Try, JoinSeated(t) \/ HostSeated(t) PROVE Known
  <2>1. seat' = t /\ bar' \in {bar, t} /\ told' = told /\ (EndsAs(t, "first") \/ EndsAs(t, "over"))
    BY <1>3, JoinSeatedFacts, HostSeatedFacts, SeatFacts
  <2>2. Came(t)'
    BY <2>1 DEF EndsAs, Came
  <2>3. Came(seat)'
    BY <2>1, <2>2 DEF Came
  <2>4. bar' \in Try => Came(bar)'
    BY <1>1, <2>1, <2>2 DEF Numbered, Came
  <2>5. \A u \in told'.left : Came(u)'
    BY <1>1, <2>1 DEF Numbered
  <2> QED BY <2>3, <2>4, <2>5
<1>4. ASSUME NEW t \in Try, FirstOpened(t) PROVE Known
  <2>1. seat' = seat /\ told' = told /\ (bar' = bar \/ (seat # 0 /\ bar' = seat))
    BY <1>4, FirstOpenedFacts
  <2>2. seat' # 0 => Came(seat)'
    BY <1>1, <2>1 DEF Numbered, Came
  <2>3. bar' \in Try => Came(bar)'
    BY <1>1, <2>1 DEF Numbered, Came
  <2>4. \A u \in told'.left : Came(u)'
    BY <1>1, <2>1 DEF Numbered
  <2> QED BY <2>2, <2>3, <2>4
<1>5. CASE PressLeave \/ ClosingDone \/ RoomGone
  <2>1. CASE \E n \in 0..2 : LeaveSession(n)
    <3>1. /\ seat' = 0 /\ bar' \in {bar, 0}
          /\ told'.left = told.left \/ (seat # 0 /\ told'.left = told.left \cup {seat})
      BY <2>1, LeaveFacts
    <3>2. bar' \in Try => Came(bar)'
      BY <1>1, <3>1 DEF Numbered, Came
    <3>3. \A u \in told'.left : Came(u)'
      BY <1>1, <3>1 DEF Numbered
    <3> QED BY <3>1, <3>2, <3>3
  <2>2. CASE ~\E n \in 0..2 : LeaveSession(n)
    <3>1. UNCHANGED Remembering
      BY <1>5, <2>2, LeavingFacts DEF Remembering
    <3> QED BY <1>2, <3>1
  <2> QED BY <2>1, <2>2
<1>6. CASE Reload
  <2>1. seat' = 0 /\ bar' = bar /\ told'.left = told.left
    BY <1>6, ReloadFacts DEF Reload
  <2>2. bar' \in Try => Came(bar)'
    BY <1>1, <2>1 DEF Numbered, Came
  <2>3. \A u \in told'.left : Came(u)'
    BY <1>1, <2>1 DEF Numbered
  <2> QED BY <2>1, <2>2, <2>3
<1> QED BY <1>2, <1>3, <1>4, <1>5, <1>6, QuietStep DEF Next

-----------------------------------------------------------------------------
(* One thing at a time: the way in, the session, and what the tab keeps.   *)

\* What OneAtATime says of the ways in, for the stages and the session of a state.
Single == /\ \A t, u \in Try : Going(t) /\ Going(u) => t = u
          /\ \A t \in Try : Going(t) => seat = 0 /\ (IF Hosts(t) THEN hosting ELSE settled)
          /\ \A t \in Try : tries[t].at = "first" => seat \in {0, t}

Kept == (mark <=> Hosts(seat)) /\ seat \notin told.left

LEMMA OneIsSingleAndKept ==
    OneAtATime <=> (calm => Single /\ Kept)
BY DEF OneAtATime, Single, Kept

\* A way in begins where none is going.
LEMMA BeginStep ==
    ASSUME NEW n \in Try, \A t \in Try : ~Going(t), Single, seat = 0, UNCHANGED seat,
           tries'[n].at # "first", Hosts(n)' => hosting', ~Hosts(n)' => settled',
           \A u \in Try : u # n => tries'[u] = tries[u]
    PROVE  Single'
<1>1. \A t \in Try : Going(t)' => t = n
  BY DEF Going
<1>2. \A t \in Try : tries'[t].at = "first" => seat' \in {0, t}
  OBVIOUS
<1> QED BY <1>1, <1>2 DEF Single

\* The way in that is going goes on.
LEMMA GoOnStep ==
    ASSUME NEW t \in Try, Single, Going(t), UNCHANGED <<seat, hosting, settled>>,
           tries'[t].at # "first",
           \A u \in Try : tries'[u].kind = tries[u].kind /\ (u # t => tries'[u] = tries[u])
    PROVE  Single'
<1>1. \A u \in Try : (Going(u)' => u = t) /\ (Hosts(u)' <=> Hosts(u))
  BY DEF Single, Going, Hosts
<1>2. \A u \in Try : tries'[u].at = "first" => seat' \in {0, u}
  BY DEF Single
<1> QED BY <1>1, <1>2 DEF Single

\* The way in that was going is over, and with it every one.
LEMMA EndStep ==
    ASSUME NEW t \in Try, NEW stage \in {"first", "over"}, Single, Going(t), EndsAs(t, stage),
           stage = "first" => seat' = t,
           seat' = seat \/ \A u \in Try : tries[u].at # "first"
    PROVE  Single'
<1>1. \A u \in Try : ~Going(u)'
  BY DEF Single, Going, EndsAs
<1>2. \A u \in Try : tries'[u].at = "first" => seat' \in {0, u}
  BY DEF Single, EndsAs
<1> QED BY <1>1, <1>2 DEF Single

LEMMA OneAtATimeStep ==
    ASSUME PageAssumption, TypeOK, Gates, Numbered, OneAtATime, [Next]_vars
    PROVE  OneAtATime'
<1>1. calm' = calm
  BY LeavingFacts, ReadFacts DEF Next, vars, SwapCardToStart, Arm, SubmitJoin, Load, AttemptHost, Picked,
         Prepared, Listed, FailedJoin, FailedHost, JoinSeated, FirstOpened, HostSeated, PressLeave,
         CancelLeave, LeaveAnyway, ClosingDone, RoomGone, Reload
<1> SUFFICES ASSUME calm PROVE Single' /\ Kept'
  BY <1>1, OneIsSingleAndKept DEF OneAtATime, Single, Kept
<1>2. Single /\ Kept
  BY OneIsSingleAndKept
<1>3. /\ 0 \notin Try /\ told.left \subseteq Try
      /\ seat # 0 => seat \in Try /\ Came(seat)
      /\ \A t \in told.left : Came(t)
  BY DEF Numbered, TypeOK, Try
<1>4. UNCHANGED Remembering => Kept'
  <2>1. seat # 0 => tries'[seat].kind = tries[seat].kind
    BY <1>3, WaysStep DEF Came
  <2> QED BY <1>2, <2>1 DEF Remembering, Kept, Hosts
<1>5. CASE Arm \/ SubmitJoin
  <2>1. UNCHANGED Remembering /\ UNCHANGED <<seat, hosting>>
    BY <1>5, QuietStep DEF Remembering, Arm, SubmitJoin
  <2>2. CASE UNCHANGED tries
    <3>1. settled => settled'
      BY <1>5, SubmitFacts
    <3>2. Single'
      BY <1>2, <2>1, <2>2, <3>1 DEF Single, Going, Hosts
    <3> QED BY <1>4, <2>1, <3>2
  <2>3. CASE ~UNCHANGED tries
    <3>1. PICK n \in Try :
            /\ ~settled /\ settled' /\ tries'[n].kind = "join"
            /\ tries'[n].at \in {"prepare", "queued"}
            /\ ((calm => ~hosting) /\ card.shown) \/ ~card.armed
            /\ \A u \in Try : u # n => tries'[u] = tries[u]
      BY <1>5, <2>3, SubmitFacts
    <3>2. seat = 0 /\ ~hosting
      BY <3>1 DEF Gates
    <3>3. \A t \in Try : ~Going(t)
      BY <1>2, <3>1, <3>2 DEF Single
    <3>4. ~Hosts(n)'
      BY <3>1 DEF Hosts
    <3>5. Single'
      BY <1>2, <2>1, <3>1, <3>2, <3>3, <3>4, BeginStep
    <3> QED BY <1>4, <2>1, <3>5
  <2> QED BY <2>2, <2>3
<1>6. CASE AttemptHost
  <2>1. PICK n \in Try :
          /\ ~hosting /\ hosting' /\ ~settled /\ card.shown
          /\ tries'[n].kind = "host" /\ tries'[n].at = "pick"
          /\ \A u \in Try : u # n => tries'[u] = tries[u]
    BY <1>6, AttemptHostFacts
  <2>2. UNCHANGED Remembering /\ UNCHANGED seat
    BY <1>6, QuietStep DEF Remembering
  <2>3. seat = 0
    BY <2>1 DEF Gates
  <2>4. \A t \in Try : ~Going(t)
    BY <1>2, <2>1 DEF Single
  <2>5. Hosts(n)'
    BY <1>3, <2>1 DEF Hosts
  <2>6. Single'
    BY <1>2, <2>1, <2>2, <2>3, <2>4, <2>5, BeginStep
  <2> QED BY <1>4, <2>2, <2>6
<1>7. CASE Load
  <2>1. UNCHANGED Remembering /\ UNCHANGED <<seat, hosting, settled>>
    BY <1>7, QuietStep DEF Load, Remembering
  <2>2. \A t \in Try : tries'[t].kind = tries[t].kind
                       /\ tries'[t].at = IF tries[t].at = "queued" THEN "prepare" ELSE tries[t].at
    BY <1>7, LoadFacts
  <2>3. \A t \in Try : /\ Going(t)' <=> Going(t)
                       /\ Hosts(t)' <=> Hosts(t)
                       /\ tries'[t].at = "first" <=> tries[t].at = "first"
    BY <2>2 DEF Going, Hosts
  <2>4. Single'
    BY <1>2, <2>1, <2>3 DEF Single
  <2> QED BY <1>4, <2>1, <2>4
<1>8. ASSUME NEW t \in Try, Picked(t) \/ Prepared(t) \/ Listed(t) PROVE Single' /\ Kept'
  <2>1. UNCHANGED Remembering
    BY <1>8, QuietStep
  <2>2. Single'
    BY <1>2, <1>8, StageFacts, GoOnStep
  <2> QED BY <1>4, <2>1, <2>2
<1>9. ASSUME NEW t \in Try, FailedJoin(t) \/ FailedHost(t) PROVE Single' /\ Kept'
  <2>1. UNCHANGED Remembering
    BY <1>9, QuietStep
  <2>2. EndsAs(t, "over") /\ Going(t) /\ UNCHANGED seat
    BY <1>9, FailedJoinFacts, FailedHostFacts
  <2>3. Single'
    BY <1>2, <2>2, EndStep
  <2> QED BY <1>4, <2>1, <2>3
<1>10. ASSUME NEW t \in Try, JoinSeated(t) PROVE Single' /\ Kept'
  <2>1. /\ tries[t].at = "dial" /\ seat' = t /\ (EndsAs(t, "first") \/ EndsAs(t, "over"))
        /\ \A u \in Try : tries[u].at # "first"
        /\ mark' = mark /\ told' = told
    BY <1>10, JoinSeatedFacts, SeatFacts
  <2>2. Going(t) /\ ~Came(t) /\ ~Hosts(t) /\ tries[t].at # "none"
    BY <2>1 DEF Going, Came, Numbered
  <2>3. Single'
    BY <1>2, <2>1, <2>2, EndStep
  <2>4. ~mark' /\ ~Hosts(seat)'
    <3>1. seat = 0 /\ ~mark
      BY <1>2, <2>2 DEF Single, Kept, Hosts
    <3>2. tries'[t].kind = tries[t].kind
      BY <2>2, WaysStep
    <3> QED BY <2>1, <2>2, <3>1, <3>2 DEF Hosts
  <2>5. seat' \notin told'.left
    BY <1>3, <2>1, <2>2
  <2> QED BY <2>3, <2>4, <2>5 DEF Kept
<1>11. ASSUME NEW t \in Try, FirstOpened(t) PROVE Single' /\ Kept'
  <2>1. tries[t].at = "first" /\ EndsAs(t, "over") /\ UNCHANGED <<seat, hosting, settled, mark, told>>
    BY <1>11, FirstOpenedFacts
  <2>2. \A u \in Try : /\ Going(u)' => Going(u)
                       /\ Hosts(u)' <=> Hosts(u)
                       /\ tries'[u].at = "first" => tries[u].at = "first"
    BY <2>1 DEF EndsAs, Going, Hosts
  <2>3. Single'
    BY <1>2, <2>1, <2>2 DEF Single
  <2>4. Hosts(seat)' <=> Hosts(seat)
    BY <1>3, <2>1 DEF EndsAs, Hosts
  <2> QED BY <1>2, <2>1, <2>3, <2>4 DEF Kept
<1>12. ASSUME NEW t \in Try, HostSeated(t) PROVE Single' /\ Kept'
  <2>1. /\ tries[t].at = "mint" /\ seat' = t /\ EndsAs(t, "over")
        /\ \A u \in Try : tries[u].at # "first"
        /\ mark' = TRUE /\ told' = told
    BY <1>12, HostSeatedFacts, SeatFacts
  <2>2. Going(t) /\ ~Came(t) /\ Hosts(t) /\ tries[t].at # "none"
    BY <2>1 DEF Going, Came, Numbered
  <2>3. Single'
    BY <1>2, <2>1, <2>2, EndStep
  <2>4. Hosts(seat)'
    <3>1. tries'[t].kind = tries[t].kind
      BY <2>2, WaysStep
    <3> QED BY <2>1, <2>2, <3>1 DEF Hosts
  <2>5. seat' \notin told'.left
    BY <1>3, <2>1, <2>2
  <2> QED BY <2>1, <2>3, <2>4, <2>5 DEF Kept
<1>13. CASE PressLeave \/ ClosingDone \/ RoomGone
  <2>1. UNCHANGED <<tries, hosting>>
    BY <1>13, LeavingFacts
  <2>2. CASE \E n \in 0..2 : LeaveSession(n)
    <3>1. /\ seat' = 0
          /\ IF seat = 0 THEN UNCHANGED <<mark, settled, told>>
             ELSE mark' = FALSE /\ told'.left = told.left \cup {seat}
      BY <2>2, LeaveFacts
    <3>2. Single'
      BY <1>2, <2>1, <3>1 DEF Single, Going, Hosts
    <3>3. Kept'
      BY <1>2, <1>3, <3>1 DEF Kept, Hosts
    <3> QED BY <3>2, <3>3
  <2>3. CASE ~\E n \in 0..2 : LeaveSession(n)
    <3>1. UNCHANGED Remembering /\ UNCHANGED <<seat, settled>>
      BY <1>1, <1>13, <2>3, LeavingFacts DEF Remembering
    <3>2. Single'
      BY <1>2, <2>1, <3>1 DEF Single, Going, Hosts
    <3> QED BY <1>4, <3>1, <3>2
  <2> QED BY <2>2, <2>3
<1>14. CASE Reload
  <2>1. seat' = 0 /\ mark' = FALSE /\ told'.left = told.left
        /\ \A t \in Try : tries'[t].at \in {"none", "over"}
    BY <1>14, ReloadFacts DEF Reload
  <2>2. Single'
    BY <2>1 DEF Single, Going
  <2>3. Kept'
    BY <1>3, <2>1 DEF Kept, Hosts
  <2> QED BY <2>2, <2>3
<1>15. CASE FirstRead \/ SecondRead \/ SwapCardToStart \/ CancelLeave \/ LeaveAnyway \/ UNCHANGED vars
  <2>1. UNCHANGED Remembering
    BY <1>15, QuietStep
  <2>2. UNCHANGED <<tries, seat, hosting, settled>>
    BY <1>15 DEF FirstRead, SecondRead, SwapCardToStart, CancelLeave, LeaveAnyway, vars
  <2>3. Single'
    BY <1>2, <2>2 DEF Single, Going, Hosts
  <2> QED BY <1>4, <2>1, <2>3
<1> QED BY <1>5, <1>6, <1>7, <1>8, <1>9, <1>10, <1>11, <1>12, <1>13, <1>14, <1>15 DEF Next

LEMMA RememberedStep ==
    ASSUME PageAssumption, TypeOK, Gates, Numbered, OneAtATime, TabRemembers, [Next]_vars
    PROVE  TabRemembers'
<1>1. calm' => calm
  BY LeavingFacts, ReadFacts DEF Next, vars, SwapCardToStart, Arm, SubmitJoin, Load, AttemptHost, Picked,
         Prepared, Listed, FailedJoin, FailedHost, JoinSeated, FirstOpened, HostSeated, PressLeave,
         CancelLeave, LeaveAnyway, ClosingDone, RoomGone, Reload
<1> DEFINE Remembered == /\ told.was = told.said
                         /\ bar \notin told.left
                         /\ bar \in Try => ~Hosts(bar)
                         /\ engines \subseteq {seat}
<1> SUFFICES ASSUME calm PROVE Remembered'
  BY <1>1 DEF TabRemembers
<1>2. Remembered /\ Single /\ Kept
  BY OneIsSingleAndKept DEF TabRemembers
<1>3. /\ 0 \notin Try /\ told.left \subseteq Try /\ engines \subseteq Try
      /\ mark \in BOOLEAN
      /\ \A t \in told.left : Came(t)
      /\ bar \in Try => Came(bar)
  BY DEF Numbered, TypeOK, Try
<1>4. bar \in Try => ~Hosts(bar) /\ tries'[bar].kind = tries[bar].kind
  BY <1>2, <1>3, WaysStep DEF Came
<1>5. ASSUME bar' = bar PROVE bar' \in Try => ~Hosts(bar)'
  BY <1>4, <1>5 DEF Hosts
<1>6. CASE UNCHANGED Remembering
  BY <1>2, <1>5, <1>6 DEF Remembering
<1>7. ASSUME NEW t \in Try, JoinSeated(t) \/ HostSeated(t) PROVE Remembered'
  <2>1. /\ seat' = t /\ engines' = engines \cup {t} /\ told' = told
        /\ bar' \in {bar, t} /\ (HostSeated(t) => bar' = bar)
        /\ tries[t].at \in {"dial", "mint"}
        /\ JoinSeated(t) => tries[t].at = "dial"
    BY <1>7, JoinSeatedFacts, HostSeatedFacts, SeatFacts
  <2>2. Going(t) /\ ~Came(t)
    BY <2>1 DEF Going, Came
  <2>3. engines' \subseteq {seat'}
    BY <1>2, <1>3, <2>1, <2>2 DEF Single
  <2>4. bar' \notin told'.left
    BY <1>2, <1>3, <2>1, <2>2
  <2>5. bar' = t /\ JoinSeated(t) => ~Hosts(bar)'
    <3>1. tries[t].at = "dial" => ~Hosts(t) /\ tries'[t].kind = tries[t].kind
      BY WaysStep DEF Numbered
    <3> QED BY <2>1, <3>1 DEF Hosts
  <2> QED BY <1>2, <1>5, <1>7, <2>1, <2>3, <2>4, <2>5
<1>8. ASSUME NEW t \in Try, FirstOpened(t) PROVE Remembered'
  <2>1. /\ tries[t].at = "first" /\ EndsAs(t, "over") /\ UNCHANGED <<seat, engines, told>>
        /\ bar' = bar \/ (seat # 0 /\ bar' = seat)
    BY <1>8, FirstOpenedFacts
  <2>2. bar' \notin told'.left
    BY <1>2, <2>1 DEF Kept
  <2>3. bar' = bar \/ (bar' = t /\ ~Hosts(t))
    BY <1>2, <2>1 DEF Single, Numbered
  <2>4. tries'[t].kind = tries[t].kind
    BY <2>1 DEF EndsAs
  <2> QED BY <1>2, <1>5, <2>1, <2>2, <2>3, <2>4 DEF Hosts
<1>9. CASE PressLeave \/ ClosingDone \/ RoomGone
  <2>1. CASE \E n \in 0..2 : LeaveSession(n)
    <3>1. /\ seat' = 0 /\ told'.was = told.was /\ told'.said = told.said
          /\ IF seat = 0 THEN UNCHANGED <<bar, told, engines>>
             ELSE /\ bar' = 0 /\ engines' = engines \ {seat}
                  /\ told'.left = told.left \cup {seat}
      BY <2>1, LeaveFacts
    <3> QED BY <1>2, <1>3, <1>5, <3>1
  <2>2. CASE ~\E n \in 0..2 : LeaveSession(n)
    <3>1. UNCHANGED Remembering
      BY <1>9, <2>2, LeavingFacts DEF Remembering
    <3> QED BY <1>6, <3>1
  <2> QED BY <2>1, <2>2
<1>10. CASE Reload
  <2>1. /\ seat' = 0 /\ engines' = {} /\ bar' = bar
        /\ told'.was = Hosts(seat) /\ told'.said = mark /\ told'.left = told.left
    BY <1>10, ReloadFacts DEF Reload
  <2>2. told'.was = told'.said
    <3>1. Hosts(seat) \in BOOLEAN
      BY DEF Hosts
    <3> QED BY <1>2, <1>3, <2>1, <3>1 DEF Kept
  <2> QED BY <1>2, <1>5, <2>1, <2>2
<1> QED BY <1>6, <1>7, <1>8, <1>9, <1>10, QuietStep DEF Next

-----------------------------------------------------------------------------

LEMMA InitHolds ==
    ASSUME PageAssumption, Init
    PROVE  PageInv
<1>1. PICK picker \in BOOLEAN : card = FreshCard(bar = Invite, picker)
  BY DEF Init
<1>2. (bar = Invite) \in BOOLEAN
  OBVIOUS
<1>3. /\ card \in CardType /\ card.joinOn /\ card.shown /\ ~card.armed /\ ~card.hostOn
      /\ card.read = "unread" /\ card.asking = 0
  BY <1>1, <1>2, FreshCardFacts
<1>4. /\ \A t \in Try : tries[t].at = "none" /\ ~Going(t) /\ ~Came(t)
      /\ tries \in [Try -> [kind: Kinds, at: Stages]]
  BY DEF Init, Going, Came, Kinds, Stages
<1>5. 0 \in 0..MaxTries /\ 0 \in 0..MaxReloads /\ 0 \notin Try /\ 0 \in 0..Invite
      /\ Invite \in 0..Invite /\ Invite \notin Try
  BY DEF PageAssumption, Invite, Try
<1>6. TypeOK
  <2>1. leave \in [asking: BOOLEAN, closing: 0..2, disposed: BOOLEAN]
    <3>1. \A no \in BOOLEAN : [asking |-> no, closing |-> 0, disposed |-> no]
                                \in [asking: BOOLEAN, closing: 0..2, disposed: BOOLEAN]
      OBVIOUS
    <3> QED BY <3>1 DEF Init
  <2>2. told \in [was: BOOLEAN, said: BOOLEAN, left: SUBSET Try]
    <3>1. \A no \in BOOLEAN : [was |-> no, said |-> no, left |-> {}]
                                \in [was: BOOLEAN, said: BOOLEAN, left: SUBSET Try]
      OBVIOUS
    <3> QED BY <3>1 DEF Init
  <2> QED BY <1>3, <1>4, <1>5, <2>1, <2>2 DEF Init, TypeOK
<1>7. Gates /\ Offers
  BY <1>3, <1>4 DEF Init, Gates, Offers
<1>8. Numbered
  BY <1>4, <1>5 DEF Init, Numbered
<1>9. OneAtATime /\ TabRemembers
  BY <1>4, <1>5 DEF Init, OneAtATime, TabRemembers, Hosts
<1> QED BY <1>6, <1>7, <1>8, <1>9 DEF PageInv

LEMMA StepHolds ==
    ASSUME PageAssumption, PageInv, [Next]_vars
    PROVE  PageInv'
BY TypeStep, GatesStep, OffersStep, NumberedStep, OneAtATimeStep, RememberedStep DEF PageInv

LEMMA PageInvHolds ==
    ASSUME PageAssumption
    PROVE  Spec => []PageInv
<1>1. Init => PageInv
  BY InitHolds
<1>2. PageInv /\ [Next]_vars => PageInv'
  BY StepHolds
<1> QED BY <1>1, <1>2, PTL DEF Spec

\* Every variable stays in its type, whatever fails, is left or is reloaded (main.ts).
THEOREM PageTypeOK ==
    ASSUME PageAssumption
    PROVE  Spec => []TypeOK
<1>1. PageInv => TypeOK
  BY DEF PageInv
<1> QED BY <1>1, PageInvHolds, PTL

\* The card can be used wherever nothing is behind it, and what a start was offered by stands
\* while it is answered, however the two ways in overlap (main.ts, runJoin, attemptHost,
\* leaveSession, offerHosting).
THEOREM PageCardIsLive ==
    ASSUME PageAssumption
    PROVE  Spec => []CardIsLive
<1>1. PageInv => CardIsLive
  <2> SUFFICES ASSUME PageInv PROVE CardIsLive
    OBVIOUS
  <2>1. InFlight = {} => \A t \in Try : ~Going(t)
    BY DEF InFlight, Going
  <2> QED BY <2>1 DEF PageInv, Gates, Offers, CardIsLive
<1> QED BY <1>1, PageInvHolds, PTL

\* Where the two ways in are not taken at once, a reload is told of a hosted room exactly where
\* one was, the address bar has the link of no room that was left or is hosted here, and no
\* engine outlives its session (host.ts, share.ts, main.ts, leaveSession).
THEOREM PageTabRemembers ==
    ASSUME PageAssumption
    PROVE  Spec => []TabRemembers
<1>1. PageInv => TabRemembers
  BY DEF PageInv
<1> QED BY <1>1, PageInvHolds, PTL

-----------------------------------------------------------------------------
(* The rows of the tree.                                                   *)

\* What the pane shows of a view.
Shown(v) ==
    /\ drawn.rows = Rows(v) /\ drawn.asking = v.asking
    /\ drawn.goes = Goes(v) /\ drawn.struck = Struck(v)
    /\ drawn.home = IF v.draft = NoDraft THEN Nowhere ELSE Home(v)
    /\ v.hold # NoHold /\ ~v.hold.pointer
          => drawn.held = {v.hold.path} \ {Nowhere} /\ drawn.landing = Landing(v)
    /\ v.pinned \cap drawn.rows \subseteq drawn.open

PaneOK == DOMAIN drawn = {"rows", "asking", "goes", "struck", "held", "landing", "row", "home", "open"}

DraftKey(v) == IF v.draft = NoDraft THEN <<>> ELSE <<v.draft.kind, Home(v)>>

\* The key the rows were drawn for is that of the view, but for a row that is dragged; and after
\* a reset there is nothing to draw.
Keyed ==
    IF drawnRows = Stale
    THEN listing = {} /\ local = {} /\ draft = NoDraft /\ asking = Nowhere /\ holding = NoHold
    ELSE /\ drawnRows.rows = listing /\ drawnRows.local = local /\ drawnRows.asking = asking
         /\ drawnRows.draft = DraftKey(View)
         /\ ~holding.pointer => drawnRows.moving = <<holding.path, holding.into>>

TreeHolds == TreeTypeOK /\ PaneOK /\ Shown(View) /\ Keyed

ViewOK(v) ==
    /\ v.listing \subseteq Files /\ v.local \subseteq Folders /\ v.pinned \subseteq Folders
    /\ v.draft \in Drafts /\ (v.draft.kind = "none" => v.draft = NoDraft)
    /\ v.row \in Nat /\ v.asking \in EntryPaths \cup {Nowhere} /\ v.hold \in Holds

Whole(v) == DOMAIN v = {"listing", "local", "draft", "row", "asking", "hold", "pinned", "key"}

\* What Shows leaves.
Left(v) ==
    /\ listing' = v.listing /\ local' = v.local /\ draft' = v.draft /\ asking' = v.asking
    /\ holding' = v.hold /\ pinned' = v.pinned /\ draftRow' \in Nat
    /\ PaneOK' /\ Shown(View)' /\ Keyed'

\* A view's fields.
LEMMA ViewFields ==
    /\ View.listing = listing /\ View.local = local /\ View.draft = draft /\ View.row = draftRow
    /\ View.asking = asking /\ View.hold = holding /\ View.pinned = pinned /\ View.key = drawnRows
BY DEF View

LEMMA ViewFieldsNext ==
    /\ View'.listing = listing' /\ View'.local = local' /\ View'.draft = draft'
    /\ View'.row = draftRow' /\ View'.asking = asking' /\ View'.hold = holding'
    /\ View'.pinned = pinned' /\ View'.key = drawnRows'
BY DEF View

\* What is read of a view is in its fields.
LEMMA Congruent ==
    ASSUME NEW v, NEW w, v.listing = w.listing, v.local = w.local, v.asking = w.asking
    PROVE  /\ Rows(v) = Rows(w) /\ Goes(v) = Goes(w) /\ Struck(v) = Struck(w)
           /\ v.draft = w.draft => Home(v) = Home(w) /\ DraftKey(v) = DraftKey(w)
           /\ v.hold = w.hold => Landing(v) = Landing(w)
<1>1. AboveOf(v.listing) = AboveOf(w.listing) /\ FoldersOf(v) = FoldersOf(w)
  BY DEF FoldersOf
<1>2. Rows(v) = Rows(w)
  BY <1>1 DEF Rows
<1>3. Goes(v) = Goes(w)
  BY DEF Goes
<1>4. Struck(v) = Struck(w)
  BY <1>1 DEF Struck
<1>5. ASSUME v.draft = w.draft PROVE Home(v) = Home(w) /\ DraftKey(v) = DraftKey(w)
  <2>1. {p \in FoldersOf(v) : IsPrefix(p, v.draft.prefix)} = {p \in FoldersOf(w) : IsPrefix(p, w.draft.prefix)}
    BY <1>1, <1>5
  <2>2. Home(v) = Home(w)
    BY <2>1 DEF Home
  <2> QED BY <1>5, <2>2 DEF DraftKey
<1>6. ASSUME v.hold = w.hold PROVE Landing(v) = Landing(w)
  <2>1. \A p : Taken(v, p) <=> Taken(w, p)
    BY DEF Taken
  <2>2. Lands(v, v.hold.into) <=> Lands(w, w.hold.into)
    BY <1>6, <2>1 DEF Lands
  <2> QED BY <1>6, <2>2 DEF Landing
<1> QED BY <1>2, <1>3, <1>4, <1>5, <1>6

\* A handler that renders leaves the pane as the view is: the rows are rebuilt, or what they read
\* has not moved.
LEMMA ShowsKeeps ==
    ASSUME TreeHolds, NEW v, ViewOK(v), Shows(v),
           v.key = Stale \/ (v.key = drawnRows /\ v.pinned = pinned),
           v.hold # NoHold /\ ~v.hold.pointer => ~holding.pointer
    PROVE  Left(v)
<1>1. /\ listing' = v.listing /\ local' = v.local /\ draft' = v.draft /\ asking' = v.asking
      /\ holding' = v.hold /\ pinned' = v.pinned
  BY DEF Shows
<1>2. /\ Rows(View') = Rows(v) /\ Goes(View') = Goes(v) /\ Struck(View') = Struck(v)
      /\ Home(View') = Home(v) /\ DraftKey(View') = DraftKey(v) /\ Landing(View') = Landing(v)
  BY <1>1, ViewFieldsNext, Congruent
<1>3. /\ Key(v).rows = v.listing /\ Key(v).local = v.local /\ Key(v).asking = v.asking
      /\ Key(v).draft = DraftKey(v)
      /\ ~v.hold.pointer => Key(v).moving = <<v.hold.path, v.hold.into>>
  BY DEF Key, DraftKey
<1>4. Key(v) # Stale
  <2>1. Nowhere \notin v.listing
    BY TreeAssumption DEF ViewOK, EntryPaths
  <2>2. Stale.rows = {Nowhere}
    BY DEF Stale
  <2> QED BY <1>3, <2>1, <2>2
<1>5. drawnRows' = Key(v)
  BY DEF Shows
<1>6. Keyed'
  <2>1. drawnRows' # Stale /\ drawnRows'.draft = DraftKey(View')
    BY <1>2, <1>3, <1>4, <1>5
  <2> QED BY <1>1, <1>3, <1>5, <2>1 DEF Keyed
<1>7. CASE Key(v) = v.key
  <2>1. v.key = drawnRows /\ drawnRows # Stale /\ v.pinned = pinned
        /\ drawn' = drawn /\ draftRow' = v.row
    BY <1>4, <1>7 DEF Shows
  <2>2. /\ v.listing = listing /\ v.local = local /\ v.asking = asking
        /\ DraftKey(v) = DraftKey(View)
        /\ ~v.hold.pointer /\ ~holding.pointer
              => <<v.hold.path, v.hold.into>> = <<holding.path, holding.into>>
    BY <1>3, <1>7, <2>1 DEF TreeHolds, Keyed
  <2>3. /\ Rows(v) = Rows(View) /\ Goes(v) = Goes(View) /\ Struck(v) = Struck(View)
        /\ v.hold = holding => Landing(v) = Landing(View)
    BY <2>2, ViewFields, Congruent
  <2>4. (v.draft = NoDraft <=> draft = NoDraft) /\ (v.draft # NoDraft => Home(v) = Home(View))
    <3>1. \A k, h : <<k, h>> # <<>>
      OBVIOUS
    <3>2. \A k, h, l, g : <<k, h>> = <<l, g>> => h = g
      OBVIOUS
    <3> QED BY <2>2, <3>1, <3>2, ViewFields DEF DraftKey
  <2>5. v.hold # NoHold /\ ~v.hold.pointer => v.hold = holding
    <3>1. v.hold \in Holds /\ holding \in Holds
      BY DEF ViewOK, TreeHolds, TreeTypeOK
    <3> QED BY <2>2, <3>1 DEF Holds
  <2>6. Shown(View)'
    BY <1>1, <1>2, <2>1, <2>2, <2>3, <2>4, <2>5, ViewFields, ViewFieldsNext DEF TreeHolds, Shown
  <2>7. PaneOK' /\ draftRow' \in Nat
    BY <2>1 DEF TreeHolds, PaneOK, ViewOK
  <2> QED BY <1>1, <1>6, <2>6, <2>7 DEF Left
<1>8. CASE Key(v) # v.key
  <2>1. drawn' = Drawing(v) /\ draftRow' = Drawing(v).row
    BY <1>8 DEF Shows
  <2>2. /\ Drawing(v).rows = Rows(v) /\ Drawing(v).asking = v.asking
        /\ Drawing(v).goes = Goes(v) /\ Drawing(v).struck = Struck(v)
        /\ Drawing(v).held = {v.hold.path} \ {Nowhere} /\ Drawing(v).landing = Landing(v)
        /\ Drawing(v).home = IF v.draft = NoDraft THEN Nowhere ELSE Home(v)
        /\ v.pinned \subseteq Drawing(v).open
        /\ Drawing(v).row \in {0, v.row, v.draft.id}
    BY DEF Drawing
  <2>3. PaneOK'
    BY <2>1 DEF PaneOK, Drawing
  <2>4. draftRow' \in Nat
    BY <2>1, <2>2 DEF ViewOK, Drafts
  <2>5. Shown(View)'
    BY <1>1, <1>2, <2>1, <2>2, ViewFieldsNext DEF Shown
  <2> QED BY <1>1, <1>6, <2>3, <2>4, <2>5 DEF Left
<1> QED BY <1>7, <1>8

\* The rest of what a step may do keeps the types.
LEMMA LeftHolds ==
    ASSUME NEW v, ViewOK(v), Left(v),
           drafts' \in Nat, presses' \in Nat, moves' \in Nat,
           creating' \subseteq [id : Nat, kind : EntryKinds, prefix : Folders \cup {<<>>}],
           deleting' \in EntryPaths \cup {Nowhere},
           moving' \subseteq [path : EntryPaths, into : Folders \cup {<<>>}]
    PROVE  TreeHolds'
BY DEF ViewOK, Left, TreeHolds, TreeTypeOK

LEMMA NowOK ==
    ASSUME TreeHolds
    PROVE  ViewOK(View)
BY ViewFields DEF TreeHolds, TreeTypeOK, ViewOK

\* The room's listing moves, and the pane is emptied.
LEMMA RoomMovesKeeps ==
    ASSUME TreeHolds, RoomMoves
    PROVE  TreeHolds'
<1>1. PICK files \in Listings, folders \in SUBSET Folders :
         Shows([View EXCEPT !.listing = files, !.local = folders])
  BY DEF RoomMoves
<1>2. moves' = moves + 1 /\ UNCHANGED <<drafts, creating, deleting, moving, presses>>
  BY DEF RoomMoves
<1> DEFINE v == [View EXCEPT !.listing = files, !.local = folders]
<1>3. /\ v.listing = files /\ v.local = folders /\ v.draft = draft /\ v.row = draftRow
      /\ v.asking = asking /\ v.hold = holding /\ v.pinned = pinned /\ v.key = drawnRows
  BY DEF View
<1>4. Shows(v)
  BY <1>1
<1> HIDE DEF v
<1>5. ViewOK(v)
  BY <1>3, TreeAssumption DEF TreeHolds, TreeTypeOK, ViewOK
<1>6. Left(v)
  BY <1>3, <1>4, <1>5, ShowsKeeps
<1> QED BY <1>2, <1>5, <1>6, LeftHolds DEF TreeHolds, TreeTypeOK

LEMMA ResetKeeps ==
    ASSUME TreeHolds, Reset
    PROVE  TreeHolds'
<1>1. /\ listing' = {} /\ local' = {} /\ draft' = NoDraft /\ draftRow' = 0 /\ asking' = Nowhere
      /\ holding' = NoHold /\ drawnRows' = Stale /\ moves' = moves + 1
      /\ drawn' = [rows |-> {}, asking |-> Nowhere, goes |-> 0, struck |-> {}, held |-> {},
                   landing |-> Nowhere, row |-> 0, home |-> Nowhere, open |-> {}]
      /\ UNCHANGED <<drafts, creating, deleting, moving, pinned, presses>>
  BY DEF Reset
<1>2. NoDraft \in Drafts /\ NoHold \in Holds
  BY DEF NoDraft, Drafts, NoHold, Holds
<1>3. AboveOf({}) = {}
  BY DEF AboveOf
<1>4. Rows(View') = {} /\ Struck(View') = {}
  BY <1>1, <1>3, ViewFieldsNext DEF Rows, Struck
<1>5. Goes(View') = 0
  <2>1. {q \in {} : In(q, Nowhere)} = {}
    OBVIOUS
  <2> QED BY <1>1, <2>1, ViewFieldsNext, FS_EmptySet DEF Goes
<1>6. Shown(View)'
  BY <1>1, <1>4, <1>5, ViewFieldsNext DEF Shown
<1>7. PaneOK' /\ Keyed'
  BY <1>1 DEF PaneOK, Keyed
<1>8. TreeTypeOK'
  BY <1>1, <1>2 DEF TreeHolds, TreeTypeOK
<1> QED BY <1>6, <1>7, <1>8 DEF TreeHolds

\* The browser shows what the person opened or shut.
LEMMA ToggleKeeps ==
    ASSUME TreeHolds, Toggle
    PROVE  TreeHolds'
<1>1. PICK p \in drawn.rows \cap Folders :
          IF p \in drawn.open
          THEN pinned' = pinned \ {p} /\ drawn' = [drawn EXCEPT !.open = @ \ {p}]
          ELSE pinned' = pinned \cup {p} /\ drawn' = [drawn EXCEPT !.open = @ \cup {p}]
  BY DEF Toggle
<1>2. /\ presses' = presses + 1
      /\ UNCHANGED <<listing, local, draft, draftRow, drafts, creating, asking, deleting, holding,
                     moving, drawnRows, moves>>
  BY DEF Toggle, Press
<1>3. PaneOK' /\ drawn'.open = (IF p \in drawn.open THEN drawn.open \ {p} ELSE drawn.open \cup {p})
      /\ \A x \in DOMAIN drawn \ {"open"} : drawn'[x] = drawn[x]
  BY <1>1 DEF TreeHolds, PaneOK
<1>4. /\ drawn'.rows = drawn.rows /\ drawn'.asking = drawn.asking /\ drawn'.goes = drawn.goes
      /\ drawn'.struck = drawn.struck /\ drawn'.home = drawn.home /\ drawn'.held = drawn.held
      /\ drawn'.landing = drawn.landing
  BY <1>3 DEF TreeHolds, PaneOK
<1>5. pinned' \cap drawn'.rows \subseteq drawn'.open
  BY <1>1, <1>3, <1>4, ViewFields DEF TreeHolds, Shown
<1>6. /\ Rows(View') = Rows(View) /\ Goes(View') = Goes(View) /\ Struck(View') = Struck(View)
      /\ Home(View') = Home(View) /\ DraftKey(View') = DraftKey(View)
      /\ Landing(View') = Landing(View)
  BY <1>2, ViewFields, ViewFieldsNext, Congruent
<1>7. Shown(View)'
  BY <1>2, <1>4, <1>5, <1>6, ViewFields, ViewFieldsNext DEF TreeHolds, Shown
<1>8. Keyed'
  BY <1>2, <1>6 DEF TreeHolds, Keyed
<1>9. pinned' \subseteq Folders
  BY <1>1 DEF TreeHolds, TreeTypeOK
<1>10. TreeTypeOK'
  BY <1>2, <1>9 DEF TreeHolds, TreeTypeOK
<1> QED BY <1>3, <1>7, <1>8, <1>10 DEF TreeHolds

\* A step that renders nothing, and moves nothing that is drawn.
LEMMA QuietKeeps ==
    ASSUME TreeHolds, UNCHANGED <<listing, local, asking, holding, pinned, drawn, drawnRows, draftRow>>,
           draft' \in Drafts, draft'.kind = "none" => draft' = NoDraft,
           (draft' = NoDraft) <=> (draft = NoDraft),
           draft'.kind = draft.kind,
           draft # NoDraft => Home(View') = Home(View),
           drafts' \in Nat, presses' \in Nat, moves' \in Nat,
           creating' \subseteq [id : Nat, kind : EntryKinds, prefix : Folders \cup {<<>>}],
           deleting' \in EntryPaths \cup {Nowhere},
           moving' \subseteq [path : EntryPaths, into : Folders \cup {<<>>}]
    PROVE  TreeHolds'
<1>1. /\ Rows(View') = Rows(View) /\ Goes(View') = Goes(View) /\ Struck(View') = Struck(View)
      /\ Landing(View') = Landing(View)
  BY ViewFields, ViewFieldsNext, Congruent
<1>2. DraftKey(View') = DraftKey(View)
  BY ViewFields, ViewFieldsNext DEF DraftKey
<1>3. Shown(View)'
  BY <1>1, ViewFields, ViewFieldsNext DEF TreeHolds, Shown
<1>4. Keyed'
  BY <1>2 DEF TreeHolds, Keyed
<1> QED BY <1>3, <1>4 DEF TreeHolds, TreeTypeOK, PaneOK

\* The same, where not even the draft moves.
LEMMA StillKeeps ==
    ASSUME TreeHolds, UNCHANGED <<listing, local, draft, draftRow, asking, holding, pinned, drawn, drawnRows>>,
           drafts' \in Nat, presses' \in Nat, moves' \in Nat,
           creating' \subseteq [id : Nat, kind : EntryKinds, prefix : Folders \cup {<<>>}],
           deleting' \in EntryPaths \cup {Nowhere},
           moving' \subseteq [path : EntryPaths, into : Folders \cup {<<>>}]
    PROVE  TreeHolds'
<1>1. Home(View') = Home(View)
  BY ViewFields, ViewFieldsNext, Congruent
<1>2. draft' \in Drafts /\ (draft'.kind = "none" => draft' = NoDraft)
  BY DEF TreeHolds, TreeTypeOK
<1> QED BY <1>1, <1>2, QuietKeeps

-----------------------------------------------------------------------------
(* The create row.                                                         *)

\* A row is opened, and it stays where it is, or is drawn.
LEMMA OpenDraftKeeps ==
    ASSUME TreeHolds, NEW v, ViewOK(v), NEW kind \in EntryKinds, NEW prefix \in Folders \cup {<<>>},
           OpenDraft(v, kind, prefix), v.key = drawnRows, v.pinned = pinned, v.hold = holding,
           Whole(v),
           presses' \in Nat, moves' \in Nat,
           creating' \subseteq [id : Nat, kind : EntryKinds, prefix : Folders \cup {<<>>}],
           deleting' \in EntryPaths \cup {Nowhere},
           moving' \subseteq [path : EntryPaths, into : Folders \cup {<<>>}]
    PROVE  TreeHolds'
<1>1. CASE Same(v, kind, prefix)
  <2>1. Shows(v) /\ drafts' = drafts
    BY <1>1 DEF OpenDraft
  <2>2. Left(v)
    BY <2>1, ShowsKeeps
  <2> QED BY <2>1, <2>2, LeftHolds DEF TreeHolds, TreeTypeOK
<1>2. CASE ~Same(v, kind, prefix)
  <2> DEFINE fresh == [id |-> drafts + 1, kind |-> kind, prefix |-> prefix, named |-> FALSE, busy |-> FALSE]
             w == [v EXCEPT !.row = 0, !.draft = fresh]
  <2>1. Shows(w) /\ drafts' = drafts + 1
    BY <1>2 DEF OpenDraft
  <2>2. drafts \in Nat
    BY DEF TreeHolds, TreeTypeOK
  <2>3. fresh \in Drafts /\ fresh.kind # "none"
    BY <2>2 DEF Drafts, EntryKinds
  <2>4. /\ w.listing = v.listing /\ w.local = v.local /\ w.draft = fresh /\ w.row = 0
        /\ w.asking = v.asking /\ w.hold = v.hold /\ w.pinned = v.pinned /\ w.key = v.key
    OBVIOUS
  <2> HIDE DEF w, fresh
  <2>5. ViewOK(w)
    BY <2>3, <2>4 DEF ViewOK
  <2>6. Left(w)
    BY <2>1, <2>4, <2>5, ShowsKeeps
  <2> QED BY <2>1, <2>2, <2>5, <2>6, LeftHolds
<1> QED BY <1>1, <1>2

LEMMA BeginCreateKeeps ==
    ASSUME TreeHolds, BeginCreate
    PROVE  TreeHolds'
<1>1. PICK kind \in EntryKinds, parent \in {<<>>} \cup (drawn.rows \cap Folders) :
         OpenDraft(View, kind, parent)
  BY DEF BeginCreate
<1>2. presses' = presses + 1 /\ UNCHANGED <<creating, deleting, moving, moves>>
  BY DEF BeginCreate, Press
<1>3. ViewOK(View) /\ parent \in Folders \cup {<<>>}
  BY NowOK
<1>4. Whole(View)
  BY DEF View, Whole
<1>5. presses' \in Nat /\ moves' \in Nat
      /\ creating' \subseteq [id : Nat, kind : EntryKinds, prefix : Folders \cup {<<>>}]
      /\ deleting' \in EntryPaths \cup {Nowhere}
      /\ moving' \subseteq [path : EntryPaths, into : Folders \cup {<<>>}]
  BY <1>2 DEF TreeHolds, TreeTypeOK
<1> QED BY <1>1, <1>3, <1>4, <1>5, ViewFields, OpenDraftKeeps

\* A view with the row closed.
LEMMA CancelledIs ==
    ASSUME NEW v, ViewOK(v),
           Whole(v)
    PROVE  /\ ViewOK(Cancelled(v))
           /\ Cancelled(v).key = v.key /\ Cancelled(v).pinned = v.pinned /\ Cancelled(v).hold = v.hold
<1> DEFINE w == Cancelled(v)
<1>1. /\ w.listing = v.listing /\ w.local = v.local /\ w.draft = NoDraft /\ w.row = 0
      /\ w.asking = v.asking /\ w.hold = v.hold /\ w.pinned = v.pinned /\ w.key = v.key
  BY DEF Cancelled
<1>2. NoDraft \in Drafts
  BY DEF NoDraft, Drafts
<1> HIDE DEF w
<1>3. ViewOK(w)
  BY <1>1, <1>2 DEF ViewOK
<1> QED BY <1>1, <1>3 DEF w

LEMMA CancelCreateKeeps ==
    ASSUME TreeHolds, CancelCreate
    PROVE  TreeHolds'
<1>1. Shows(Cancelled(View)) /\ presses' = presses + 1
      /\ UNCHANGED <<drafts, creating, deleting, moving, moves>>
  BY DEF CancelCreate, Press
<1>2. Whole(View)
  BY DEF View, Whole
<1>3. /\ ViewOK(Cancelled(View)) /\ Cancelled(View).key = drawnRows
      /\ Cancelled(View).pinned = pinned /\ Cancelled(View).hold = holding
  BY <1>2, NowOK, CancelledIs, ViewFields
<1>4. Left(Cancelled(View))
  BY <1>1, <1>3, ShowsKeeps
<1> QED BY <1>1, <1>3, <1>4, LeftHolds DEF TreeHolds, TreeTypeOK

\* A draft that changes, and is one still.
LEMMA DraftOf ==
    ASSUME TreeHolds, draft # NoDraft
    PROVE  draft \in Drafts /\ draft.kind # "none" /\ NoDraft.kind = "none"
BY DEF TreeHolds, TreeTypeOK, NoDraft

LEMMA TypeNameKeeps ==
    ASSUME TreeHolds, TypeName
    PROVE  TreeHolds'
<1>1. PICK prefix \in {<<>>} \cup Folders, named \in BOOLEAN :
         LET v == [View EXCEPT !.draft.prefix = prefix, !.draft.named = named] IN
         IF Home(v) # Home(View)
         THEN Shows(v)
         ELSE /\ draft' = v.draft
              /\ UNCHANGED <<listing, local, draftRow, asking, holding, pinned, drawn, drawnRows>>
  BY DEF TypeName
<1>2. /\ draft # NoDraft /\ presses' = presses + 1
      /\ UNCHANGED <<drafts, creating, deleting, moving, moves>>
  BY DEF TypeName, Press
<1> DEFINE typed == [draft EXCEPT !.prefix = prefix, !.named = named]
           v == [View EXCEPT !.draft.prefix = prefix, !.draft.named = named]
<1>3. /\ v.listing = listing /\ v.local = local /\ v.draft = typed /\ v.row = draftRow
      /\ v.asking = asking /\ v.hold = holding /\ v.pinned = pinned /\ v.key = drawnRows
  BY DEF View
<1>4. typed \in Drafts /\ typed.kind = draft.kind /\ draft.kind # "none" /\ typed # NoDraft
  <2>1. draft \in Drafts /\ draft.kind # "none" /\ NoDraft.kind = "none"
    BY <1>2, DraftOf
  <2>2. typed \in Drafts /\ typed.kind = draft.kind
    BY <2>1 DEF Drafts
  <2> HIDE DEF typed
  <2> QED BY <2>1, <2>2
<1>5. IF Home(v) # Home(View)
      THEN Shows(v)
      ELSE /\ draft' = v.draft
           /\ UNCHANGED <<listing, local, draftRow, asking, holding, pinned, drawn, drawnRows>>
  BY <1>1
<1> HIDE DEF typed, v
<1>6. ViewOK(v)
  BY <1>3, <1>4 DEF TreeHolds, TreeTypeOK, ViewOK
<1>7. CASE Shows(v)
  <2>1. Left(v)
    BY <1>3, <1>6, <1>7, ShowsKeeps
  <2> QED BY <1>2, <1>6, <2>1, LeftHolds DEF TreeHolds, TreeTypeOK
<1>8. CASE Home(v) = Home(View)
  <2>1. draft' = typed /\ UNCHANGED <<listing, local, draftRow, asking, holding, pinned, drawn, drawnRows>>
    BY <1>3, <1>5, <1>8
  <2>2. Home(View') = Home(v)
    BY <1>3, <2>1, ViewFieldsNext, Congruent
  <2>3. /\ drafts' \in Nat /\ presses' \in Nat /\ moves' \in Nat
        /\ creating' \subseteq [id : Nat, kind : EntryKinds, prefix : Folders \cup {<<>>}]
        /\ deleting' \in EntryPaths \cup {Nowhere}
        /\ moving' \subseteq [path : EntryPaths, into : Folders \cup {<<>>}]
    BY <1>2 DEF TreeHolds, TreeTypeOK
  <2> QED BY <1>2, <1>4, <1>8, <2>1, <2>2, <2>3, QuietKeeps
<1> QED BY <1>5, <1>7, <1>8

\* The row as it is handed to the page, and handed back.
LEMMA BusyDraft ==
    ASSUME TreeHolds, NEW busy \in BOOLEAN
    PROVE  LET d == [draft EXCEPT !.busy = busy] IN
           /\ d \in Drafts /\ d.kind = draft.kind /\ d.prefix = draft.prefix
           /\ draft # NoDraft => d # NoDraft
           /\ draft = NoDraft /\ ~busy => d = NoDraft
<1> DEFINE d == [draft EXCEPT !.busy = busy]
<1>1. draft \in Drafts
  BY DEF TreeHolds, TreeTypeOK
<1>2. d \in Drafts /\ d.kind = draft.kind /\ d.prefix = draft.prefix
  BY <1>1 DEF Drafts
<1>3. draft # NoDraft => d # NoDraft
  <2> HIDE DEF d
  <2> QED BY <1>2, DraftOf
<1>4. draft = NoDraft /\ ~busy => d = NoDraft
  <2> SUFFICES ASSUME draft = NoDraft, ~busy PROVE d = NoDraft
    OBVIOUS
  <2>1. busy = FALSE
    OBVIOUS
  <2>2. d.id = 0 /\ d.kind = "none" /\ d.prefix = <<>> /\ d.named = FALSE /\ d.busy = FALSE
    BY <1>1, <2>1 DEF NoDraft
  <2>3. NoDraft \in Drafts
    BY DEF NoDraft, Drafts
  <2> HIDE DEF d
  <2> QED BY <1>2, <2>2, <2>3 DEF NoDraft, Drafts
<1> QED BY <1>2, <1>3, <1>4

LEMMA CommitKeeps ==
    ASSUME TreeHolds, Commit
    PROVE  TreeHolds'
<1> DEFINE c == [id |-> draft.id, kind |-> draft.kind, prefix |-> draft.prefix]
           d == [draft EXCEPT !.busy = TRUE]
<1>1. /\ draft # NoDraft /\ draft' = d /\ presses' = presses + 1
      /\ creating' = creating \cup {c}
      /\ UNCHANGED <<listing, local, draftRow, drafts, asking, deleting, holding, moving, pinned,
                     drawn, drawnRows, moves>>
  BY DEF Commit, Press
<1>2. d \in Drafts /\ d.kind = draft.kind /\ d.prefix = draft.prefix /\ d # NoDraft
  BY <1>1, BusyDraft
<1>3. draft.kind # "none" /\ draft \in Drafts
  BY <1>1, DraftOf
<1>4. c \in [id : Nat, kind : EntryKinds, prefix : Folders \cup {<<>>}]
  BY <1>3 DEF Drafts
<1> HIDE DEF c, d
<1>5. Home(View') = Home(View)
  <2>1. FoldersOf(View') = FoldersOf(View) /\ View'.draft.prefix = View.draft.prefix
    BY <1>1, <1>2, ViewFields, ViewFieldsNext DEF FoldersOf
  <2> QED BY <2>1 DEF Home
<1>6. /\ drafts' \in Nat /\ presses' \in Nat /\ moves' \in Nat
      /\ creating' \subseteq [id : Nat, kind : EntryKinds, prefix : Folders \cup {<<>>}]
      /\ deleting' \in EntryPaths \cup {Nowhere}
      /\ moving' \subseteq [path : EntryPaths, into : Folders \cup {<<>>}]
  BY <1>1, <1>4 DEF TreeHolds, TreeTypeOK
<1> QED BY <1>1, <1>2, <1>3, <1>5, <1>6, QuietKeeps

\* An answer is taken by the row that asked for it, or by none.
LEMMA CreateAnsweredKeeps ==
    ASSUME TreeHolds, CreateAnswered
    PROVE  TreeHolds' /\ \A c \in creating : c \notin creating' /\ draft' # draft => draft.id = c.id
<1> DEFINE idle == [View EXCEPT !.draft.busy = FALSE]
           d == [draft EXCEPT !.busy = FALSE]
<1>1. PICK c \in creating :
          /\ creating' = creating \ {c}
          /\ IF ~Owns(c)
             THEN UNCHANGED <<listing, local, draft, draftRow, asking, holding, pinned, drawn,
                              drawnRows, drafts>>
             ELSE \/ /\ draft' = idle.draft
                     /\ UNCHANGED <<room, draftRow, asking, holding, pinned, drawn, drawnRows, drafts>>
                  \/ /\ c.kind = "file"
                     /\ Shows(Cancelled(IF c.prefix = <<>> THEN idle ELSE OpenFolder(idle, c.prefix)))
                     /\ UNCHANGED drafts
                  \/ /\ c.kind = "directory"
                     /\ \E p \in Folders : Parent(p) = c.prefix /\ OpenDraft(idle, "file", p)
  BY DEF CreateAnswered
<1>2. UNCHANGED <<deleting, moving, presses, moves>>
  BY DEF CreateAnswered
<1>3. \A x \in creating : x \notin creating' /\ draft' # draft => draft.id = x.id
  BY <1>1 DEF Owns
<1>4. /\ presses' \in Nat /\ moves' \in Nat
      /\ creating' \subseteq [id : Nat, kind : EntryKinds, prefix : Folders \cup {<<>>}]
      /\ deleting' \in EntryPaths \cup {Nowhere}
      /\ moving' \subseteq [path : EntryPaths, into : Folders \cup {<<>>}]
      /\ drafts \in Nat
  BY <1>1, <1>2 DEF TreeHolds, TreeTypeOK
<1>5. /\ d \in Drafts /\ d.kind = draft.kind /\ d.prefix = draft.prefix
      /\ (d = NoDraft <=> draft = NoDraft)
  BY BusyDraft
<1>6. /\ idle.listing = listing /\ idle.local = local /\ idle.draft = d /\ idle.row = draftRow
      /\ idle.asking = asking /\ idle.hold = holding /\ idle.pinned = pinned /\ idle.key = drawnRows
  BY DEF View
<1>7. Whole(idle)
  BY DEF View, Whole
<1>8. c.prefix \in Folders \cup {<<>>}
  BY DEF TreeHolds, TreeTypeOK
<1>9. d.kind = "none" => d = NoDraft
  BY <1>5 DEF TreeHolds, TreeTypeOK
<1> HIDE DEF idle, d
<1>10. ViewOK(idle)
  BY <1>5, <1>6, <1>9 DEF TreeHolds, TreeTypeOK, ViewOK
<1>11. CASE UNCHANGED <<listing, local, draft, draftRow, asking, holding, pinned, drawn,
                        drawnRows, drafts>>
  <2>1. drafts' \in Nat
    BY <1>4, <1>11
  <2> QED BY <1>3, <1>4, <1>11, <2>1, StillKeeps
<1>12. CASE /\ draft' = idle.draft
            /\ UNCHANGED <<room, draftRow, asking, holding, pinned, drawn, drawnRows, drafts>>
  <2>1. draft' = d /\ UNCHANGED <<listing, local>> /\ drafts' \in Nat
    BY <1>4, <1>6, <1>12 DEF room
  <2>2. Home(View') = Home(View)
    <3>1. FoldersOf(View') = FoldersOf(View) /\ View'.draft.prefix = View.draft.prefix
      BY <1>5, <2>1, ViewFields, ViewFieldsNext DEF FoldersOf
    <3> QED BY <3>1 DEF Home
  <2>3. UNCHANGED <<listing, local, asking, holding, pinned, drawn, drawnRows, draftRow>>
    BY <1>12, <2>1
  <2>4. /\ draft' \in Drafts /\ (draft'.kind = "none" => draft' = NoDraft)
        /\ (draft' = NoDraft <=> draft = NoDraft) /\ draft'.kind = draft.kind
    BY <1>5, <1>9, <2>1
  <2> QED BY <1>3, <1>4, <2>1, <2>2, <2>3, <2>4, QuietKeeps
<1>13. CASE /\ Shows(Cancelled(IF c.prefix = <<>> THEN idle ELSE OpenFolder(idle, c.prefix)))
            /\ UNCHANGED drafts
  <2> DEFINE opened == OpenFolder(idle, c.prefix)
             v == IF c.prefix = <<>> THEN idle ELSE opened
  <2>1. c.prefix # <<>> =>
           /\ opened.listing = idle.listing /\ opened.local = idle.local /\ opened.draft = idle.draft
           /\ opened.row = idle.row /\ opened.asking = idle.asking /\ opened.hold = idle.hold
           /\ opened.pinned = idle.pinned \cup {c.prefix} /\ opened.key = Stale
           /\ Whole(opened)
    BY <1>7 DEF OpenFolder, Whole
  <2> HIDE DEF opened
  <2>2. c.prefix # <<>> => ViewOK(opened)
    BY <1>8, <1>10, <2>1 DEF ViewOK
  <2>3. /\ ViewOK(v) /\ v.hold = holding
        /\ v.key = Stale \/ (v.key = drawnRows /\ v.pinned = pinned)
        /\ Whole(v)
    BY <1>6, <1>7, <1>10, <2>1, <2>2
  <2>4. Shows(Cancelled(v))
    BY <1>13 DEF opened
  <2> HIDE DEF v
  <2>5. /\ ViewOK(Cancelled(v)) /\ Cancelled(v).key = v.key /\ Cancelled(v).pinned = v.pinned
        /\ Cancelled(v).hold = holding
    BY <2>3, CancelledIs
  <2>6. Left(Cancelled(v))
    BY <2>3, <2>4, <2>5, ShowsKeeps
  <2>7. drafts' \in Nat
    BY <1>4, <1>13
  <2> QED BY <1>3, <1>4, <2>5, <2>6, <2>7, LeftHolds
<1>14. CASE \E p \in Folders : Parent(p) = c.prefix /\ OpenDraft(idle, "file", p)
  <2>1. PICK p \in Folders : OpenDraft(idle, "file", p)
    BY <1>14
  <2>2. "file" \in EntryKinds /\ p \in Folders \cup {<<>>}
    BY DEF EntryKinds
  <2> QED BY <1>3, <1>4, <1>6, <1>7, <1>10, <2>1, <2>2, OpenDraftKeeps
<1> QED BY <1>1, <1>11, <1>12, <1>13, <1>14

-----------------------------------------------------------------------------
(* The row that asks, and the row that is held.                            *)

\* The rows that are drawn are of the tree.
LEMMA DrawnRows ==
    ASSUME TreeHolds
    PROVE  drawn.rows \subseteq EntryPaths
BY ViewFields DEF TreeHolds, TreeTypeOK, Shown, Rows, AboveOf, EntryPaths

\* What the rest of the state may come to.
RestOK ==
    /\ drafts' \in Nat /\ presses' \in Nat /\ moves' \in Nat
    /\ creating' \subseteq [id : Nat, kind : EntryKinds, prefix : Folders \cup {<<>>}]
    /\ deleting' \in EntryPaths \cup {Nowhere}
    /\ moving' \subseteq [path : EntryPaths, into : Folders \cup {<<>>}]

\* A handler that changes the row that asks, or the one that is held, and renders.
LEMMA AsksOrHolds ==
    ASSUME TreeHolds, NEW v, Shows(v),
           v.listing = listing, v.local = local, v.draft = draft, v.row = draftRow,
           v.pinned = pinned, v.key = drawnRows,
           v.asking \in EntryPaths \cup {Nowhere}, v.hold \in Holds,
           v.hold # NoHold /\ ~v.hold.pointer => ~holding.pointer,
           RestOK
    PROVE  TreeHolds'
<1>1. ViewOK(v)
  BY DEF TreeHolds, TreeTypeOK, ViewOK
<1>2. Left(v)
  BY <1>1, ShowsKeeps
<1> QED BY <1>1, <1>2, LeftHolds DEF RestOK

LEMMA NoHoldIs == NoHold \in Holds
BY DEF NoHold, Holds

LEMMA BeginDeleteKeeps ==
    ASSUME TreeHolds, BeginDelete
    PROVE  TreeHolds'
<1>1. PICK p \in drawn.rows : Shows([View EXCEPT !.asking = p, !.hold = NoHold])
  BY DEF BeginDelete
<1>2. presses' = presses + 1 /\ UNCHANGED <<drafts, creating, deleting, moving, moves>>
  BY DEF BeginDelete, Press
<1>3. p \in EntryPaths \cup {Nowhere} /\ RestOK
  BY <1>1, <1>2, DrawnRows DEF RestOK, TreeHolds, TreeTypeOK
<1> DEFINE v == [View EXCEPT !.asking = p, !.hold = NoHold]
<1>4. /\ v.listing = listing /\ v.local = local /\ v.draft = draft /\ v.row = draftRow
      /\ v.asking = p /\ v.hold = NoHold /\ v.pinned = pinned /\ v.key = drawnRows
  BY DEF View
<1>5. Shows(v)
  BY <1>1
<1> HIDE DEF v
<1> QED BY <1>3, <1>4, <1>5, NoHoldIs, AsksOrHolds

\* The question is taken down.
LEMMA UnaskedKeeps ==
    ASSUME TreeHolds, Shows([View EXCEPT !.asking = Nowhere]), RestOK
    PROVE  TreeHolds'
<1> DEFINE v == [View EXCEPT !.asking = Nowhere]
<1>1. /\ v.listing = listing /\ v.local = local /\ v.draft = draft /\ v.row = draftRow
      /\ v.asking = Nowhere /\ v.hold = holding /\ v.pinned = pinned /\ v.key = drawnRows
  BY DEF View
<1>2. Shows(v)
  OBVIOUS
<1>3. holding \in Holds
  BY DEF TreeHolds, TreeTypeOK
<1> HIDE DEF v
<1> QED BY <1>1, <1>2, <1>3, AsksOrHolds

LEMMA CancelDeleteKeeps ==
    ASSUME TreeHolds, CancelDelete
    PROVE  TreeHolds'
<1>1. Shows([View EXCEPT !.asking = Nowhere]) /\ presses' = presses + 1
      /\ UNCHANGED <<drafts, creating, deleting, moving, moves>>
  BY DEF CancelDelete, Press
<1>2. RestOK
  BY <1>1 DEF RestOK, TreeHolds, TreeTypeOK
<1> QED BY <1>1, <1>2, UnaskedKeeps

LEMMA ConfirmDeleteKeeps ==
    ASSUME TreeHolds, ConfirmDelete
    PROVE  TreeHolds'
<1>1. /\ drawn.asking \in drawn.rows /\ deleting' = drawn.asking
      /\ UNCHANGED <<room, draft, draftRow, drafts, creating, asking, holding, moving, pinned, drawn,
                     drawnRows, presses, moves>>
  BY DEF ConfirmDelete
<1>2. RestOK
  BY <1>1, DrawnRows DEF RestOK, TreeHolds, TreeTypeOK
<1> QED BY <1>1, <1>2, StillKeeps DEF RestOK, room

LEMMA DeleteAnsweredKeeps ==
    ASSUME TreeHolds, DeleteAnswered
    PROVE  TreeHolds'
<1>1. /\ deleting' = Nowhere /\ UNCHANGED <<drafts, creating, moving, presses, moves>>
      /\ \/ UNCHANGED <<room, draft, draftRow, asking, holding, pinned, drawn, drawnRows>>
         \/ Shows([View EXCEPT !.asking = Nowhere])
  BY DEF DeleteAnswered
<1>2. RestOK
  BY <1>1 DEF RestOK, TreeHolds, TreeTypeOK
<1>3. CASE UNCHANGED <<room, draft, draftRow, asking, holding, pinned, drawn, drawnRows>>
  BY <1>2, <1>3, StillKeeps DEF RestOK, room
<1> QED BY <1>1, <1>2, <1>3, UnaskedKeeps

\* A drag begins at a row that is drawn: its row is dimmed, and nothing else of the pane moves.
LEMMA BeginDragKeeps ==
    ASSUME TreeHolds, BeginDrag
    PROVE  TreeHolds'
<1>1. PICK p \in drawn.rows :
         /\ holding' = [path |-> p, into |-> Parent(p), pointer |-> TRUE]
         /\ drawn' = [drawn EXCEPT !.held = @ \cup {p}]
  BY DEF BeginDrag
<1>2. /\ presses' = presses + 1
      /\ UNCHANGED <<listing, local, draft, draftRow, drafts, creating, asking, deleting, moving,
                     pinned, drawnRows, moves>>
  BY DEF BeginDrag, Press, room
<1>3. p \in EntryPaths /\ holding' \in Holds /\ holding'.pointer
  <2>1. p \in EntryPaths
    BY DrawnRows
  <2> QED BY <1>1, <2>1, TreeAssumption DEF Holds
<1>4. drawnRows # Stale
  <2>1. ASSUME listing = {}, local = {} PROVE Rows(View) = {}
    <3>1. AboveOf({}) = {}
      BY DEF AboveOf
    <3> QED BY <2>1, <3>1, ViewFields DEF Rows
  <2> QED BY <1>1, <2>1 DEF TreeHolds, Keyed, Shown
<1>5. /\ PaneOK' /\ drawn'.rows = drawn.rows /\ drawn'.asking = drawn.asking
      /\ drawn'.goes = drawn.goes /\ drawn'.struck = drawn.struck /\ drawn'.home = drawn.home
      /\ drawn'.open = drawn.open
  BY <1>1 DEF TreeHolds, PaneOK
<1>6. /\ Rows(View') = Rows(View) /\ Goes(View') = Goes(View) /\ Struck(View') = Struck(View)
      /\ Home(View') = Home(View) /\ DraftKey(View') = DraftKey(View)
  BY <1>2, ViewFields, ViewFieldsNext, Congruent
<1>7. Shown(View)'
  BY <1>2, <1>3, <1>5, <1>6, ViewFields, ViewFieldsNext DEF TreeHolds, Shown
<1>8. Keyed'
  BY <1>2, <1>3, <1>4, <1>6 DEF TreeHolds, Keyed
<1>9. TreeTypeOK'
  BY <1>2, <1>3 DEF TreeHolds, TreeTypeOK
<1> QED BY <1>5, <1>7, <1>8, <1>9 DEF TreeHolds

LEMMA PickUpKeeps ==
    ASSUME TreeHolds, PickUp
    PROVE  TreeHolds'
<1>1. PICK p \in drawn.rows \cap Files :
         Shows([View EXCEPT !.asking = Nowhere,
                            !.hold = [path |-> p, into |-> Parent(p), pointer |-> FALSE]])
  BY DEF PickUp
<1>2. holding = NoHold /\ presses' = presses + 1
      /\ UNCHANGED <<drafts, creating, deleting, moving, moves>>
  BY DEF PickUp, Press
<1> DEFINE h == [path |-> p, into |-> Parent(p), pointer |-> FALSE]
           v == [View EXCEPT !.asking = Nowhere, !.hold = h]
<1>3. h \in Holds /\ ~holding.pointer /\ RestOK
  <2>1. h \in Holds
    BY TreeAssumption DEF Holds, EntryPaths
  <2>2. RestOK
    BY <1>2 DEF RestOK, TreeHolds, TreeTypeOK
  <2> QED BY <1>2, <2>1, <2>2 DEF NoHold
<1> HIDE DEF h
<1>4. /\ v.listing = listing /\ v.local = local /\ v.draft = draft /\ v.row = draftRow
      /\ v.asking = Nowhere /\ v.hold = h /\ v.pinned = pinned /\ v.key = drawnRows
  BY DEF View
<1>5. Shows(v)
  BY <1>1 DEF h
<1> HIDE DEF v
<1> QED BY <1>3, <1>4, <1>5, AsksOrHolds

\* The choice of a folder walks those that are drawn, and the top level.
LEMMA StepMoveKeeps ==
    ASSUME TreeHolds, StepMove
    PROVE  TreeHolds'
<1>1. PICK into \in {<<>>} \cup FoldersOf(View) : Shows([View EXCEPT !.hold.into = into])
  BY DEF StepMove
<1>2. ~holding.pointer /\ presses' = presses + 1
      /\ UNCHANGED <<drafts, creating, deleting, moving, moves>>
  BY DEF StepMove, Press
<1> DEFINE h == [holding EXCEPT !.into = into]
           v == [View EXCEPT !.hold.into = into]
<1>3. h \in Holds /\ RestOK
  <2>1. into \in Folders \cup {<<>>}
    BY <1>1, ViewFields DEF FoldersOf, AboveOf, TreeHolds, TreeTypeOK
  <2>2. h \in Holds
    BY <2>1 DEF Holds, TreeHolds, TreeTypeOK
  <2>3. RestOK
    BY <1>2 DEF RestOK, TreeHolds, TreeTypeOK
  <2> QED BY <2>2, <2>3
<1>4. /\ v.listing = listing /\ v.local = local /\ v.draft = draft /\ v.row = draftRow
      /\ v.asking = asking /\ v.hold = h /\ v.pinned = pinned /\ v.key = drawnRows
  BY DEF View
<1>5. Shows(v) /\ asking \in EntryPaths \cup {Nowhere}
  BY <1>1 DEF TreeHolds, TreeTypeOK
<1> HIDE DEF v, h
<1> QED BY <1>2, <1>3, <1>4, <1>5, AsksOrHolds

\* The hold is let go of.
LEMMA LetGoIs ==
    LET v == [View EXCEPT !.hold = NoHold] IN
    /\ v.listing = listing /\ v.local = local /\ v.draft = draft /\ v.row = draftRow
    /\ v.asking = asking /\ v.hold = NoHold /\ v.pinned = pinned /\ v.key = drawnRows
    /\ Whole(v)
BY DEF View, Whole

LEMMA LeaveMoveKeeps ==
    ASSUME TreeHolds, Shows([View EXCEPT !.hold = NoHold]), RestOK
    PROVE  TreeHolds'
<1> DEFINE v == [View EXCEPT !.hold = NoHold]
<1>1. /\ v.listing = listing /\ v.local = local /\ v.draft = draft /\ v.row = draftRow
      /\ v.asking = asking /\ v.hold = NoHold /\ v.pinned = pinned /\ v.key = drawnRows
  BY LetGoIs
<1>2. Shows(v) /\ asking \in EntryPaths \cup {Nowhere}
  BY DEF TreeHolds, TreeTypeOK
<1> HIDE DEF v
<1> QED BY <1>1, <1>2, NoHoldIs, AsksOrHolds

\* A row is dropped where it may land.
LEMMA MoveIs ==
    ASSUME TreeHolds, NEW into \in Folders \cup {<<>>, Nowhere}, Lands(View, into)
    PROVE  [path |-> holding.path, into |-> into] \in [path : EntryPaths, into : Folders \cup {<<>>}]
<1>1. holding.path # Nowhere /\ into # Nowhere
  BY ViewFields DEF Lands
<1>2. holding.path \in EntryPaths
  BY <1>1 DEF TreeHolds, TreeTypeOK, Holds
<1> QED BY <1>1, <1>2

LEMMA DropHeldKeeps ==
    ASSUME TreeHolds, DropHeld
    PROVE  TreeHolds'
<1>1. /\ Lands(View, holding.into) /\ presses' = presses + 1
      /\ moving' = moving \cup {[path |-> holding.path, into |-> holding.into]}
      /\ UNCHANGED <<room, draft, draftRow, drafts, creating, asking, deleting, holding, pinned, drawn,
                     drawnRows, moves>>
  BY DEF DropHeld, Press
<1>2. holding.into \in Folders \cup {<<>>, Nowhere}
  BY DEF TreeHolds, TreeTypeOK, Holds
<1>3. [path |-> holding.path, into |-> holding.into] \in [path : EntryPaths, into : Folders \cup {<<>>}]
  BY <1>1, <1>2, MoveIs
<1>4. RestOK
  BY <1>1, <1>3 DEF RestOK, TreeHolds, TreeTypeOK
<1> QED BY <1>1, <1>4, StillKeeps DEF RestOK, room

LEMMA DragEndsKeeps ==
    ASSUME TreeHolds, DragEnds
    PROVE  TreeHolds'
<1>1. /\ Shows(Released(View)) /\ UNCHANGED <<drafts, creating, deleting, presses, moves>>
      /\ \/ UNCHANGED moving
         \/ \E into \in {<<>>} \cup (drawn.rows \cap Folders) :
               /\ Lands(View, into)
               /\ moving' = moving \cup {[path |-> holding.path, into |-> into]}
  BY DEF DragEnds
<1>2. moving' \subseteq [path : EntryPaths, into : Folders \cup {<<>>}]
  <2>1. CASE UNCHANGED moving
    BY <2>1 DEF TreeHolds, TreeTypeOK
  <2>2. ASSUME NEW into \in {<<>>} \cup (drawn.rows \cap Folders), Lands(View, into),
               moving' = moving \cup {[path |-> holding.path, into |-> into]}
        PROVE  moving' \subseteq [path : EntryPaths, into : Folders \cup {<<>>}]
    <3>1. [path |-> holding.path, into |-> into] \in [path : EntryPaths, into : Folders \cup {<<>>}]
      BY <2>2, MoveIs
    <3> QED BY <2>2, <3>1 DEF TreeHolds, TreeTypeOK
  <2> QED BY <1>1, <2>1, <2>2
<1>3. RestOK
  BY <1>1, <1>2 DEF RestOK, TreeHolds, TreeTypeOK
<1> DEFINE v == Released(View)
<1>4. /\ v.listing = listing /\ v.local = local /\ v.draft = draft /\ v.row = draftRow
      /\ v.asking = asking /\ v.hold = NoHold /\ v.pinned = pinned /\ v.key = Stale
  BY DEF View, Released
<1> HIDE DEF v
<1>5. ViewOK(v)
  BY <1>4, NoHoldIs DEF TreeHolds, TreeTypeOK, ViewOK
<1>6. Left(v)
  BY <1>1, <1>4, <1>5, ShowsKeeps DEF v
<1> QED BY <1>3, <1>5, <1>6, LeftHolds DEF RestOK

LEMMA MoveAnsweredKeeps ==
    ASSUME TreeHolds, MoveAnswered
    PROVE  TreeHolds'
<1> DEFINE v == [View EXCEPT !.hold = NoHold]
<1>1. PICK m \in moving :
          /\ moving' = moving \ {m}
          /\ Shows(v) \/ Shows(IF m.into = <<>> THEN v ELSE OpenFolder(v, m.into))
  BY DEF MoveAnswered
<1>2. UNCHANGED <<drafts, creating, deleting, presses, moves>>
  BY DEF MoveAnswered
<1>3. RestOK /\ m.into \in Folders \cup {<<>>}
  BY <1>1, <1>2 DEF RestOK, TreeHolds, TreeTypeOK
<1>4. CASE Shows(v)
  BY <1>3, <1>4, LeaveMoveKeeps
<1>5. CASE m.into # <<>> /\ Shows(OpenFolder(v, m.into))
  <2> DEFINE opened == OpenFolder(v, m.into)
  <2>1. /\ v.listing = listing /\ v.local = local /\ v.draft = draft /\ v.row = draftRow
        /\ v.asking = asking /\ v.hold = NoHold /\ v.pinned = pinned /\ v.key = drawnRows
        /\ Whole(v)
    BY LetGoIs
  <2> HIDE DEF v
  <2>2. /\ opened.listing = v.listing /\ opened.local = v.local /\ opened.draft = v.draft
        /\ opened.row = v.row /\ opened.asking = v.asking /\ opened.hold = v.hold
        /\ opened.pinned = v.pinned \cup {m.into} /\ opened.key = Stale
    BY <2>1 DEF OpenFolder, Whole
  <2>3. Shows(opened)
    BY <1>5
  <2> HIDE DEF opened
  <2>4. ViewOK(opened)
    BY <1>3, <1>5, <2>1, <2>2, NoHoldIs DEF TreeHolds, TreeTypeOK, ViewOK
  <2>5. Left(opened)
    BY <2>1, <2>2, <2>3, <2>4, ShowsKeeps
  <2> QED BY <1>3, <2>4, <2>5, LeftHolds DEF RestOK
<1> QED BY <1>1, <1>4, <1>5

-----------------------------------------------------------------------------
(* The invariant, and what follows.                                        *)

LEMMA TreeStarts ==
    ASSUME TreeInit
    PROVE  TreeHolds
<1> DEFINE v == [listing |-> listing, local |-> {}, draft |-> NoDraft, row |-> 0, asking |-> Nowhere,
                 hold |-> NoHold, pinned |-> {}, key |-> Stale]
<1>1. /\ listing \in Listings /\ local = {} /\ draft = NoDraft /\ draftRow = 0 /\ drafts = 0
      /\ creating = {} /\ asking = Nowhere /\ deleting = Nowhere /\ holding = NoHold /\ moving = {}
      /\ pinned = {} /\ presses = 0 /\ moves = 0 /\ drawnRows = Key(v) /\ drawn = Drawing(v)
  BY DEF TreeInit
<1>2. NoDraft \in Drafts /\ NoHold \in Holds
  BY DEF NoDraft, Drafts, NoHold, Holds
<1>3. TreeTypeOK
  BY <1>1, <1>2, TreeAssumption DEF TreeTypeOK
<1>4. /\ v.listing = listing /\ v.local = {} /\ v.draft = NoDraft /\ v.asking = Nowhere
      /\ v.hold = NoHold /\ v.pinned = {}
  OBVIOUS
<1> HIDE DEF v
<1>5. /\ Rows(View) = Rows(v) /\ Goes(View) = Goes(v) /\ Struck(View) = Struck(v)
      /\ DraftKey(View) = DraftKey(v)
  BY <1>1, <1>4, ViewFields, Congruent
<1>6. PaneOK
  BY <1>1 DEF PaneOK, Drawing
<1>7. Shown(View)
  <2>1. /\ Drawing(v).rows = Rows(v) /\ Drawing(v).asking = v.asking
        /\ Drawing(v).goes = Goes(v) /\ Drawing(v).struck = Struck(v)
        /\ Drawing(v).home = IF v.draft = NoDraft THEN Nowhere ELSE Home(v)
    BY DEF Drawing
  <2> QED BY <1>1, <1>4, <1>5, <2>1, ViewFields DEF Shown
<1>8. Keyed
  <2>1. /\ Key(v).rows = v.listing /\ Key(v).local = v.local /\ Key(v).asking = v.asking
        /\ Key(v).draft = DraftKey(v)
        /\ ~v.hold.pointer => Key(v).moving = <<v.hold.path, v.hold.into>>
    BY DEF Key, DraftKey
  <2>2. Key(v) # Stale
    <3>1. Nowhere \notin v.listing
      BY <1>1, <1>4, TreeAssumption DEF EntryPaths
    <3>2. Stale.rows = {Nowhere}
      BY DEF Stale
    <3> QED BY <2>1, <3>1, <3>2
  <2> QED BY <1>1, <1>4, <1>5, <2>1, <2>2 DEF Keyed
<1> QED BY <1>3, <1>6, <1>7, <1>8 DEF TreeHolds

\* Every step keeps the invariant, and gives an answer to the row that asked for it only.
Answered == \A c \in creating : c \notin creating' /\ draft' # draft => draft.id = c.id

LEMMA TreeStep ==
    ASSUME TreeHolds, [TreeNext]_treeVars
    PROVE  TreeHolds' /\ Answered
<1>1. CASE CreateAnswered
  BY <1>1, CreateAnsweredKeeps DEF Answered
<1>2. CASE Commit
  <2>1. creating \subseteq creating'
    BY <1>2 DEF Commit
  <2> QED BY <1>2, <2>1, CommitKeeps DEF Answered
<1>3. ASSUME UNCHANGED creating, TreeHolds' PROVE TreeHolds' /\ Answered
  BY <1>3 DEF Answered
<1>4. CASE RoomMoves
  BY <1>3, <1>4, RoomMovesKeeps DEF RoomMoves
<1>5. CASE Reset
  BY <1>3, <1>5, ResetKeeps DEF Reset
<1>6. CASE Toggle
  BY <1>3, <1>6, ToggleKeeps DEF Toggle
<1>7. CASE BeginCreate
  BY <1>3, <1>7, BeginCreateKeeps DEF BeginCreate
<1>8. CASE CancelCreate
  BY <1>3, <1>8, CancelCreateKeeps DEF CancelCreate
<1>9. CASE TypeName
  BY <1>3, <1>9, TypeNameKeeps DEF TypeName
<1>10. CASE BeginDelete
  BY <1>3, <1>10, BeginDeleteKeeps DEF BeginDelete
<1>11. CASE CancelDelete
  BY <1>3, <1>11, CancelDeleteKeeps DEF CancelDelete
<1>12. CASE ConfirmDelete
  BY <1>3, <1>12, ConfirmDeleteKeeps DEF ConfirmDelete
<1>13. CASE DeleteAnswered
  BY <1>3, <1>13, DeleteAnsweredKeeps DEF DeleteAnswered
<1>14. CASE BeginDrag
  BY <1>3, <1>14, BeginDragKeeps DEF BeginDrag
<1>15. CASE PickUp
  BY <1>3, <1>15, PickUpKeeps DEF PickUp
<1>16. CASE StepMove
  BY <1>3, <1>16, StepMoveKeeps DEF StepMove
<1>17. CASE LeaveMove
  <2>1. Shows([View EXCEPT !.hold = NoHold]) /\ presses' = presses + 1
        /\ UNCHANGED <<drafts, creating, deleting, moving, moves>>
    BY <1>17 DEF LeaveMove, Press
  <2>2. RestOK
    BY <2>1 DEF RestOK, TreeHolds, TreeTypeOK
  <2> QED BY <1>3, <2>1, <2>2, LeaveMoveKeeps
<1>18. CASE DropHeld
  BY <1>3, <1>18, DropHeldKeeps DEF DropHeld
<1>19. CASE DragEnds
  BY <1>3, <1>19, DragEndsKeeps DEF DragEnds
<1>20. CASE MoveAnswered
  BY <1>3, <1>20, MoveAnsweredKeeps DEF MoveAnswered
<1>21. CASE UNCHANGED treeVars
  <2>1. UNCHANGED <<listing, local, draft, draftRow, asking, holding, pinned, drawn, drawnRows>>
        /\ UNCHANGED <<drafts, presses, moves, creating, deleting, moving>>
    BY <1>21 DEF treeVars
  <2>2. RestOK
    BY <2>1 DEF RestOK, TreeHolds, TreeTypeOK
  <2> QED BY <1>3, <2>1, <2>2, StillKeeps DEF RestOK
<1> QED BY <1>1, <1>2, <1>4, <1>5, <1>6, <1>7, <1>8, <1>9, <1>10, <1>11, <1>12, <1>13, <1>14, <1>15,
           <1>16, <1>17, <1>18, <1>19, <1>20, <1>21 DEF TreeNext

LEMMA TreeInvariant == TreeSpec => []TreeHolds /\ [][Answered]_treeVars
<1>1. TreeHolds /\ [TreeNext]_treeVars => TreeHolds' /\ Answered
  BY TreeStep
<1> QED BY <1>1, TreeStarts, PTL DEF TreeSpec

\* The rows, the drafts and the holds of the tree keep their types (tree-view.ts).
THEOREM TreeTypes == TreeSpec => []TreeTypeOK
<1>1. TreeHolds => TreeTypeOK
  BY DEF TreeHolds
<1> QED BY <1>1, TreeInvariant, PTL

\* For every tree and every listing: the pane shows what the view holds after every handler,
\* whether it rebuilt the rows or not, and a create's answer is given to the row that asked
\* for it (tree-view.ts render, rowsKey, openFolder and commit).
THEOREM TreeRowsAreKept == TreeSpec => RowsAreKept
<1>1. TreeHolds => RowsAreDrawn
  <2> SUFFICES ASSUME TreeHolds PROVE RowsAreDrawn
    OBVIOUS
  <2>1. /\ Drawing(View).rows = Rows(View) /\ Drawing(View).asking = View.asking
        /\ Drawing(View).goes = Goes(View) /\ Drawing(View).struck = Struck(View)
        /\ Drawing(View).home = IF View.draft = NoDraft THEN Nowhere ELSE Home(View)
        /\ Drawing(View).held = {View.hold.path} \ {Nowhere}
        /\ Drawing(View).landing = Landing(View)
    BY DEF Drawing
  <2>2. \A field \in {"rows", "asking", "goes", "struck", "home"} : drawn[field] = Drawing(View)[field]
    BY <2>1 DEF TreeHolds, Shown
  <2>3. holding # NoHold /\ ~holding.pointer
          => drawn.held = Drawing(View).held /\ drawn.landing = Drawing(View).landing
    BY <2>1, ViewFields DEF TreeHolds, Shown
  <2>4. pinned \cap drawn.rows \subseteq drawn.open
    BY ViewFields DEF TreeHolds, Shown
  <2> QED BY <2>2, <2>3, <2>4 DEF RowsAreDrawn
<1> QED BY <1>1, TreeInvariant, PTL DEF RowsAreKept, RowsAnswerForThemselves, Answered

-----------------------------------------------------------------------------
(* What is in front of the editor (Opening).                               *)

\* An opening that waits, and all a binding holds.
Showing == [path : Paths, by : {"open", "go", "follow"}, peer : Peers \cup {None},
            caret : Carets \cup {"none"}, pc : {"open", "text"}, mine : BOOLEAN, lands : BOOLEAN]

Binding ==
    [path : Paths \cup {None}, fronted : SUBSET Paths, models : SUBSET Paths, held : SUBSET Paths,
     has : SUBSET Paths, dropped : SUBSET Paths, following : Peers \cup {None},
     followingPath : Paths \cup {None}, pendingGoTo : Peers \cup {None}, shows : SUBSET Showing,
     role : {"guest", "viewer"}, readOnly : BOOLEAN, terminal : BOOLEAN, disposed : BOOLEAN,
     last : Paths \cup {None}, shown : BOOLEAN, caret : Peers \cup {None}, ended : BOOLEAN]

OpeningTypeOK ==
    /\ ed \in Binding
    /\ presence \in [Peers -> Where]
    /\ keys \in Nat

\* What is shown is what was asked for last, and so is what an opening of its own will show.
Asked(d) ==
    /\ d.shown /\ d.path # None => d.path = d.last
    /\ \A r \in d.shows : r.mine => r.path = d.last

\* The editor takes text where the room would.
Locked(d) == ~d.disposed => d.readOnly = ReadOnly(d)

OpeningInv == OpeningTypeOK /\ Asked(ed) /\ Locked(ed)

\* What every handler keeps, and whose caret it may place.
Keeps(d, e) ==
    /\ e \in Binding /\ Asked(e) /\ Locked(e)
    /\ e.caret \in {d.caret, d.following, d.pendingGoTo}

LEMMA EditabilityIs ==
    ASSUME NEW d \in Binding
    PROVE  /\ Editability(d) \in Binding
           /\ Locked(Editability(d))
           /\ Asked(d) => Asked(Editability(d))
           /\ Editability(d).caret = d.caret
           /\ Editability(d).following = d.following
           /\ Editability(d).pendingGoTo = d.pendingGoTo
           /\ Editability(d).path = d.path
           /\ Editability(d).has = d.has
<1>1. ReadOnly(d) \in BOOLEAN
  BY DEF ReadOnly, Binding
<1>2. Editability(d) \in Binding
  BY <1>1 DEF Editability, Binding
<1>3. ReadOnly(Editability(d)) = ReadOnly(d)
  BY DEF Editability, ReadOnly, Binding
<1>4. Editability(d).readOnly = ReadOnly(d)
  BY DEF Editability, Binding
<1> QED
  BY <1>2, <1>3, <1>4 DEF Editability, Locked, Asked, Binding

LEMMA ClearFollowIs ==
    ASSUME NEW d \in Binding
    PROVE  /\ ClearFollow(d) \in Binding
           /\ ClearFollow(d).caret = d.caret
           /\ ClearFollow(d).pendingGoTo = d.pendingGoTo
           /\ ClearFollow(d).path = d.path
           /\ ClearFollow(d).fronted = d.fronted
           /\ ClearFollow(d).disposed = d.disposed
           /\ Asked(d) => Asked(ClearFollow(d))
           /\ Locked(d) => Locked(ClearFollow(d))
BY ZenonT(30) DEF ClearFollow, Binding, Asked, Locked, ReadOnly

LEMMA ArrivedIs ==
    ASSUME NEW d \in Binding, NEW r \in Showing
    PROVE  /\ Arrived(d, r) \in Binding
           /\ Arrived(d, r).caret = d.caret
           /\ Asked(d) => Asked(Arrived(d, r))
           /\ Locked(d) => Locked(Arrived(d, r))
BY DEF Arrived, Binding, Asked, Locked, ReadOnly

LEMMA LandedKeeps ==
    ASSUME NEW d \in Binding, NEW r \in Showing, Asked(d), Locked(d)
    PROVE  Keeps(d, Landed(d, r))
<1>1. CASE r.by = "open" \/ ~Owned(d, r)
  BY <1>1 DEF Landed, Keeps
<1>2. CASE ~(r.by = "open" \/ ~Owned(d, r))
  <2> DEFINE e == IF r.by = "follow" THEN [d EXCEPT !.followingPath = r.path] ELSE d
             f == [e EXCEPT !.caret = r.peer]
  <2>1. e \in Binding /\ Asked(e) /\ Locked(e) /\ e.caret = d.caret /\ e.has = d.has
    BY DEF Binding, Showing, Asked, Locked, ReadOnly
  <2>2. f \in Binding /\ Asked(f) /\ Locked(f) /\ f.caret = r.peer
    BY <2>1 DEF Binding, Showing, Asked, Locked, ReadOnly
  <2>3. r.peer \in {d.following, d.pendingGoTo}
    BY <1>2 DEF Owned
  <2>4. Landed(d, r) \in {e, Arrived(e, r), Arrived(f, r)}
    BY <1>2 DEF Landed
  <2> HIDE DEF e, f
  <2> QED
    BY <2>1, <2>2, <2>3, <2>4, ArrivedIs DEF Keeps
<1> QED
  BY <1>1, <1>2

LEMMA FrontsKeeps ==
    ASSUME NEW d \in Binding, NEW r \in Showing, r.path = d.last,
           \A s \in d.shows : s.mine => s.path = d.last
    PROVE  Keeps(d, Fronts(d, r))
<1> DEFINE e == [d EXCEPT !.path = r.path, !.fronted = @ \cup {r.path},
                          !.models = @ \cup {r.path}, !.shown = @ \/ r.mine]
<1>1. e \in Binding
  BY ZenonT(30) DEF Binding, Showing
<1>2. Asked(e) /\ e.caret = d.caret /\ e.following = d.following
      /\ e.pendingGoTo = d.pendingGoTo
  BY DEF Binding, Showing, Asked
<1>3. Fronts(d, r) = Landed(Editability(e), r)
  BY DEF Fronts
<1> HIDE DEF e
<1> QED
  BY <1>1, <1>2, <1>3, EditabilityIs, LandedKeeps DEF Keeps

LEMMA BuildsKeeps ==
    ASSUME NEW d \in Binding, NEW r \in Showing, r.path = d.last, Asked(d), Locked(d)
    PROVE  Keeps(d, Builds(d, r))
<1>1. CASE window = "host" /\ r.path \notin d.models \cup d.has
  <2> DEFINE s == [r EXCEPT !.pc = "text"]
             e == [d EXCEPT !.shows = @ \cup {s}]
  <2>1. s \in Showing /\ s.path = d.last
    BY DEF Showing
  <2>2. Builds(d, r) = e
    BY <1>1 DEF Builds
  <2> HIDE DEF s
  <2>3. e \in Binding
    BY <2>1 DEF Binding
  <2>4. Asked(e)
    BY <2>1 DEF Binding, Asked
  <2>5. Locked(e) /\ e.caret = d.caret
    BY DEF Binding, Locked, ReadOnly
  <2> HIDE DEF e
  <2> QED
    BY <2>2, <2>3, <2>4, <2>5 DEF Keeps
<1>2. CASE ~(window = "host" /\ r.path \notin d.models \cup d.has)
  BY <1>2, FrontsKeeps DEF Builds, Asked
<1> QED
  BY <1>1, <1>2

LEMMA ShowKeeps ==
    ASSUME NEW d \in Binding, Asked(d), Locked(d), NEW path \in Paths,
           NEW by \in {"open", "go", "follow"}, NEW peer \in Peers \cup {None},
           NEW caret \in Carets \cup {"none"}
    PROVE  Keeps(d, Show(d, path, by, peer, caret))
<1>1. CASE d.disposed \/ d.terminal
  BY <1>1 DEF Show, Keeps
<1>2. CASE ~(d.disposed \/ d.terminal)
  <2> DEFINE r == [path |-> path, by |-> by, peer |-> peer, caret |-> caret,
                   pc |-> "open", mine |-> TRUE, lands |-> TRUE]
             olds == {[s EXCEPT !.mine = FALSE] : s \in d.shows}
             e == [d EXCEPT !.shows = {[s EXCEPT !.mine = FALSE] : s \in @},
                            !.last = path, !.shown = FALSE]
             f == [e EXCEPT !.held = @ \cup {path}, !.shows = @ \cup {r}]
  <2>1. r \in Showing /\ r.path = path
    BY DEF Showing
  <2>2. olds \in SUBSET Showing /\ \A s \in olds : ~s.mine
    <3>1. \A s \in Showing : /\ [s EXCEPT !.mine = FALSE] \in Showing
                             /\ ~[s EXCEPT !.mine = FALSE].mine
      BY DEF Showing
    <3>2. d.shows \in SUBSET Showing
      BY DEF Binding
    <3> QED
      BY <3>1, <3>2
  <2>3. e \in Binding /\ e.shows = olds /\ e.last = path /\ ~e.shown
    BY <2>2 DEF Binding
  <2>4. Locked(e) /\ e.caret = d.caret /\ e.following = d.following
        /\ e.pendingGoTo = d.pendingGoTo
    BY DEF Binding, Locked, ReadOnly
  <2>5. Asked(e)
    BY <2>2, <2>3 DEF Asked
  <2> HIDE DEF e, olds, r
  <2>6. f \in Binding /\ f.shows = e.shows \cup {r} /\ f.last = e.last /\ ~f.shown
    BY <2>1, <2>3, ZenonT(30) DEF Binding
  <2>7. Asked(f)
    BY <2>1, <2>3, <2>5, <2>6 DEF Asked
  <2>8. Locked(f) /\ f.caret = e.caret
    BY <2>3, <2>4 DEF Binding, Locked, ReadOnly
  <2> HIDE DEF f
  <2>9. Show(d, path, by, peer, caret) \in {Fronts(e, r), Builds(e, r), f}
    BY <1>2 DEF Show, e, f, r
  <2>10. Keeps(e, Fronts(e, r)) /\ Keeps(e, Builds(e, r)) /\ Keeps(e, f)
    BY <2>1, <2>3, <2>4, <2>5, <2>6, <2>7, <2>8, FrontsKeeps, BuildsKeeps DEF Asked, Keeps
  <2> QED
    BY <2>4, <2>9, <2>10 DEF Keeps
<1> QED
  BY <1>1, <1>2

\* Landings that are ended leave the openings as they are.
LEMMA NoLandings ==
    ASSUME NEW d \in Binding, Asked(d)
    PROVE  LET olds == {[s EXCEPT !.lands = FALSE] : s \in d.shows}
           IN  olds \in SUBSET Showing /\ \A s \in olds : s.mine => s.path = d.last
<1> DEFINE olds == {[s EXCEPT !.lands = FALSE] : s \in d.shows}
<1>1. ASSUME NEW s \in olds
      PROVE  s \in Showing /\ (s.mine => s.path = d.last)
  <2>1. PICK t \in d.shows : s = [t EXCEPT !.lands = FALSE]
    BY <1>1
  <2>2. t \in Showing /\ (t.mine => t.path = d.last)
    BY DEF Binding, Asked
  <2> QED
    BY <2>1, <2>2 DEF Showing
<1> QED
  BY <1>1

LEMMA LandOnKeeps ==
    ASSUME presence' \in [Peers -> Where], NEW d \in Binding, Asked(d), Locked(d),
           NEW peer \in Peers, NEW by \in {"go", "follow"}
    PROVE  Keeps(d, LandOn(d, peer, by))
<1> DEFINE olds == {[s EXCEPT !.lands = FALSE] : s \in d.shows}
           e == [d EXCEPT !.shows = {[s EXCEPT !.lands = FALSE] : s \in @}]
           w == presence'[peer]
<1>1. olds \in SUBSET Showing /\ \A s \in olds : s.mine => s.path = d.last
  BY NoLandings
<1>2. e \in Binding /\ e.shows = olds /\ e.last = d.last /\ e.shown = d.shown /\ e.path = d.path
  BY <1>1 DEF Binding
<1>3. Locked(e) /\ e.caret = d.caret /\ e.following = d.following
      /\ e.pendingGoTo = d.pendingGoTo
  BY DEF Binding, Locked, ReadOnly
<1> HIDE DEF olds
<1>4. Asked(e)
  BY <1>1, <1>2 DEF Asked
<1> HIDE DEF e
<1>5. CASE w = Departed
  <2> DEFINE f == [e EXCEPT !.pendingGoTo = None]
  <2>1. f \in Binding /\ Asked(f) /\ Locked(f) /\ f.caret = e.caret
    BY <1>2, <1>3, <1>4 DEF Binding, Asked, Locked, ReadOnly
  <2>2. LandOn(d, peer, by) \in {f, ClearFollow(e)}
    BY <1>5 DEF LandOn, e
  <2> HIDE DEF f
  <2> QED
    BY <1>2, <1>3, <1>4, <2>1, <2>2, ClearFollowIs DEF Keeps
<1>6. CASE w # Departed /\ w.at = None
  <2>1. LandOn(d, peer, by) = e
    BY <1>6 DEF LandOn, e
  <2> QED
    BY <2>1, <1>2, <1>3, <1>4 DEF Keeps
<1>7. CASE w # Departed /\ w.at # None
  <2>1. LandOn(d, peer, by) = Show(e, w.at, by, peer, w.caret)
    BY <1>7 DEF LandOn, e
  <2>2. w \in Where
    OBVIOUS
  <2>3. w.at \in Paths /\ w.caret \in Carets
    BY <1>7, <2>2 DEF Where, Departed, Unheard
  <2>4. Keeps(e, Show(e, w.at, by, peer, w.caret))
    BY <2>3, <1>2, <1>3, <1>4, ShowKeeps
  <2> QED
    BY <2>1, <2>4, <1>3 DEF Keeps
<1> QED
  BY <1>5, <1>6, <1>7

LEMMA TickKeeps ==
    ASSUME presence' \in [Peers -> Where], NEW d \in Binding, Asked(d), Locked(d)
    PROVE  Keeps(d, FollowTick(d)) /\ Keeps(d, RetryGoTo(d)) /\ Keeps(d, Tick(d))
<1>1. Keeps(d, d)
  BY DEF Keeps
<1>2. Keeps(d, FollowTick(d))
  BY <1>1, LandOnKeeps DEF FollowTick, Binding
<1>3. Keeps(d, RetryGoTo(d))
  BY <1>1, LandOnKeeps DEF RetryGoTo, Binding
<1> QED
  BY <1>2, <1>3 DEF Tick

LEMMA CloseDocumentIs ==
    ASSUME NEW d \in Binding, NEW p \in Paths, Asked(d), Locked(d)
    PROVE  Keeps(d, CloseDocument(d, p))
<1> DEFINE e == [d EXCEPT !.held = @ \ {p}, !.fronted = @ \ {p}, !.models = @ \ {p}]
           f == [e EXCEPT !.path = None]
<1>1. e \in Binding /\ Asked(e) /\ Locked(e) /\ e.caret = d.caret
  BY ZenonT(30) DEF Binding, Asked, Locked, ReadOnly
<1>2. f \in Binding /\ Asked(f) /\ f.caret = d.caret
  BY <1>1 DEF Binding, Asked
<1>3. CloseDocument(d, p) \in {e, Editability(f)}
  BY DEF CloseDocument, Locks
<1> HIDE DEF e, f
<1> QED
  BY <1>1, <1>2, <1>3, EditabilityIs DEF Keeps

LEMMA DropDocumentIs ==
    ASSUME NEW d \in Binding, NEW p \in Paths, Asked(d), Locked(d)
    PROVE  /\ DropDocument(d, p) \in Binding
           /\ Asked(DropDocument(d, p))
           /\ Locked(DropDocument(d, p))
<1> DEFINE e == IF d.followingPath = p THEN ClearFollow(d) ELSE d
           f == [e EXCEPT !.dropped = @ \cup {p}]
<1>1. e \in Binding /\ Asked(e) /\ Locked(e)
  BY ClearFollowIs
<1> HIDE DEF e
<1>2. f \in Binding /\ Asked(f) /\ Locked(f)
  BY <1>1 DEF Binding, Asked, Locked, ReadOnly
<1>3. DropDocument(d, p) \in {f, CloseDocument(f, p)}
  BY DEF DropDocument, e
<1> HIDE DEF f
<1> QED
  BY <1>2, <1>3, CloseDocumentIs DEF Keeps

-----------------------------------------------------------------------------
LEMMA OpeningInitKeeps == OpeningInit => OpeningInv
<1> SUFFICES ASSUME OpeningInit PROVE OpeningInv
  OBVIOUS
<1>1. ed \in Binding
  BY DEF OpeningInit, Binding
<1>2. presence \in [Peers -> Where] /\ keys \in Nat
  BY DEF OpeningInit, Where
<1>3. Asked(ed) /\ Locked(ed)
  BY DEF OpeningInit, Asked, Locked, ReadOnly
<1> QED
  BY <1>1, <1>2, <1>3 DEF OpeningInv, OpeningTypeOK

\* A step keeps the binding; a caret it places is of the one this window goes to or follows,
\* unless somebody pressed.
StepKeeps ==
    /\ ed' \in Binding /\ Asked(ed') /\ Locked(ed')
    /\ ed'.caret \in {ed.caret, ed.following, ed.pendingGoTo} \/ keys' # keys

LEMMA OpeningTypesStep ==
    ASSUME OpeningTypeOK, [OpeningNext]_openingVars
    PROVE  presence' \in [Peers -> Where] /\ keys' \in Nat
<1> USE DEF OpeningTypeOK
<1>1. CASE UNCHANGED openingVars
  BY <1>1 DEF openingVars, counts
<1>2. ASSUME NEW p \in Paths,
             OpenDocument(p) \/ ReopenMoved(p) \/ GrantChanged(p) \/ DocumentChanged(p)
      PROVE  presence' \in [Peers -> Where] /\ keys' \in Nat
  BY <1>2 DEF OpenDocument, ReopenMoved, GrantChanged, DocumentChanged, Pressed, Frame, counts
<1>3. ASSUME NEW q \in Peers, GoTo(q) \/ Follow(q)
      PROVE  presence' \in [Peers -> Where] /\ keys' \in Nat
  BY <1>3 DEF GoTo, Follow, Pressed
<1>4. ASSUME NEW q \in Peers, NEW w \in Where, PresenceChanged(q, w)
      PROVE  presence' \in [Peers -> Where] /\ keys' \in Nat
  BY <1>4 DEF PresenceChanged, Frame
<1>5. CASE StopFollowing \/ Type \/ DocumentsChanged \/ EnterTerminal \/ Dispose
  BY <1>5 DEF StopFollowing, Type, DocumentsChanged, EnterTerminal, Dispose, Pressed, Frame
<1>6. ASSUME NEW role \in {"guest", "viewer"}, RoleChanged(role)
      PROVE  presence' \in [Peers -> Where] /\ keys' \in Nat
  BY <1>6 DEF RoleChanged, Frame
<1>7. ASSUME NEW r \in ed.shows, OpeningAnswered(r) \/ Rejected(r)
      PROVE  presence' \in [Peers -> Where] /\ keys' \in Nat
  BY <1>7 DEF OpeningAnswered, Rejected, counts
<1>8. CASE Seated
  BY <1>8 DEF Seated, counts
<1> QED
  BY <1>1, <1>2, <1>3, <1>4, <1>5, <1>6, <1>7, <1>8 DEF OpeningNext, Answers

LEMMA OpeningStep ==
    ASSUME OpeningInv, [OpeningNext]_openingVars
    PROVE  StepKeeps
<1>1. /\ ed \in Binding /\ Asked(ed) /\ Locked(ed)
      /\ keys \in Nat
  BY DEF OpeningInv, OpeningTypeOK
<1>2. presence' \in [Peers -> Where] /\ keys' \in Nat
  BY OpeningTypesStep DEF OpeningInv
<1>3. ASSUME Keeps(ed, ed') PROVE StepKeeps
  BY <1>3 DEF Keeps, StepKeeps
<1>4. ASSUME NEW d \in Binding, Keeps(d, ed'), Pressed PROVE StepKeeps
  BY <1>1, <1>4 DEF Keeps, StepKeeps, Pressed
<1>5. ASSUME NEW p \in Paths, OpenDocument(p) PROVE StepKeeps
  <2> DEFINE e == [ed EXCEPT !.pendingGoTo = None]
             f == ClearFollow(e)
  <2>1. e \in Binding /\ Asked(e) /\ Locked(e)
    BY <1>1 DEF Binding, Asked, Locked, ReadOnly
  <2>2. f \in Binding /\ Asked(f) /\ Locked(f)
    BY <2>1, ClearFollowIs
  <2> HIDE DEF e
  <2>3. Pressed /\ ed' = Show(f, p, "open", None, "none")
    BY <1>5 DEF OpenDocument, e
  <2> HIDE DEF f
  <2> QED
    BY <2>2, <2>3, <1>4, ShowKeeps
<1>6. ASSUME NEW p \in Paths, ReopenMoved(p) PROVE StepKeeps
  BY <1>1, <1>3, <1>6, ShowKeeps DEF ReopenMoved
<1>7. ASSUME NEW p \in Paths, GrantChanged(p) PROVE StepKeeps
  <2>1. ed' = DropDocument(ed, p)
    BY <1>7 DEF GrantChanged
  <2>2. DropDocument(ed, p).caret = ed.caret
    <3> DEFINE e == IF ed.followingPath = p THEN ClearFollow(ed) ELSE ed
               f == [e EXCEPT !.dropped = @ \cup {p}]
               g == [f EXCEPT !.held = @ \ {p}, !.fronted = @ \ {p}, !.models = @ \ {p}]
               h == [g EXCEPT !.path = None]
    <3>1. e \in Binding /\ e.caret = ed.caret
      BY <1>1, ClearFollowIs
    <3> HIDE DEF e
    <3>2. f \in Binding /\ f.caret = e.caret
      BY <3>1 DEF Binding
    <3>3. g \in Binding /\ g.caret = e.caret /\ h \in Binding /\ h.caret = e.caret
      BY <3>1 DEF Binding
    <3>4. DropDocument(ed, p) \in {f, g, Editability(h)}
      BY DEF DropDocument, CloseDocument, Locks, e
    <3> HIDE DEF f, g, h
    <3> QED
      BY <3>1, <3>2, <3>3, <3>4, EditabilityIs
  <2> QED
    BY <1>1, <2>1, <2>2, DropDocumentIs DEF StepKeeps
<1>8. ASSUME NEW p \in Paths, DocumentChanged(p) PROVE StepKeeps
  <2> DEFINE e == [ed EXCEPT !.has = @ \cup {p}]
  <2>1. e \in Binding /\ Asked(e) /\ Locked(e) /\ e.caret = ed.caret
        /\ e.following = ed.following /\ e.pendingGoTo = ed.pendingGoTo
    BY <1>1 DEF Binding, Asked, Locked, ReadOnly
  <2>2. ed' = Tick(e)
    BY <1>8 DEF DocumentChanged
  <2> HIDE DEF e
  <2>3. Keeps(e, Tick(e))
    BY <1>2, <2>1, TickKeeps
  <2> QED
    BY <2>1, <2>2, <2>3 DEF Keeps, StepKeeps
<1>9. ASSUME NEW q \in Peers, GoTo(q) PROVE StepKeeps
  <2> DEFINE e == ClearFollow(ed)
             f == [e EXCEPT !.pendingGoTo = q]
  <2>1. e \in Binding /\ Asked(e) /\ Locked(e)
    BY <1>1, ClearFollowIs
  <2>2. Pressed /\ ed' = RetryGoTo(f)
    BY <1>9 DEF GoTo, StopsFirst
  <2> HIDE DEF e
  <2>3. f \in Binding /\ Asked(f) /\ Locked(f)
    BY <2>1 DEF Binding, Asked, Locked, ReadOnly
  <2> HIDE DEF f
  <2> QED
    BY <1>2, <1>4, <2>2, <2>3, TickKeeps
<1>10. ASSUME NEW q \in Peers, Follow(q) PROVE StepKeeps
  <2> DEFINE e == IF ed.following = q THEN ed
                  ELSE [ed EXCEPT !.following = q, !.pendingGoTo = None, !.ended = FALSE]
             f == [ed EXCEPT !.following = q, !.pendingGoTo = None, !.ended = FALSE]
  <2>1. e \in Binding /\ Asked(e) /\ Locked(e)
    <3>1. f \in Binding /\ Asked(f) /\ Locked(f)
      BY <1>1, ZenonT(30) DEF Binding, Asked, Locked, ReadOnly
    <3>2. e \in {ed, f}
      OBVIOUS
    <3> HIDE DEF e, f
    <3> QED
      BY <1>1, <3>1, <3>2
  <2>2. Pressed /\ ed' = FollowTick(e)
    BY <1>10 DEF Follow
  <2> HIDE DEF e
  <2> QED
    BY <1>2, <1>4, <2>1, <2>2, TickKeeps
<1>11. ASSUME NEW q \in Peers, NEW w \in Where, PresenceChanged(q, w) PROVE StepKeeps
  BY <1>1, <1>2, <1>3, <1>11, TickKeeps DEF PresenceChanged
<1>12. CASE StopFollowing
  BY <1>1, <1>12, ClearFollowIs DEF StopFollowing, StepKeeps
<1>13. CASE Type
  <2> DEFINE e == ClearFollow(ed)
  <2>1. e \in Binding /\ Asked(e) /\ Locked(e) /\ e.caret = ed.caret
    BY <1>1, ClearFollowIs
  <2>2. ed.path \in Paths
    BY <1>1, <1>13 DEF Type, Locked, ReadOnly, Binding
  <2>3. ed' = [e EXCEPT !.has = @ \cup {ed.path}, !.ended = @ \/ ed.following # None]
    BY <1>13 DEF Type
  <2> HIDE DEF e
  <2> QED
    BY <1>1, <2>1, <2>2, <2>3, ZenonT(30) DEF Binding, Asked, Locked, ReadOnly, StepKeeps
<1>14. CASE DocumentsChanged
  BY <1>1, <1>2, <1>3, <1>14, TickKeeps DEF DocumentsChanged
<1>15. CASE EnterTerminal
  <2> DEFINE e == ClearFollow(ed)
             olds == {[s EXCEPT !.lands = FALSE] : s \in e.shows}
             f == [e EXCEPT !.terminal = TRUE, !.pendingGoTo = None,
                            !.shows = {[s EXCEPT !.lands = FALSE] : s \in @}]
  <2>1. e \in Binding /\ Asked(e) /\ e.caret = ed.caret
    BY <1>1, ClearFollowIs
  <2>2. ed' = Editability(f)
    BY <1>15 DEF EnterTerminal
  <2> HIDE DEF e
  <2>3. olds \in SUBSET Showing /\ \A s \in olds : s.mine => s.path = e.last
    BY <2>1, NoLandings
  <2>4. f \in Binding /\ f.shows = olds /\ f.last = e.last /\ f.shown = e.shown
        /\ f.path = e.path /\ f.caret = e.caret
    BY <2>1, <2>3 DEF Binding
  <2> HIDE DEF olds
  <2>5. Asked(f)
    BY <2>1, <2>3, <2>4 DEF Asked
  <2> HIDE DEF f
  <2> QED
    BY <2>1, <2>2, <2>4, <2>5, EditabilityIs DEF StepKeeps
<1>16. CASE Dispose
  BY <1>1, <1>16 DEF Dispose, Binding, Asked, Locked, ReadOnly, StepKeeps
<1>17. ASSUME NEW role \in {"guest", "viewer"}, RoleChanged(role) PROVE StepKeeps
  <2> DEFINE e == [ed EXCEPT !.role = role]
             f == Editability(e)
  <2>1. e \in Binding /\ Asked(e) /\ e.caret = ed.caret
        /\ e.following = ed.following /\ e.pendingGoTo = ed.pendingGoTo
    BY <1>1 DEF Binding, Asked
  <2>2. ed' = Tick(f)
    BY <1>17 DEF RoleChanged
  <2> HIDE DEF e
  <2>3. f \in Binding /\ Asked(f) /\ Locked(f) /\ f.caret = ed.caret
        /\ f.following = ed.following /\ f.pendingGoTo = ed.pendingGoTo
    BY <2>1, EditabilityIs
  <2> HIDE DEF f
  <2>4. Keeps(f, Tick(f))
    BY <1>2, <2>3, TickKeeps
  <2> QED
    BY <2>2, <2>3, <2>4 DEF Keeps, StepKeeps
<1>18. ASSUME NEW r \in ed.shows, OpeningAnswered(r) PROVE StepKeeps
  <2> DEFINE d == [ed EXCEPT !.shows = @ \ {r}]
  <2>1. d \in Binding /\ Asked(d) /\ Locked(d) /\ d.caret = ed.caret /\ d.last = ed.last
        /\ d.following = ed.following /\ d.pendingGoTo = ed.pendingGoTo
    BY <1>1 DEF Binding, Asked, Locked, ReadOnly
  <2>2. r \in Showing /\ (r.mine => r.path = ed.last)
    BY <1>1 DEF Binding, Asked
  <2>3. \/ ed' = d
        \/ r.mine /\ ed' \in {Builds(d, r), Fronts(d, r)}
    BY <1>18 DEF OpeningAnswered, IsCurrent
  <2> HIDE DEF d
  <2>4. Keeps(d, ed')
    BY <2>1, <2>2, <2>3, BuildsKeeps, FrontsKeeps DEF Keeps, Asked
  <2> QED
    BY <2>1, <2>4 DEF Keeps, StepKeeps
<1>19. ASSUME NEW r \in ed.shows, Rejected(r) PROVE StepKeeps
  BY <1>1, <1>19 DEF Rejected, Binding, Asked, Locked, ReadOnly, StepKeeps
<1>20. CASE Seated
  <2>1. Keeps(ed, ed)
    BY <1>1 DEF Keeps
  <2> QED
    BY <1>1, <1>2, <1>3, <1>20, <2>1, TickKeeps DEF Seated
<1>21. CASE UNCHANGED openingVars
  BY <1>1, <1>21 DEF openingVars, StepKeeps
<1> QED
  BY <1>5, <1>6, <1>7, <1>8, <1>9, <1>10, <1>11, <1>12, <1>13, <1>14, <1>15, <1>16, <1>17,
     <1>18, <1>19, <1>20, <1>21 DEF OpeningNext, Answers

\* What is in front of the editor is what was asked for last, it takes text exactly where the
\* room would, and a caret is placed only for the participant this window goes to or follows
\* (editor.ts, showDocument, applyEditability, landOn).
THEOREM OpeningAskedIsInFront == OpeningSpec => AskedIsInFront
<1>1. OpeningInit => OpeningInv
  BY OpeningInitKeeps
<1>2. OpeningInv /\ [OpeningNext]_openingVars => OpeningInv'
  <2> SUFFICES ASSUME OpeningInv, [OpeningNext]_openingVars PROVE OpeningInv'
    OBVIOUS
  <2>1. OpeningTypeOK
    BY DEF OpeningInv
  <2> QED
    BY <2>1, OpeningStep, OpeningTypesStep
       DEF OpeningInv, OpeningTypeOK, StepKeeps, Asked, Locked, ReadOnly
<1>3. OpeningInv => /\ ed.shown /\ ed.path # None => ed.path = ed.last
                    /\ ~ed.disposed => ed.readOnly = ReadOnly(ed)
  BY DEF OpeningInv, Asked, Locked
<1>4. OpeningInv /\ [OpeningNext]_openingVars
        => [ed'.caret # ed.caret => ed'.caret \in {ed.following, ed.pendingGoTo}
                                    \/ keys' # keys]_openingVars
  BY OpeningStep DEF StepKeeps
<1> QED
  BY <1>1, <1>2, <1>3, <1>4, PTL DEF OpeningSpec, AskedIsInFront, CaretOfTheOneAsked
=============================================================================
