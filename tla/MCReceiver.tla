----------------------------- MODULE MCReceiver -----------------------------
(***************************************************************************)
(* What a peer makes of the frames of a room (Receiver), and what it shows *)
(* of another's holds and caret (Presence).  One run explores each in its  *)
(* turn: side says which, and the other one rests.                         *)
(***************************************************************************)
EXTENDS Receiver, Presence, TLC

\* Key 0 is the host key, 1 its session's; 2 is another peer's, 3 a key no state names.
MCKeys == {1, 2, 3}
MCIdOf == (0 :> "h") @@ (1 :> "a") @@ (2 :> "b") @@ (3 :> "c")
MCSeatOf == (1 :> "s1") @@ (2 :> "s2") @@ (3 :> "s2")
MCUsable == {"p"}
MCSeats == {"s1", "s2"}

Frame(kind, signer, counter, load) ==
    [whole |-> TRUE, kind |-> kind, epoch |-> 0, id |-> MCIdOf[signer], counter |-> counter,
     signer |-> signer, sealed |-> TRUE, load |-> load]

Entry(seat, role) == [seat |-> seat, role |-> role]
StateFrame(n, peers) ==
    Frame(1, 0, 0, [is |-> "state", issued |-> n, peers |-> peers, listing |-> {"p", "bad"}])
ClosingFrame(n) == Frame(2, 0, 0, [is |-> "closing", issued |-> n])

HostEntry == 1 :> Entry("s1", "host")

Content(counter) == Frame(0, 2, counter, [is |-> "content"])

MCWire == <<
      StateFrame(1, HostEntry @@ (2 :> Entry("s2", "guest"))),
      StateFrame(2, HostEntry),
      StateFrame(3, HostEntry @@ (2 :> Entry("s2", "viewer"))),
      ClosingFrame(2),
      Content(1),
      Frame(3, 2, 2, [is |-> "holds", paths |-> {"p", "bad"}]),
      Frame(0, 2, 3, [is |-> "request"]),
      Frame(4, 2, 4, [is |-> "announcement", key |-> 2]),
      \* refused whatever came before
      [Content(5) EXCEPT !.whole = FALSE], [Content(5) EXCEPT !.kind = 5],
      [Content(5) EXCEPT !.epoch = 1], [Content(5) EXCEPT !.signer = 3],
      [Content(5) EXCEPT !.sealed = FALSE], [Content(5) EXCEPT !.kind = 3],
      [Frame(4, 2, 5, [is |-> "announcement", key |-> 2]) EXCEPT !.signer = 3],
      Frame(4, 2, 5, [is |-> "announcement", key |-> 3]) >>

VARIABLE side

allVars == <<side, vars, presenceVars>>

Receives(A) == side = "receiver" /\ A /\ UNCHANGED <<side, presenceVars>>
Shows(A)    == side = "presence" /\ A /\ UNCHANGED <<side, vars>>

SidesInit ==
    /\ side \in {"receiver", "presence"} /\ Init /\ PresenceInit
    /\ watchAge = 0     \* bound: the two tick at the same moments, in either order
SidesNext == Receives(Next) \/ Shows(PresenceNext)

\* The fairness of Presence, while it is the one that runs.
SidesFairness ==
    /\ WF_allVars(Shows(Job)) /\ WF_allVars(Shows(PresenceTick))
    /\ WF_allVars(Shows(HearState)) /\ WF_allVars(Shows(ReseatEnds))
    /\ WF_allVars(Shows(HostCommits)) /\ WF_allVars(Shows(Hear))
    /\ WF_allVars(Shows(WatchTick)) /\ WF_allVars(Shows(ClockRuns))

SidesSpec == SidesInit /\ [][SidesNext]_allVars /\ SidesFairness
=============================================================================
