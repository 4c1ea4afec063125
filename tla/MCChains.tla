------------------------------ MODULE MCChains ------------------------------
(***************************************************************************)
(* The chains of promises of a session: the serial queue of Peer, the line *)
(* of renames of Rename, and the fetches of Fetch, each waiting out its    *)
(* stand.  They share no more than the end of the session, which each has  *)
(* as an action of its own, so one run explores each in its turn: side     *)
(* says which, and the others rest.                                        *)
(***************************************************************************)
EXTENDS Peer, Rename, Fetch

CONSTANTS e1, c1, c2

VARIABLE side

allVars == <<side, vars, renameVars, fetchVars>>

OnQueue(A) == side = "queue" /\ A /\ UNCHANGED <<side, renameVars, fetchVars>>
OnLine(A)  == side = "line" /\ A /\ UNCHANGED <<side, vars, fetchVars>>
OnRow(A)   == side = "row" /\ A /\ UNCHANGED <<side, vars, renameVars>>

ChainsInit == side \in {"queue", "line", "row"} /\ Init /\ RenameInit /\ FetchInit
ChainsNext == OnQueue(Next) \/ OnLine(RenameNext) \/ OnRow(FetchNext)

\* The fairness of each, while it is the one that runs.
ChainsFairness ==
    /\ WF_allVars(OnQueue(Step)) /\ SF_allVars(OnQueue(EditsTurn))
    /\ SF_allVars(OnQueue(NoteStep1Failure))
    /\ SF_allVars(OnQueue(Tick)) /\ WF_allVars(OnQueue(Advance))
    /\ WF_allVars(OnLine(TurnPasses)) /\ WF_allVars(OnLine(TurnComes))
    /\ WF_allVars(OnLine(Timeout))
    /\ WF_allVars(OnLine(ProcessReply)) /\ WF_allVars(OnLine(ProcessFault))
    /\ WF_allVars(OnRow(Fetches))

ChainsSpec == ChainsInit /\ [][ChainsNext]_allVars /\ ChainsFairness

\* No chain stops: an edit held back goes out, every call of rename comes to an answer, and a
\* row that waits for a download stops waiting (peer.ts serial and apply, relay.ts rename,
\* fetch-download.ts fetchAndSave).
EveryChainMovesOn == HeldEditsGoOut /\ EveryCallIsAnswered /\ WaitsEnd
=============================================================================
