------------------------------ MODULE MCRelay ------------------------------
(***************************************************************************)
(* A guest's connection over its drops (Relay), with its people as model   *)
(* values; the count of frames a host keeps over its absences              *)
(* (FrameBudget): three processes of it, a renewal of two units and the    *)
(* least charge that is enough; and what the guest's page makes of what it *)
(* is told: of an absence (Absence), in a window of two ticks, and of the  *)
(* room's people (Menu), four of them over two sessions.  One run explores *)
(* each in its turn: side says which, and the others rest.                 *)
(***************************************************************************)
EXTENDS Relay, FrameBudget, Absence, Menu
CONSTANTS p1, p2

MCOrder == <<"p", "q", "r">>

VARIABLE side

allVars == <<side, vars, budgetVars, absenceVars, menuVars>>

OnRelay(A)  == side = "relay" /\ A /\ UNCHANGED <<side, budgetVars, absenceVars, menuVars>>
OnBudget(A) == side = "budget" /\ A /\ UNCHANGED <<side, vars, absenceVars, menuVars>>
OnAway(A)   == side = "away" /\ A /\ UNCHANGED <<side, vars, budgetVars, menuVars>>
OnFaces(A)  == side = "faces" /\ A /\ UNCHANGED <<side, vars, budgetVars, absenceVars>>

\* The other sides rest where they begin: one of their first states is enough.
RelayRests == canReconnect /\ prompt /\ closes
SidesInit ==
    /\ Init /\ BudgetInit /\ AbsenceInit /\ MenuInit
    /\ \/ side = "relay" /\ ~company
       \/ side \in {"budget", "faces"} /\ RelayRests /\ ~company
       \/ side = "away" /\ RelayRests
SidesNext ==
    OnRelay(Next) \/ OnBudget(BudgetNext) \/ OnAway(AbsenceNext) \/ OnFaces(MenuNext)

\* The fairness of Relay, while it is the one that runs.
SidesFairness ==
    /\ WF_allVars(OnRelay(RetryFires)) /\ WF_allVars(OnRelay(Settle))
    /\ WF_allVars(OnRelay(Process)) /\ WF_allVars(OnRelay(Report))
    /\ WF_allVars(OnRelay(Opened \/ DialFails))

SidesSpec == SidesInit /\ [][SidesNext]_allVars /\ SidesFairness
=============================================================================
