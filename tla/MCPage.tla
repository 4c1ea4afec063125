------------------------------- MODULE MCPage -------------------------------
(***************************************************************************)
(* The page: the ways into a session and out of it (Page); in one, what is *)
(* in front of the editor, with two documents and two participants, in a   *)
(* host's window and a guest's (Opening); and the rows of its tree, of two *)
(* folders, one in the other, and two files (Tree).  One run explores each *)
(* in its turn: side says which, and the others rest.                      *)
(***************************************************************************)
EXTENDS Page, Tree, Opening

VARIABLE side

TheFolders == {<<"d">>, <<"d", "x">>}
TheFiles == {<<"f">>, <<"d", "f">>}
TheListings == {{<<"f">>}, {<<"f">>, <<"d", "f">>}}

ASSUME PageAssumption

allVars == <<side, vars, openingVars, treeVars>>

OnPage(N)   == side = "page" /\ N /\ UNCHANGED <<side, openingVars, treeVars>>
OnEditor(N) == side = "editor" /\ N /\ UNCHANGED <<side, vars, treeVars>>
OnTree(N)   == side = "tree" /\ N /\ UNCHANGED <<side, vars, openingVars>>

\* The other sides rest where they begin: one of their first states is enough.
PageRests == bar = 0 /\ ~calm /\ ~card.picker
EditorRests == window = "host"
TreeRests == listing = {<<"f">>}
PageInit ==
    /\ Init /\ OpeningInit /\ TreeInit
    /\ \/ side = "page" /\ EditorRests /\ TreeRests
       \/ side = "editor" /\ PageRests /\ TreeRests
       \/ side = "tree" /\ PageRests /\ EditorRests
PageNext == OnPage(Next) \/ OnEditor(OpeningNext) \/ OnTree(TreeNext)

\* The fairness of Opening, while it is the one that runs.
PageFairness ==
    /\ WF_allVars(OnEditor(Seated)) /\ WF_allVars(OnEditor(Answers))
    /\ \A p \in Paths : WF_allVars(OnEditor(DocumentChanged(p)))

PageSpec == PageInit /\ [][PageNext]_allVars /\ PageFairness
=============================================================================
