------------------------------ MODULE MCFolder ------------------------------
(***************************************************************************)
(* A host's folder: two documents of it, saved and moved step by step      *)
(* (Files), what the page makes of whole acts on it (Acts), and the walk   *)
(* that lists it (Walk).  One run explores each in its turn: side says     *)
(* which, and the others rest.                                             *)
(***************************************************************************)
EXTENDS Files, Acts, Walk, MCIgnore

Two == 1 .. 2

MCPaths == {<<"d">>, <<"e">>, <<"f">>, <<"d","e">>, <<"d","f">>, <<"e","x">>, <<"d","e","x">>}
MCDisks == {{<<"d">>, <<"d","f">>}, {<<"f">>, <<"e">>}}

MCExcluded == {NN}
MCSecret == {NX}
MCBinaryNames == {NB}

VARIABLE side

allVars == <<side, vars, actVars, walkVars>>

OnFiles(N) == side = "files" /\ N /\ UNCHANGED <<side, actVars, walkVars>>
OnActs(N)  == side = "acts" /\ N /\ UNCHANGED <<side, vars, walkVars>>
OnWalk(N)  == side = "walk" /\ N /\ UNCHANGED <<side, vars, actVars>>

\* The other sides rest where they begin: one of their first states is enough.
FilesRest == ~stood.dir /\ Cardinality(f.listed) = 2
ActsRest == singly /\ disk = {<<"f">>, <<"e">>}
FolderInit ==
    \/ side = "files" /\ Init /\ ActsInit /\ ActsRest /\ InitOf(CHOOSE g \in WalkFolders : TRUE)
    \/ side = "acts" /\ Init /\ FilesRest /\ ActsInit /\ InitOf(CHOOSE g \in WalkFolders : TRUE)
    \/ side = "walk" /\ Init /\ FilesRest /\ ActsInit /\ ActsRest /\ WalkInit
FolderNext == OnFiles(Next) \/ OnActs(ActsNext) \/ OnWalk(WalkNext)
FolderSpec == FolderInit /\ [][FolderNext]_allVars
=============================================================================
