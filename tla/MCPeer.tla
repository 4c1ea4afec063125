-------------------------------- MODULE MCPeer --------------------------------
(***************************************************************************)
(* One peer, with its edits as model values (Peer); and what the replicas  *)
(* of two writers come to when connections drop (Sync).  One run explores  *)
(* each in its turn: side says which, and the other one rests.             *)
(***************************************************************************)
EXTENDS Peer, Sync
CONSTANTS e1, e2, r1

VARIABLE side

allVars == <<side, vars, syncVars>>

OnPeer(A) == side = "peer" /\ A /\ UNCHANGED <<side, syncVars>>
OnSync(A) == side = "sync" /\ A /\ UNCHANGED <<side, vars>>

SidesInit == side \in {"peer", "sync"} /\ Init /\ SyncInit
SidesNext == OnPeer(Next) \/ OnSync(SyncNext)

SidesSpec == SidesInit /\ [][SidesNext]_allVars
=============================================================================
