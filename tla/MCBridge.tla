------------------------------ MODULE MCBridge ------------------------------
(* Bridge with its marks as model values, for the editor of this repository in both  *)
(* roles and a late one as a guest.                                                  *)
EXTENDS Bridge
CONSTANTS e1, r1, r2, k1
HostHere == [role : {"host"}, late : {FALSE}]
AllButLateHosts == [role : {"guest"}, late : BOOLEAN] \cup [role : {"host"}, late : {FALSE}]
=============================================================================
