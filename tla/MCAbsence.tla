------------------------------ MODULE MCAbsence ------------------------------
(* An absence of the host, as the page of a guest whose socket drops is told of it. *)
EXTENDS Absence
=============================================================================
