------------------------------- MODULE MCHost -------------------------------
(* Host on small instances: the keys and the other seats are interchangeable. *)
EXTENDS Host, TLC
CONSTANTS k1, k2, k3, own, s1, s2, t1, t2
Symmetric == Permutations(Keys) \cup Permutations(Seats \ {own})
=============================================================================
