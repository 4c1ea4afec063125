----------------------------- MODULE Authority -----------------------------
(***************************************************************************)
(* What the host key promises the room, whatever process holds it: the     *)
(* frames it signs are one strictly rising series, and the process that    *)
(* declares the room over signs nothing after that.  It is all a receiver  *)
(* relies on when it refuses an edition at or below the one it holds       *)
(* (src/src/engine/sealed.ts, stale_issued).                               *)
(***************************************************************************)
EXTENDS Integers

VARIABLE said    \* the frames signed so far: issued, kind, and the signing process

Init == said = {}

Above(f)  == \A g \in said : g.issued < f.issued
Silent(f) == \E g \in said : g.kind = "closing" /\ g.host = f.host

Sign == \E f \in said' :
            /\ Above(f) /\ ~Silent(f)
            /\ said' = said \cup {f}

Spec == Init /\ [][Sign]_said

\* One edition names one frame.
OneFramePerEdition == \A f, g \in said : f.issued = g.issued => f = g
=============================================================================
