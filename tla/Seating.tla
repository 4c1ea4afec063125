------------------------------ MODULE Seating ------------------------------
(***************************************************************************)
(* The host's table of committed keys (src/src/engine/host.ts: seats,      *)
(* label, commit, peerEntries), as operators over a roster r, the sequence *)
(* of seats in the order the relay showed them, and a table s, which gives *)
(* every committed key a seat label, a role and its place in the order of  *)
(* commitments.  Nothing on the wire ties a key to a seat, so a label is a *)
(* belief; what the operators keep is that no two keys carry one label.    *)
(***************************************************************************)
EXTENDS Integers, FiniteSets, Sequences, SequencesExt

CONSTANTS
    Keys,         \* the session keys that peers announce
    Seats,        \* the seats the relay hands out in this room
    OwnSeat,      \* the host's own seat
    NoEntry       \* a key the host has not committed

Roles == {"guest", "viewer"}
Entry == [seat : Seats, role : Roles, order : Nat]
Label == [seat : Seats, role : Roles]
Peers == [Keys -> Label \cup {NoEntry}]
Table == [Keys -> Entry \cup {NoEntry}]

ASSUME SeatingAssumption == OwnSeat \in Seats /\ NoEntry \notin Entry \cup Label

Empty == [k \in Keys |-> NoEntry]

Committed(s) == {k \in Keys : s[k] # NoEntry}
Seated(r)    == ToSet(r)

\* The keys of the seats the roster has.  The host's own entry is
\* always there and left out.
PeerEntries(r, s) ==
    [k \in Keys |-> IF s[k] # NoEntry /\ s[k].seat \in Seated(r)
                    THEN [seat |-> s[k].seat, role |-> s[k].role]
                    ELSE NoEntry]

Present(r, s) == {k \in Committed(s) : s[k].seat \in Seated(r)}
Taken(r, s)   == {OwnSeat} \cup {s[k].seat : k \in Present(r, s)}
Free(r, s)    == {i \in DOMAIN r : r[i] \notin Taken(r, s)}
Oldest(s, K)  == CHOOSE k \in K : \A j \in K : s[k].order <= s[j].order

\* label(): the first roster seat that carries no key, else the seat of the
\* key held longest, else the host's own.
LabelFor(r, s) ==
    LET seated == {k \in Present(r, s) : s[k].seat # OwnSeat}
    IN  IF Free(r, s) # {} THEN r[CHOOSE i \in Free(r, s) : \A j \in Free(r, s) : i <= j]
        ELSE IF seated # {} THEN s[Oldest(s, seated)].seat
        ELSE OwnSeat

\* commit(): the new key takes its seat from whichever key had it, unless the
\* seat is the host's own.
CommitBesides(k, role, r, s, n) ==
    [s EXCEPT ![k] = [seat |-> LabelFor(r, s), role |-> role, order |-> n]]
Commit(k, role, r, s, n) ==
    LET seat == LabelFor(r, s)
    IN  [x \in Keys |->
            IF x = k THEN [seat |-> seat, role |-> role, order |-> n]
            ELSE IF s[x] # NoEntry /\ s[x].seat = seat /\ seat # OwnSeat
                 THEN NoEntry
                 ELSE s[x]]

\* seatLeft(): every key the seat was the label of goes with it.
Vacate(s, seat) ==
    [k \in Keys |-> IF s[k] # NoEntry /\ s[k].seat = seat THEN NoEntry ELSE s[k]]
Enter(r, seat) == IF Contains(r, seat) THEN r ELSE Append(r, seat)
=============================================================================
