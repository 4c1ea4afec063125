\* Eight honest frames and eight a reader must refuse, over a lease of one tick; and two
\* connections of a peer whose holds outlast three of its renewals, with one frame lost.
CONSTANTS
    Keys <- MCKeys
    HostKey = 0
    IdOf <- MCIdOf
    Usable <- MCUsable
    Wire <- MCWire
    Seats <- MCSeats
    SeatOf <- MCSeatOf
    Expire = 1
    MaxMoves = 2
    Paths = {"p"}
    Carets = {"c"}
    Renew = 2
    ExpireAfter = 6
    MaxConns = 2
    MaxChanges = 2
    MaxMisses = 1
SPECIFICATION SidesSpec
INVARIANTS RefusedForCause HoldsEnd
PROPERTIES AppliedInOrder HoldsAreKept ShownInTheEnd
