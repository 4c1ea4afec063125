\* Two seats of the host, one drop, three ticks.
CONSTANTS
    Expire = 2
    MaxSeats = 2
    MaxSpoken = 1
    MaxBlips = 1
    MaxTime = 3
SPECIFICATION AbsenceSpec
INVARIANT AbsenceIsShown
CHECK_DEADLOCK FALSE
