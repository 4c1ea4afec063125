\* Three keys and two guest seats: labels, evictions, and a second process that starts from the store.
CONSTANTS
    k1 = k1  k2 = k2  k3 = k3
    own = own  s1 = s1  s2 = s2
    t1 = t1  t2 = t2
    Keys = {k1, k2, k3}
    Seats = {own, s1, s2}
    OwnSeat = own
    Listings = {t1}
    NoEntry = NoEntry
    NoState = NoState
    NoFrame = NoFrame
    Renew = 1
    Expire = 1
    SealMayFail = FALSE
    HasStore = TRUE
    MaxEdition = 3
    MaxCommits = 4
    MaxLives = 2
SPECIFICATION Spec
SYMMETRY Symmetric
CHECK_DEADLOCK FALSE
INVARIANTS OneKeyPerSeat RoomIsTold
PROPERTY SpeaksAsOneAuthority
