\* Two processes without a store: the publish window and its timer, failing seals, closings.
CONSTANTS
    k1 = k1  k2 = k2  k3 = k3
    own = own  s1 = s1  s2 = s2
    t1 = t1  t2 = t2
    Keys = {k1}
    Seats = {own, s1}
    OwnSeat = own
    Listings = {t1, t2}
    NoEntry = NoEntry
    NoState = NoState
    NoFrame = NoFrame
    Renew = 2
    Expire = 2
    SealMayFail = TRUE
    HasStore = FALSE
    MaxEdition = 3
    MaxCommits = 2
    MaxLives = 2
SPECIFICATION Spec
SYMMETRY Symmetric
CHECK_DEADLOCK FALSE
INVARIANT AnswerNotPassedOver
PROPERTIES AnswersAreRateBound ClosingIsLast NeverBelowVerified
