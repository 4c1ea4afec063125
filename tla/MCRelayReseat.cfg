\* A drop while a re-seat is awaited.
CONSTANTS
    p1 = p1
    p2 = p2
    People = {p1}
    RetryBudget = 2
    MaxInbox = 2
    MaxDrops = 2
    MaxNews = 1
    Prompt = {FALSE}
    Closes = {TRUE}
    Renew = 2
    Budget = 18
    Charge = 7
    Rate = 1
    MaxInFlight = 1
    AwayFrames = 1
    MaxLives = 3
    Expire = 2
    MaxSeats = 2
    MaxSpoken = 1
    MaxBlips = 2
    MaxTime = 2
    Self = "me"
    Order <- MCOrder
    Limit = 3
    First = "A"
    Typings = {"B", "blank"}
    Blank = "blank"
    More = "more"
    None = "none"
    Stand = 2
    MaxPresses = 4
    MaxDraws = 1
    MaxVisits = 2
SPECIFICATION SidesSpec
CHECK_DEADLOCK FALSE
INVARIANT NoFrameUnderADeadKey
