\* Two drops in a room of one other person, under every timing and transport;
\* three processes of a host that count the frames of their room; and a page that is told of
\* an absence, and four presses among the faces of four people.
CONSTANTS
    p1 = p1
    p2 = p2
    People = {p1}
    RetryBudget = 2
    MaxInbox = 2
    MaxDrops = 2
    MaxNews = 1
    Prompt = {TRUE, FALSE}
    Closes = {TRUE, FALSE}
    Renew = 2
    Budget = 18
    Charge = 7
    Rate = 1
    MaxInFlight = 1
    AwayFrames = 1
    MaxLives = 3
    Expire = 2
    MaxSeats = 2
    MaxSpoken = 1
    MaxBlips = 2
    MaxTime = 2
    Self = "me"
    Order <- MCOrder
    Limit = 3
    First = "A"
    Typings = {"B", "blank"}
    Blank = "blank"
    More = "more"
    None = "none"
    Stand = 2
    MaxPresses = 4
    MaxDraws = 1
    MaxVisits = 2
SPECIFICATION SidesSpec
CHECK_DEADLOCK FALSE
INVARIANTS PromptSessionAgrees DialsAreBounded CardSaysWhatIs
PROPERTIES DropIsResolved BudgetIsKept MenuIsThePersons
