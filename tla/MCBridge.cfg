SPECIFICATION Spec
CONSTANTS
    e1 = e1
    r1 = r1
    r2 = r2
    k1 = k1
    Windows <- AllButLateHosts
    Local = {e1}
    Remote = {r1, r2}
    Disk = {k1}
    Heavy = {r1}
    Broken = {r2}
    MaxAttempts = 2
    MaxOpens = 2
    MaxRefusals = 2
    MaxReads = 1
    MaxTurns = 1
    MaxCuts = 1
INVARIANTS
    EnteredOnce
PROPERTIES
    LossIsTold
    PublishesWhatWasDone
    SavedOrTold
    Converges
CHECK_DEADLOCK FALSE
