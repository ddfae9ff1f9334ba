SPECIFICATION FairSpec
CONSTANTS
    Pairs = {a1, a2}
    SendCount = 2
    MaxChanges = 3
    MaxLost = 2
    Nil = Nil
    Shared = Shared
INVARIANTS TypeOK UpdateStopsSender WithdrawalsBounded
PROPERTIES CacheDrains WantedPairsStay RepeatsCoverLosses
