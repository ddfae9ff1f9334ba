SPECIFICATION FairSpec
CONSTANTS
    Intervals = {0, 2, 4}
    Bad = Bad
    JitterNumerator = 1
    JitterDenominator = 2
    MaxGreetAttempts = 3
    MaxRestarts = 3
    MaxAnswers = 2
INVARIANTS TypeOK EmissionGap NoRequestLost
CHECK_DEADLOCK FALSE
PROPERTIES RestartedRouterRefilled CallbacksReturn StopsWhenTold
