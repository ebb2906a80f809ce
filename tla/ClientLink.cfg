CONSTANTS
    N = 2
    NoHealth <- Unserved
    MaxCuts = 1
    MaxLines = 2
    MaxCrashes = 1
SPECIFICATION FairSpec
CHECK_DEADLOCK FALSE
INVARIANTS
    TypeOK
    ProbesItsOwn
    LoginsArrive
    GreetedFirst
    ReloginHeard
    HandledInOrder
    ExitTried
    QuietSurvives
PROPERTY
    MovesOn
