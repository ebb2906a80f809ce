\* One client, two trackers that run from the start.
CONSTANTS
    None = None
    u1 = u1
    u2 = u2
    pw = pw
    g1 = g1
    g2 = g2
    f1 = f1
    Name = {u1, pw}
    GroupId = {g1}
    FileName = {f1}
    Session = {s1}
    N = 2
    Started = {0, 1}
    Standing <- Empty
    Cmd <- SteadyCmds
    Faulty = {}
    MaxServed = 7
    MaxCrashes <- NoCrash
SPECIFICATION Spec
CHECK_DEADLOCK FALSE
INVARIANTS
    TypeOK
    CatchingUp
PROPERTIES
    IsLaggingCopy
