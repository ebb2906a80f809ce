\* Three trackers and no client: health checks only, of which those of tracker 0
\* always get through.
CONSTANTS
    None = None
    u1 = u1
    u2 = u2
    pw = pw
    g1 = g1
    g2 = g2
    f1 = f1
    Name = {u1, u2, pw}
    GroupId = {g1}
    FileName = {f1}
    Session = {}
    N = 3
    Started = {0}
    Standing <- Empty
    Cmd <- NoCmds
    Faulty <- OthersFaulty
    MaxServed = 0
    MaxCrashes <- AnyCrash
SPECIFICATION FairSpec
CHECK_DEADLOCK FALSE
INVARIANTS
    SolePrimary
PROPERTIES
    SomePrimary
