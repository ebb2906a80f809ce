\* Tracker 0 is restarted.
CONSTANTS
    None = None
    u1 = u1
    u2 = u2
    pw = pw
    g1 = g1
    g2 = g2
    f1 = f1
    Name = {u1, u2, pw}
    GroupId = {g1}
    FileName = {f1}
    Session = {}
    N = 2
    Started = {0, 1}
    Standing <- Empty
    Cmd <- NoCmds
    Faulty = {}
    MaxServed = 0
    MaxCrashes <- AnyCrash
SPECIFICATION Spec
CHECK_DEADLOCK FALSE
INVARIANTS
    OnePrimary
