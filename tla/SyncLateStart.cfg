\* The second tracker starts when it likes.
CONSTANTS
    None = None
    u1 = u1
    u2 = u2
    pw = pw
    g1 = g1
    g2 = g2
    f1 = f1
    Name = {u1, u2, pw}
    GroupId = {g1}
    FileName = {f1}
    Session = {s1, s2}
    N = 2
    Started = {0}
    Standing <- Empty
    Cmd <- CreateCmds
    Faulty = {}
    MaxServed = 2
    MaxCrashes <- NoCrash
SPECIFICATION FairSpec
CHECK_DEADLOCK FALSE
PROPERTIES
    AccountsCatchUp
