CONSTANTS
    a = a  b = b  c = c  g = g  n = n
    pa = pa  pb = pb  pc = pc  qc = qc  fa = fa  fc = fc
    None = None
    Client = {a, b, c}
    Group = {g}
    Name = {n}
    Path = {pa, pb, pc, qc}
    File = {fa, fc}
    Reach = 2
    Size <- Sizes
    Stored <- Files
    Uploads <- UploadCmds
    Downloads <- DownloadCmds
    Stops <- StopCmds
    Quits = {a}
    Offline = {c}
    Edits <- EditCmds
    Regroups = {g}
    Healthy = {pa, pb, qc}
SPECIFICATION Spec
CONSTRAINT FourCommands
CHECK_DEADLOCK FALSE
INVARIANTS
    TypeOK
    ListedHolds
    ListedServes
    CompleteIsListed
