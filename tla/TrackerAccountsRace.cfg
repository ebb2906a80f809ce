\* Two threads register the same name.
CONSTANTS
    None = None
    u1 = u1
    u2 = u2
    p1 = p1
    p2 = p2
    g1 = g1
    f1 = f1
    Conn = {c1, c2}
    User = {u1, u2}
    Pass = {p1, p2}
    GroupId = {g1}
    FileName = {f1}
    Piece = {}
    GroupObj = {}
    FileObj = {}
    Cmd <- AccountCmds
SPECIFICATION Spec
SYMMETRY Symmetry
CHECK_DEADLOCK FALSE
PROPERTIES
    UserIdUnique
