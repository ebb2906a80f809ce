\* Two connection threads, two users, one group id and two Group objects, so
\* that a group can be replaced while the other thread holds the old object; a
\* file of one piece is listed, completed and withdrawn while members come and
\* go.
CONSTANTS
    None = None
    u1 = u1
    u2 = u2
    p1 = p1
    p2 = p2
    g1 = g1
    f1 = f1
    Conn = {c1, c2}
    User = {u1, u2}
    Pass = {p1}
    GroupId = {g1}
    FileName = {f1}
    Piece = {0}
    GroupObj = {o1, o2}
    FileObj = {x1}
    Cmd <- SharingCmds
SPECIFICATION Spec
CONSTRAINT Bounded
SYMMETRY Symmetry
CHECK_DEADLOCK FALSE
INVARIANTS
    TypeOK
    MembersAdmitted
    SeedersDistinct
PROPERTIES
    FilesOfMembers
    ChangesAnnounced
