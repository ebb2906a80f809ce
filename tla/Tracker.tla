------------------------------- MODULE Tracker -------------------------------
(***************************************************************************)
(* One tracker process: the in-memory directory of users, groups and       *)
(* shared files, and the connection threads that serve clients.            *)
(*                                                                         *)
(* Every accepted connection gets its own thread running                   *)
(* handleConnections (tracker.cpp).  The threads share the maps of         *)
(* constructs.h and, except when a client disconnects, take no lock.  A    *)
(* handler that looks something up, decides, and then writes is therefore  *)
(* three steps here:                                                       *)
(*                                                                         *)
(*   recv   -> commit   the look-ups and checks; pointers are captured     *)
(*   commit -> sync     the writes, through the captured pointers          *)
(*   sync   -> recv     syncMessageHelper announces the change             *)
(*                                                                         *)
(* A handler whose check and write cannot be separated visibly goes from   *)
(* recv to sync in one step.  A check that fails sends an error line and   *)
(* changes nothing; it is a stuttering step and is not written down.  So   *)
(* are the commands that only read (list_groups, list_files,               *)
(* list_requests, whoami, download_file).                                  *)
(*                                                                         *)
(* Group and FileInfo objects live on a heap (GroupObj, FileObj) because   *)
(* a thread can hold a pointer to an object that create_group or           *)
(* upload_file has meanwhile replaced in the map; nothing is ever freed.   *)
(* Fields that the program writes and never reads (allFiles,               *)
(* FileInfo::seeders, FilePiece::isAvailable, the values of groupOwners    *)
(* and loggedInUsers) are left out; for the two maps the key sets remain.  *)
(* The tracker is the primary, the one that announces what it changes.     *)
(***************************************************************************)
EXTENDS Naturals, Sequences

CONSTANTS
    Conn,       \* connections; also the ip:port of the client behind each,
                \* for a client process connects to a given tracker once
    User, Pass, GroupId, FileName,
    Piece,      \* valid piece indices of a file
    GroupObj,   \* addresses of Group objects (finite in TLC: the number of
                \* create_group commands that can be executed)
    FileObj,    \* addresses of FileInfo objects (finite in TLC, likewise)
    Cmd,        \* the commands clients send
    None        \* absent map entry, null pointer, empty clientName

Op == {"create_user", "login", "create_group", "join_group", "leave_group",
       "accept_request", "upload_file", "stop_share", "piece_completed"}

CmdType == [op : Op,
            u  : User \cup {None},
            p  : Pass \cup {None},
            g  : GroupId \cup {None},
            f  : FileName \cup {None},
            i  : Nat \cup {None}]

(* What a well-formed command carries: the tokens its handler reads. *)
WellFormed(k) ==
    /\ k.op \in {"create_user", "login"} => k.u \in User /\ k.p \in Pass
    /\ k.op = "accept_request" => k.u \in User
    /\ k.op \notin {"create_user", "login"} => k.g \in GroupId
    /\ k.op \in {"upload_file", "stop_share", "piece_completed"}
            => k.f \in FileName

ASSUME CmdAssumption == /\ Cmd \subseteq CmdType
                        /\ \A k \in Cmd : WellFormed(k)

ASSUME NoneAssumption ==
    None \notin User \cup Pass \cup GroupId \cup FileName
                  \cup GroupObj \cup FileObj

ASSUME PieceAssumption == Piece \subseteq Nat

NoCmd == [op |-> "none", u |-> None, p |-> None, g |-> None, f |-> None,
          i |-> None]

VARIABLES
    users,          \* user id -> password of its User object, or None
    loggedInUsers,  \* keys of loggedInUsers
    groupOwners,    \* keys of groupOwners
    groups,         \* group id -> Group object, or None
    gId,            \* Group::groupId, None for an object not yet allocated
    gOwner,         \* Group::ownerId
    gUsers,         \* Group::groupUsers
    gRequests,      \* Group::requests
    gFiles,         \* Group::sharedFiles
    fUploader,      \* FileInfo::uploaderId, None if not yet allocated
    fSeeders,       \* seeders of every FilePiece of a FileInfo
    clientName,     \* the thread's clientName, None for ""
    pc,             \* where the connection's thread is
    arg,            \* the command it is serving
    gptr, fptr,     \* the Group* and FileInfo* it holds
    outbox,         \* sync messages handed to sendSyncInfo so far
    asked,          \* history: users whose join_group reached this object
    seen,           \* history: groupUsers as the thread's checks found them
    alive           \* FALSE once the process has died

accounts == <<users, loggedInUsers>>
groupVars == <<groupOwners, groups, gId, gOwner, gUsers, gRequests, asked>>
fileVars == <<gFiles, fUploader, fSeeders>>
threadVars == <<clientName, pc, arg, gptr, fptr, seen>>
vars == <<accounts, groupVars, fileVars, threadVars, outbox, alive>>

SeqRange(s) == {s[n] : n \in DOMAIN s}

-----------------------------------------------------------------------------
(* The life of a connection thread. *)

Init ==
    /\ users = [u \in User |-> None]
    /\ loggedInUsers = {}
    /\ groupOwners = {}
    /\ groups = [g \in GroupId |-> None]
    /\ gId = [o \in GroupObj |-> None]
    /\ gOwner = [o \in GroupObj |-> None]
    /\ gUsers = [o \in GroupObj |-> {}]
    /\ gRequests = [o \in GroupObj |-> {}]
    /\ gFiles = [o \in GroupObj |-> [f \in FileName |-> None]]
    /\ fUploader = [x \in FileObj |-> None]
    /\ fSeeders = [x \in FileObj |-> [i \in Piece |-> <<>>]]
    /\ clientName = [c \in Conn |-> None]
    /\ pc = [c \in Conn |-> "closed"]
    /\ arg = [c \in Conn |-> NoCmd]
    /\ gptr = [c \in Conn |-> None]
    /\ fptr = [c \in Conn |-> None]
    /\ outbox = {}
    /\ asked = [o \in GroupObj |-> {}]
    /\ seen = [c \in Conn |-> {}]
    /\ alive = TRUE

Receives(c, k, op) == alive /\ pc[c] = "recv" /\ k.op = op

(* The checks of a handler have passed; it holds Group o and FileInfo x. *)
Begin(c, k, o, x) ==
    /\ pc' = [pc EXCEPT ![c] = "commit"]
    /\ arg' = [arg EXCEPT ![c] = k]
    /\ gptr' = [gptr EXCEPT ![c] = o]
    /\ fptr' = [fptr EXCEPT ![c] = x]
    /\ seen' = [seen EXCEPT ![c] = IF o = None THEN {} ELSE gUsers[o]]
    /\ UNCHANGED <<accounts, groupVars, fileVars, clientName, outbox, alive>>

Commits(c, op) ==
    /\ alive
    /\ pc[c] = "commit"
    /\ arg[c].op = op
    /\ pc' = [pc EXCEPT ![c] = "sync"]
    /\ UNCHANGED <<clientName, arg, gptr, fptr, seen, outbox, alive>>

(* A handler that writes without having had to check anything first. *)
CommitsAtOnce(c, k, op) ==
    /\ Receives(c, k, op)
    /\ pc' = [pc EXCEPT ![c] = "sync"]
    /\ arg' = [arg EXCEPT ![c] = k]
    /\ UNCHANGED <<gptr, fptr, seen, outbox, alive>>

Accept(c) ==
    /\ alive
    /\ pc[c] = "closed"
    /\ pc' = [pc EXCEPT ![c] = "recv"]
    /\ UNCHANGED <<accounts, groupVars, fileVars, clientName, arg, gptr, fptr,
                   seen, outbox, alive>>

Disconnect(c) ==
    /\ alive
    /\ pc[c] = "recv"
    /\ loggedInUsers' = loggedInUsers \ {clientName[c]}
    /\ clientName' = [clientName EXCEPT ![c] = None]
    /\ pc' = [pc EXCEPT ![c] = "closed"]
    /\ UNCHANGED <<users, groupVars, fileVars, arg, gptr, fptr, seen, outbox,
                   alive>>

(* The sync message of the command a thread is serving.  The messages of     *)
(* create_user and login name no one but their arguments; upload_file and    *)
(* piece_completed carry the client's address.                               *)
SyncMsg(c) ==
    [cmd |-> arg[c],
     by  |-> IF arg[c].op = "create_user" THEN None ELSE clientName[c],
     at  |-> IF arg[c].op \in {"upload_file", "piece_completed"}
             THEN c ELSE None]

(* Mutant: two handlers return before they call syncMessageHelper. *)
SyncForgets(c) ==
    /\ alive
    /\ pc[c] = "sync"
    /\ outbox' = IF arg[c].op \in {"join_group", "piece_completed"} THEN outbox
                 ELSE outbox \cup {SyncMsg(c)}
    /\ pc' = [pc EXCEPT ![c] = "recv"]
    /\ arg' = [arg EXCEPT ![c] = NoCmd]
    /\ gptr' = [gptr EXCEPT ![c] = None]
    /\ fptr' = [fptr EXCEPT ![c] = None]
    /\ seen' = [seen EXCEPT ![c] = {}]
    /\ UNCHANGED <<accounts, groupVars, fileVars, clientName, alive>>

Sync(c) ==
    /\ alive
    /\ pc[c] = "sync"
    /\ outbox' = outbox \cup {SyncMsg(c)}
    /\ pc' = [pc EXCEPT ![c] = "recv"]
    /\ arg' = [arg EXCEPT ![c] = NoCmd]
    /\ gptr' = [gptr EXCEPT ![c] = None]
    /\ fptr' = [fptr EXCEPT ![c] = None]
    /\ seen' = [seen EXCEPT ![c] = {}]
    /\ UNCHANGED <<accounts, groupVars, fileVars, clientName, alive>>

-----------------------------------------------------------------------------
(* Accounts. *)

CreateUser(c, k) ==
    /\ Receives(c, k, "create_user")
    /\ users[k.u] = None
    /\ Begin(c, k, None, None)

CreateUserCommit(c) ==
    /\ Commits(c, "create_user")
    /\ users' = [users EXCEPT ![arg[c].u] = arg[c].p]
    /\ UNCHANGED <<loggedInUsers, groupVars, fileVars>>

(* The password comparison only adds a line to the reply: both outcomes go   *)
(* on to log the user in, so k.p guards nothing.                             *)
Login(c, k) ==
    /\ CommitsAtOnce(c, k, "login")
    /\ users[k.u] # None
    /\ loggedInUsers' = loggedInUsers \cup {k.u}
    /\ clientName' = [clientName EXCEPT ![c] = k.u]
    /\ UNCHANGED <<users, groupVars, fileVars>>

-----------------------------------------------------------------------------
(* Groups. *)

(* No test for an existing group of that id: the map entry is replaced. *)
CreateGroup(c, k) ==
    /\ CommitsAtOnce(c, k, "create_group")
    /\ clientName[c] # None
    /\ \E o \in GroupObj :
          /\ gId[o] = None
          /\ gId' = [gId EXCEPT ![o] = k.g]
          /\ gOwner' = [gOwner EXCEPT ![o] = clientName[c]]
          /\ gUsers' = [gUsers EXCEPT ![o] = {clientName[c]}]
          /\ groups' = [groups EXCEPT ![k.g] = o]
    /\ groupOwners' = groupOwners \cup {clientName[c]}
    /\ UNCHANGED <<accounts, gRequests, asked, fileVars, clientName>>

(* Mutant: nobody needs to be logged in. *)
JoinGroupAnonymous(c, k) ==
    /\ Receives(c, k, "join_group")
    /\ groups[k.g] # None
    /\ clientName[c] \notin gUsers[groups[k.g]]
    /\ Begin(c, k, groups[k.g], None)

JoinGroup(c, k) ==
    /\ Receives(c, k, "join_group")
    /\ clientName[c] # None
    /\ groups[k.g] # None
    /\ clientName[c] \notin gUsers[groups[k.g]]
    /\ Begin(c, k, groups[k.g], None)

JoinGroupCommit(c) ==
    /\ Commits(c, "join_group")
    /\ gRequests' = [gRequests EXCEPT ![gptr[c]] = @ \cup {clientName[c]}]
    /\ asked' = [asked EXCEPT ![gptr[c]] = @ \cup {clientName[c]}]
    /\ UNCHANGED <<accounts, groupOwners, groups, gId, gOwner, gUsers,
                   fileVars>>

LeaveGroup(c, k) ==
    /\ Receives(c, k, "leave_group")
    /\ clientName[c] # None
    /\ groups[k.g] # None
    /\ Begin(c, k, groups[k.g], None)

LeaveGroupCommit(c) ==
    /\ Commits(c, "leave_group")
    /\ gUsers' = [gUsers EXCEPT ![gptr[c]] = @ \ {clientName[c]}]
    /\ UNCHANGED <<accounts, groupOwners, groups, gId, gOwner, gRequests,
                   asked, fileVars>>

(* join_group and leave_group fetch the Group with operator[] and call it    *)
(* untested: on an id that names no group the call goes through a null       *)
(* pointer and the process dies.                                             *)
UnknownGroup(c, k) ==
    /\ alive
    /\ pc[c] = "recv"
    /\ k.op \in {"join_group", "leave_group"}
    /\ clientName[c] # None
    /\ groups[k.g] = None
    /\ alive' = FALSE
    /\ UNCHANGED <<accounts, groupVars, fileVars, threadVars, outbox>>

AcceptRequest(c, k) ==
    /\ Receives(c, k, "accept_request")
    /\ groups[k.g] # None
    /\ users[k.u] # None
    /\ clientName[c] \in groupOwners
    /\ Begin(c, k, groups[k.g], None)

(* Mutant: acceptRequest does not look whether there is a request. *)
AcceptRequestCommitUnasked(c) ==
    LET o == gptr[c]
    IN  /\ Commits(c, "accept_request")
        /\ gUsers' = [gUsers EXCEPT ![o] = @ \cup {arg[c].u}]
        /\ gRequests' = [gRequests EXCEPT ![o] = @ \ {arg[c].u}]
        /\ UNCHANGED <<accounts, groupOwners, groups, gId, gOwner, asked,
                       fileVars>>

(* Group::acceptRequest; its result is ignored, so the request need not be   *)
(* there for the command to be announced and acknowledged.                   *)
AcceptRequestCommit(c) ==
    LET o == gptr[c]
        granted == gRequests[o] \cap {arg[c].u}
    IN  /\ Commits(c, "accept_request")
        /\ gUsers' = [gUsers EXCEPT ![o] = @ \cup granted]
        /\ gRequests' = [gRequests EXCEPT ![o] = @ \ granted]
        /\ UNCHANGED <<accounts, groupOwners, groups, gId, gOwner, asked,
                       fileVars>>

-----------------------------------------------------------------------------
(* Files. *)

(* Mutant: the uploader need not be a member. *)
UploadFileByAnyone(c, k) ==
    /\ Receives(c, k, "upload_file")
    /\ clientName[c] # None
    /\ groups[k.g] # None
    /\ gFiles[groups[k.g]][k.f] = None
    /\ Begin(c, k, groups[k.g], None)

UploadFile(c, k) ==
    /\ Receives(c, k, "upload_file")
    /\ clientName[c] # None
    /\ groups[k.g] # None
    /\ clientName[c] \in gUsers[groups[k.g]]
    /\ gFiles[groups[k.g]][k.f] = None
    /\ Begin(c, k, groups[k.g], None)

UploadFileCommit(c) ==
    /\ Commits(c, "upload_file")
    /\ \E x \in FileObj :
          /\ fUploader[x] = None
          /\ fUploader' = [fUploader EXCEPT ![x] = clientName[c]]
          /\ fSeeders' = [fSeeders EXCEPT ![x] = [i \in Piece |-> <<c>>]]
          /\ gFiles' = [gFiles EXCEPT ![gptr[c]][arg[c].f] = x]
    /\ UNCHANGED <<accounts, groupVars>>

StopShare(c, k) ==
    /\ Receives(c, k, "stop_share")
    /\ clientName[c] # None
    /\ groups[k.g] # None
    /\ gFiles[groups[k.g]][k.f] # None
    /\ fUploader[gFiles[groups[k.g]][k.f]] = clientName[c]
    /\ Begin(c, k, groups[k.g], None)

(* removeSharedFile erases by name, whatever the name refers to by now. *)
StopShareCommit(c) ==
    /\ Commits(c, "stop_share")
    /\ gFiles' = [gFiles EXCEPT ![gptr[c]][arg[c].f] = None]
    /\ UNCHANGED <<accounts, groupVars, fUploader, fSeeders>>

(* Mutant: no scan for alreadySeeder. *)
PieceCompletedAgain(c, k) ==
    /\ Receives(c, k, "piece_completed")
    /\ clientName[c] # None
    /\ groups[k.g] # None
    /\ gFiles[groups[k.g]][k.f] # None
    /\ k.i \in Piece
    /\ Begin(c, k, None, gFiles[groups[k.g]][k.f])

PieceCompleted(c, k) ==
    /\ Receives(c, k, "piece_completed")
    /\ clientName[c] # None
    /\ groups[k.g] # None
    /\ gFiles[groups[k.g]][k.f] # None
    /\ k.i \in Piece
    /\ c \notin SeqRange(fSeeders[gFiles[groups[k.g]][k.f]][k.i])
    /\ Begin(c, k, None, gFiles[groups[k.g]][k.f])

PieceCompletedCommit(c) ==
    /\ Commits(c, "piece_completed")
    /\ fSeeders' = [fSeeders EXCEPT ![fptr[c]][arg[c].i] = Append(@, c)]
    /\ UNCHANGED <<accounts, groupVars, gFiles, fUploader>>

-----------------------------------------------------------------------------
Next ==
    \E c \in Conn :
        \/ Accept(c)
        \/ Disconnect(c)
        \/ Sync(c)
        \/ CreateUserCommit(c)
        \/ JoinGroupCommit(c)
        \/ LeaveGroupCommit(c)
        \/ AcceptRequestCommit(c)
        \/ UploadFileCommit(c)
        \/ StopShareCommit(c)
        \/ PieceCompletedCommit(c)
        \/ \E k \in Cmd :
              \/ CreateUser(c, k)
              \/ Login(c, k)
              \/ CreateGroup(c, k)
              \/ JoinGroup(c, k)
              \/ LeaveGroup(c, k)
              \/ UnknownGroup(c, k)
              \/ AcceptRequest(c, k)
              \/ UploadFile(c, k)
              \/ StopShare(c, k)
              \/ PieceCompleted(c, k)

Spec == Init /\ [][Next]_vars

-----------------------------------------------------------------------------
(* Every variable keeps its type; a thread that is past its checks serves a  *)
(* command from Cmd and holds the pointers the write will go through.        *)
TypeOK ==
    /\ users \in [User -> Pass \cup {None}]
    /\ loggedInUsers \subseteq User
    /\ groupOwners \subseteq User
    /\ groups \in [GroupId -> GroupObj \cup {None}]
    /\ gId \in [GroupObj -> GroupId \cup {None}]
    /\ gOwner \in [GroupObj -> User \cup {None}]
    /\ gUsers \in [GroupObj -> SUBSET User]
    /\ gRequests \in [GroupObj -> SUBSET User]
    /\ gFiles \in [GroupObj -> [FileName -> FileObj \cup {None}]]
    /\ fUploader \in [FileObj -> User \cup {None}]
    /\ fSeeders \in [FileObj -> [Piece -> Seq(Conn)]]
    /\ clientName \in [Conn -> User \cup {None}]
    /\ pc \in [Conn -> {"closed", "recv", "commit", "sync"}]
    /\ arg \in [Conn -> Cmd \cup {NoCmd}]
    /\ gptr \in [Conn -> GroupObj \cup {None}]
    /\ fptr \in [Conn -> FileObj \cup {None}]
    /\ asked \in [GroupObj -> SUBSET User]
    /\ seen \in [Conn -> SUBSET User]
    /\ alive \in BOOLEAN

(* What has been or is about to be handed to the other trackers. *)
Announced == outbox \cup {SyncMsg(c) : c \in {d \in Conn : pc[d] = "sync"}}

(* The owner of this Group object, or a user who asked to join this very     *)
(* object and whose acceptance under the group's name has been announced.    *)
Admitted(o, u) ==
    \/ u = gOwner[o]
    \/ /\ u \in asked[o]
       /\ \E m \in Announced : /\ m.cmd.op = "accept_request"
                               /\ m.cmd.g = gId[o]
                               /\ m.cmd.u = u

(* Nobody is in groupUsers of a group object who is not its creator or asked *)
(* to join that incarnation and was accepted, however the threads of joiner, *)
(* owner and leaver interleave and whichever object a stale pointer names    *)
(* (Group::acceptRequest moves only what is in requests).                    *)
MembersAdmitted == \A o \in GroupObj : \A u \in gUsers[o] : Admitted(o, u)

(* A file enters the list of a Group object only for a user who was in       *)
(* groupUsers of that very object when the handler checked, and the FileInfo *)
(* names that user as the uploader, although the user may have left and the  *)
(* map entry may lead elsewhere by the time the file is added.               *)
FilesOfMembers ==
    [][\A o \in GroupObj : \A f \in FileName :
          gFiles'[o][f] \notin {gFiles[o][f], None} =>
             \E c \in Conn : /\ pc[c] = "commit"
                             /\ gptr[c] = o
                             /\ clientName[c] \in seen[c]
                             /\ fUploader'[gFiles'[o][f]] = clientName[c]]_vars

(* The seeder list of a piece never names a client twice: the scan for       *)
(* alreadySeeder and the push_back are separate steps of handlePieceCompleted *)
(* and other threads push to the same list between them.                     *)
SeedersDistinct ==
    \A x \in FileObj : \A i \in Piece :
        \A m, n \in DOMAIN fSeeders[x][i] :
            fSeeders[x][i][m] = fSeeders[x][i][n] => m = n

(* What the threads and the heap owe each other while a check is separated   *)
(* from its write.  A thread about to write holds a Group that carries the   *)
(* id it named, even if the map no longer leads there; it is logged in       *)
(* wherever the write uses clientName; an uploader was seen among the        *)
(* members; and a client about to be pushed on a seeder list is not on it    *)
(* yet, nor is the file listed under another name than the client gave.      *)
Holds(c) ==
    /\ arg[c].op \in {"join_group", "leave_group", "accept_request",
                     "upload_file", "stop_share"} =>
          gptr[c] \in GroupObj /\ gId[gptr[c]] = arg[c].g
    /\ arg[c].op \in {"join_group", "leave_group", "upload_file",
                     "stop_share"} => clientName[c] \in User
    /\ arg[c].op = "upload_file" => clientName[c] \in seen[c]
    /\ arg[c].op = "piece_completed" =>
          /\ fptr[c] \in FileObj
          /\ fUploader[fptr[c]] # None
          /\ arg[c].i \in Piece
          /\ c \notin SeqRange(fSeeders[fptr[c]][arg[c].i])
          /\ \A o \in GroupObj : \A f \in FileName :
                gFiles[o][f] = fptr[c] => gId[o] = arg[c].g /\ f = arg[c].f

HeldByThreads == \A c \in Conn : pc[c] = "commit" => Holds(c)

(* The map leads to objects of the right id, requests were made, objects not *)
(* yet allocated are empty, and a listed file exists and is listed once.     *)
HeapConsistent ==
    /\ \A g \in GroupId : groups[g] # None => gId[groups[g]] = g
    /\ \A o \in GroupObj :
          /\ gRequests[o] \subseteq asked[o]
          /\ gId[o] = None => /\ gUsers[o] = {}
                             /\ asked[o] = {}
                             /\ \A f \in FileName : gFiles[o][f] = None
          /\ \A f \in FileName :
                gFiles[o][f] # None => fUploader[gFiles[o][f]] # None
    /\ \A o, q \in GroupObj : \A f, h \in FileName :
          gFiles[o][f] # None /\ gFiles[o][f] = gFiles[q][h] => o = q /\ f = h

(* The messages this step obliges its thread to send. *)
Due == {SyncMsg(c)' : c \in {d \in Conn : pc[d] # "sync" /\ pc'[d] = "sync"}}

(* One part per kind of change: an account or its password, a group, a       *)
(* request, a member more or less, a listing or its end, and a seeder of a   *)
(* piece of a listed file.                                                   *)
UsersTold ==
    \A u \in User : users'[u] # users[u] =>
        \E m \in Due : /\ m.cmd.op = "create_user"
                       /\ m.cmd.u = u /\ m.cmd.p = users'[u]

GroupsTold ==
    \A o \in GroupObj : gId'[o] # gId[o] =>
        \E m \in Due : /\ m.cmd.op = "create_group" /\ m.cmd.g = gId'[o]
                       /\ m.by = gOwner'[o] /\ gUsers'[o] = {m.by}

RequestsTold ==
    \A o \in GroupObj : \A u \in gRequests'[o] \ gRequests[o] :
        \E m \in Due : /\ m.cmd.op = "join_group" /\ m.cmd.g = gId[o]
                       /\ m.by = u

MembersTold ==
    \A o \in GroupObj : gId[o] # None =>
        /\ \A u \in gUsers'[o] \ gUsers[o] :
              \E m \in Due : /\ m.cmd.op = "accept_request"
                             /\ m.cmd.g = gId[o] /\ m.cmd.u = u
        /\ \A u \in gUsers[o] \ gUsers'[o] :
              \E m \in Due : /\ m.cmd.op = "leave_group"
                             /\ m.cmd.g = gId[o] /\ m.by = u

ListingsTold ==
    \A o \in GroupObj : \A f \in FileName : gFiles'[o][f] # gFiles[o][f] =>
        \E m \in Due : /\ m.cmd.g = gId[o] /\ m.cmd.f = f
                       /\ IF gFiles'[o][f] = None
                          THEN m.cmd.op = "stop_share"
                          ELSE /\ m.cmd.op = "upload_file"
                               /\ m.by = fUploader'[gFiles'[o][f]]

SeedersTold ==
    \A o \in GroupObj : \A f \in FileName : gFiles'[o][f] # None =>
        LET x == gFiles'[o][f]
        IN  \A i \in Piece :
               \A s \in SeqRange(fSeeders'[x][i]) \ SeqRange(fSeeders[x][i]) :
                  \E m \in Due : /\ m.cmd.g = gId[o] /\ m.cmd.f = f
                                 /\ m.at = s
                                 /\ \/ m.cmd.op = "upload_file"
                                    \/ /\ m.cmd.op = "piece_completed"
                                       /\ m.cmd.i = i

(* Every change of the directory is owed to the other trackers: the thread   *)
(* that makes it goes on to call syncMessageHelper with the operation, the   *)
(* group, file, piece and user it is about, also where it wrote through a    *)
(* pointer that the map no longer leads to; and what is sent or owed stays   *)
(* so until it is sent.  (A process that dies sends nothing more; logging in *)
(* and its end when a client disconnects are not part of what is owed.)      *)
ChangesAnnounced ==
    [][/\ UsersTold
       /\ GroupsTold
       /\ RequestsTold
       /\ MembersTold
       /\ ListingsTold
       /\ SeedersTold
       /\ Announced \subseteq Announced']_vars

(* "creating a new user only if userName is unique" (tracker.cpp:231): a     *)
(* registered account never changes its password.                            *)
UserIdUnique ==
    [][\A u \in User : users[u] # None => users'[u] = users[u]]_vars
=============================================================================
