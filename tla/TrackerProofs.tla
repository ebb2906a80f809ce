---------------------------- MODULE TrackerProofs ----------------------------
(***************************************************************************)
(* Theorems about Tracker for any number of connections, users, groups,    *)
(* files, pieces and commands.                                             *)
(***************************************************************************)
EXTENDS Tracker, TLAPS

(* A command of Cmd carries the arguments its handler uses. *)
LEMMA CmdFacts ==
    ASSUME NEW k \in Cmd
    PROVE  /\ k.op \in Op
           /\ k.op \in {"create_user", "login"} => k.u \in User /\ k.p \in Pass
           /\ k.op = "accept_request" => k.u \in User
           /\ k.op \notin {"create_user", "login"} => k.g \in GroupId
           /\ k.op \in {"upload_file", "stop_share", "piece_completed"}
                  => k.f \in FileName
  BY CmdAssumption DEF CmdType, WellFormed

(* A thread that serves an operation serves a command of Cmd. *)
LEMMA ServedCommand ==
    ASSUME TypeOK, NEW c \in Conn, arg[c].op \in Op
    PROVE  arg[c] \in Cmd
  BY DEF TypeOK, NoCmd, Op

(* The strengthening that is inductive. *)
Inv == TypeOK /\ HeldByThreads /\ HeapConsistent /\ MembersAdmitted

(* Every action keeps the types, given what threads hold when they write. *)
LEMMA TypeStep == TypeOK /\ HeldByThreads /\ [Next]_vars => TypeOK'
<1> SUFFICES ASSUME TypeOK, HeldByThreads, [Next]_vars PROVE TypeOK'
  OBVIOUS
<1> USE DEF accounts, groupVars, fileVars, threadVars
<1>0. CASE UNCHANGED vars
  BY <1>0 DEF TypeOK, vars
<1>1. ASSUME NEW c \in Conn, Accept(c) PROVE TypeOK'
  BY <1>1 DEF TypeOK, Accept
<1>2. ASSUME NEW c \in Conn, Disconnect(c) PROVE TypeOK'
  BY <1>2 DEF TypeOK, Disconnect
<1>3. ASSUME NEW c \in Conn, Sync(c) PROVE TypeOK'
  BY <1>3 DEF TypeOK, Sync
<1>4. ASSUME NEW c \in Conn, CreateUserCommit(c) PROVE TypeOK'
  <2>1. arg[c] \in Cmd /\ arg[c].op = "create_user"
    BY <1>4, ServedCommand DEF CreateUserCommit, Commits, Op
  <2> QED
    BY <1>4, <2>1, CmdFacts DEF TypeOK, CreateUserCommit, Commits
<1>5. ASSUME NEW c \in Conn, JoinGroupCommit(c) PROVE TypeOK'
  BY <1>5 DEF TypeOK, JoinGroupCommit, Commits, HeldByThreads, Holds
<1>6. ASSUME NEW c \in Conn, LeaveGroupCommit(c) PROVE TypeOK'
  BY <1>6 DEF TypeOK, LeaveGroupCommit, Commits, HeldByThreads, Holds
<1>7. ASSUME NEW c \in Conn, AcceptRequestCommit(c) PROVE TypeOK'
  BY <1>7 DEF TypeOK, AcceptRequestCommit, Commits, HeldByThreads, Holds
<1>8. ASSUME NEW c \in Conn, UploadFileCommit(c) PROVE TypeOK'
  <2>1. arg[c] \in Cmd /\ arg[c].f \in FileName
    BY <1>8, ServedCommand, CmdFacts DEF UploadFileCommit, Commits, Op
  <2>2. PICK x \in FileObj :
           /\ fUploader' = [fUploader EXCEPT ![x] = clientName[c]]
           /\ fSeeders' = [fSeeders EXCEPT ![x] = [i \in Piece |-> <<c>>]]
           /\ gFiles' = [gFiles EXCEPT ![gptr[c]][arg[c].f] = x]
    BY <1>8 DEF UploadFileCommit
  <2>3. gptr[c] \in GroupObj /\ clientName[c] \in User
    BY <1>8 DEF UploadFileCommit, Commits, HeldByThreads, Holds
  <2>4. [i \in Piece |-> <<c>>] \in [Piece -> Seq(Conn)]
    OBVIOUS
  <2> QED
    BY <1>8, <2>1, <2>2, <2>3, <2>4 DEF TypeOK, UploadFileCommit, Commits
<1>9. ASSUME NEW c \in Conn, StopShareCommit(c) PROVE TypeOK'
  BY <1>9 DEF TypeOK, StopShareCommit, Commits, HeldByThreads, Holds
<1>10. ASSUME NEW c \in Conn, PieceCompletedCommit(c) PROVE TypeOK'
  <2>1. fptr[c] \in FileObj /\ arg[c].i \in Piece
    BY <1>10 DEF PieceCompletedCommit, Commits, HeldByThreads, Holds
  <2>2. Append(fSeeders[fptr[c]][arg[c].i], c) \in Seq(Conn)
    BY <2>1 DEF TypeOK
  <2> QED
    BY <1>10, <2>1, <2>2 DEF TypeOK, PieceCompletedCommit, Commits
<1>11. ASSUME NEW c \in Conn, NEW k \in Cmd, NEW o \in GroupObj \cup {None},
              NEW x \in FileObj \cup {None}, Begin(c, k, o, x)
       PROVE  TypeOK'
  BY <1>11 DEF TypeOK, Begin
<1>12. ASSUME NEW c \in Conn, NEW k \in Cmd, CreateUser(c, k) PROVE TypeOK'
  BY <1>11, <1>12 DEF CreateUser
<1>13. ASSUME NEW c \in Conn, NEW k \in Cmd, Login(c, k) PROVE TypeOK'
  BY <1>13, CmdFacts DEF TypeOK, Login, CommitsAtOnce, Receives
<1>14. ASSUME NEW c \in Conn, NEW k \in Cmd, CreateGroup(c, k) PROVE TypeOK'
  <2>1. k.g \in GroupId /\ clientName[c] \in User
    BY <1>14, CmdFacts DEF TypeOK, CreateGroup, CommitsAtOnce, Receives
  <2>2. PICK o \in GroupObj :
           /\ gId' = [gId EXCEPT ![o] = k.g]
           /\ gOwner' = [gOwner EXCEPT ![o] = clientName[c]]
           /\ gUsers' = [gUsers EXCEPT ![o] = {clientName[c]}]
           /\ groups' = [groups EXCEPT ![k.g] = o]
    BY <1>14 DEF CreateGroup
  <2> QED
    BY <1>14, <2>1, <2>2 DEF TypeOK, CreateGroup, CommitsAtOnce, Receives
<1>15. ASSUME NEW c \in Conn, NEW k \in Cmd, JoinGroup(c, k) PROVE TypeOK'
  <2>1. groups[k.g] \in GroupObj
    BY <1>15, CmdFacts DEF TypeOK, JoinGroup, Receives
  <2> QED
    BY <1>11, <1>15, <2>1 DEF JoinGroup
<1>16. ASSUME NEW c \in Conn, NEW k \in Cmd, LeaveGroup(c, k) PROVE TypeOK'
  <2>1. groups[k.g] \in GroupObj
    BY <1>16, CmdFacts DEF TypeOK, LeaveGroup, Receives
  <2> QED
    BY <1>11, <1>16, <2>1 DEF LeaveGroup
<1>17. ASSUME NEW c \in Conn, NEW k \in Cmd, UnknownGroup(c, k) PROVE TypeOK'
  BY <1>17 DEF TypeOK, UnknownGroup
<1>18. ASSUME NEW c \in Conn, NEW k \in Cmd, AcceptRequest(c, k)
       PROVE  TypeOK'
  <2>1. groups[k.g] \in GroupObj
    BY <1>18, CmdFacts DEF TypeOK, AcceptRequest, Receives
  <2> QED
    BY <1>11, <1>18, <2>1 DEF AcceptRequest
<1>19. ASSUME NEW c \in Conn, NEW k \in Cmd, UploadFile(c, k) PROVE TypeOK'
  <2>1. groups[k.g] \in GroupObj
    BY <1>19, CmdFacts DEF TypeOK, UploadFile, Receives
  <2> QED
    BY <1>11, <1>19, <2>1 DEF UploadFile
<1>20. ASSUME NEW c \in Conn, NEW k \in Cmd, StopShare(c, k) PROVE TypeOK'
  <2>1. groups[k.g] \in GroupObj
    BY <1>20, CmdFacts DEF TypeOK, StopShare, Receives
  <2> QED
    BY <1>11, <1>20, <2>1 DEF StopShare
<1>21. ASSUME NEW c \in Conn, NEW k \in Cmd, PieceCompleted(c, k)
       PROVE  TypeOK'
  <2>0. k.g \in GroupId /\ k.f \in FileName /\ groups[k.g] # None
    BY <1>21, CmdFacts DEF PieceCompleted, Receives
  <2>1. gFiles[groups[k.g]][k.f] \in FileObj
    <3>1. groups[k.g] \in GroupObj
      BY <2>0 DEF TypeOK
    <3>2. gFiles[groups[k.g]][k.f] \in FileObj \cup {None}
      BY <2>0, <3>1 DEF TypeOK
    <3> QED
      BY <1>21, <3>2 DEF PieceCompleted
  <2>2. Begin(c, k, None, gFiles[groups[k.g]][k.f])
    BY <1>21 DEF PieceCompleted
  <2> QED
    BY <1>11, <2>1, <2>2
<1> QED
  BY <1>0, <1>1, <1>2, <1>3, <1>4, <1>5, <1>6, <1>7, <1>8, <1>9, <1>10, <1>12,
     <1>13, <1>14, <1>15, <1>16, <1>17, <1>18, <1>19, <1>20, <1>21 DEF Next
-----------------------------------------------------------------------------
(* The actions that change a group or a file; all others leave both alone. *)
LEMMA Writers ==
  ASSUME [Next]_vars
  PROVE  \/ UNCHANGED <<groupVars, fileVars>>
         \/ \E c \in Conn : \/ JoinGroupCommit(c)
                           \/ LeaveGroupCommit(c)
                           \/ AcceptRequestCommit(c)
                           \/ UploadFileCommit(c)
                           \/ StopShareCommit(c)
                           \/ PieceCompletedCommit(c)
                           \/ \E k \in Cmd : CreateGroup(c, k)
<1>1. CASE UNCHANGED vars
  BY <1>1 DEF vars
<1>2. ASSUME NEW c \in Conn,
             \/ Accept(c) \/ Disconnect(c) \/ Sync(c) \/ CreateUserCommit(c)
      PROVE  UNCHANGED <<groupVars, fileVars>>
  BY <1>2 DEF Accept, Disconnect, Sync, CreateUserCommit
<1>3. ASSUME NEW c \in Conn, NEW k \in Cmd,
             \/ CreateUser(c, k) \/ Login(c, k) \/ JoinGroup(c, k)
             \/ LeaveGroup(c, k) \/ UnknownGroup(c, k) \/ AcceptRequest(c, k)
             \/ UploadFile(c, k) \/ StopShare(c, k) \/ PieceCompleted(c, k)
      PROVE  UNCHANGED <<groupVars, fileVars>>
  BY <1>3 DEF CreateUser, Login, JoinGroup, LeaveGroup, UnknownGroup,
              AcceptRequest, UploadFile, StopShare, PieceCompleted, Begin
<1> QED
  BY <1>1, <1>2, <1>3 DEF Next

(* An allocated object keeps its identity, and requests are not forgotten. *)
LEMMA Allocated ==
  ASSUME TypeOK, HeldByThreads, [Next]_vars
  PROVE  /\ \A o \in GroupObj :
               /\ gId[o] # None => gId'[o] = gId[o] /\ gOwner'[o] = gOwner[o]
               /\ asked[o] \subseteq asked'[o]
         /\ \A x \in FileObj :
               fUploader[x] # None => fUploader'[x] = fUploader[x]
<1> USE DEF TypeOK
<1>1. CASE UNCHANGED <<groupVars, fileVars>>
  BY <1>1 DEF groupVars, fileVars
<1>2. ASSUME NEW c \in Conn, JoinGroupCommit(c)
      PROVE  /\ UNCHANGED <<gId, gOwner, fUploader>>
             /\ \A o \in GroupObj : asked[o] \subseteq asked'[o]
  BY <1>2 DEF JoinGroupCommit, fileVars
<1>3. ASSUME NEW c \in Conn, LeaveGroupCommit(c) \/ AcceptRequestCommit(c)
      PROVE  UNCHANGED <<gId, gOwner, asked, fUploader>>
  BY <1>3 DEF LeaveGroupCommit, AcceptRequestCommit, fileVars
<1>4. ASSUME NEW c \in Conn, UploadFileCommit(c)
      PROVE  /\ UNCHANGED <<gId, gOwner, asked>>
             /\ \A x \in FileObj :
                   fUploader[x] # None => fUploader'[x] = fUploader[x]
  BY <1>4 DEF UploadFileCommit, groupVars
<1>5. ASSUME NEW c \in Conn, StopShareCommit(c) \/ PieceCompletedCommit(c)
      PROVE  UNCHANGED <<gId, gOwner, asked, fUploader>>
  BY <1>5 DEF StopShareCommit, PieceCompletedCommit, groupVars
<1>6. ASSUME NEW c \in Conn, NEW k \in Cmd, CreateGroup(c, k)
      PROVE  /\ UNCHANGED <<asked, fUploader>>
             /\ \A o \in GroupObj : gId[o] # None =>
                   gId'[o] = gId[o] /\ gOwner'[o] = gOwner[o]
  BY <1>6 DEF CreateGroup, fileVars
<1> QED
  BY <1>1, <1>2, <1>3, <1>4, <1>5, <1>6, Writers

(* What has been announced, or a thread is bound to announce, stays so. *)
LEMMA AnnouncedGrows ==
  ASSUME TypeOK, [Next]_vars
  PROVE  Announced \subseteq Announced'
<1>1. /\ outbox \subseteq outbox'
      /\ \A d \in Conn : pc[d] = "sync" =>
            \/ SyncMsg(d) \in outbox'
            \/ pc'[d] = "sync" /\ arg'[d] = arg[d]
                               /\ clientName'[d] = clientName[d]
  <2>1. CASE UNCHANGED vars
    BY <2>1 DEF vars, threadVars
  <2>2. ASSUME NEW c \in Conn, \/ Accept(c) \/ Disconnect(c) \/ Sync(c)
        PROVE  <1>1
    BY <2>2 DEF Accept, Disconnect, Sync, TypeOK
  <2>3. ASSUME NEW c \in Conn, NEW op, Commits(c, op) PROVE <1>1
    BY <2>3 DEF Commits, TypeOK
  <2>4. ASSUME NEW c \in Conn,
               \/ CreateUserCommit(c) \/ JoinGroupCommit(c)
               \/ LeaveGroupCommit(c) \/ AcceptRequestCommit(c)
               \/ UploadFileCommit(c) \/ StopShareCommit(c)
               \/ PieceCompletedCommit(c)
        PROVE  <1>1
    BY <2>3, <2>4 DEF CreateUserCommit, JoinGroupCommit, LeaveGroupCommit,
         AcceptRequestCommit, UploadFileCommit, StopShareCommit,
         PieceCompletedCommit
  <2>5. ASSUME NEW c \in Conn, NEW k, NEW o, NEW x,
               pc[c] = "recv", Begin(c, k, o, x)
        PROVE  <1>1
    BY <2>5 DEF Begin, TypeOK
  <2>6. ASSUME NEW c \in Conn, NEW k \in Cmd,
               \/ CreateUser(c, k) \/ JoinGroup(c, k) \/ LeaveGroup(c, k)
               \/ AcceptRequest(c, k) \/ UploadFile(c, k) \/ StopShare(c, k)
               \/ PieceCompleted(c, k)
        PROVE  <1>1
    BY <2>5, <2>6 DEF CreateUser, JoinGroup, LeaveGroup, AcceptRequest,
         UploadFile, StopShare, PieceCompleted, Receives
  <2>7. ASSUME NEW c \in Conn, NEW k \in Cmd,
               Login(c, k) \/ CreateGroup(c, k) \/ UnknownGroup(c, k)
        PROVE  <1>1
    BY <2>7 DEF Login, CreateGroup, UnknownGroup, CommitsAtOnce, Receives,
         threadVars, TypeOK
  <2> QED
    BY <2>1, <2>2, <2>4, <2>6, <2>7 DEF Next
<1>2. ASSUME NEW d \in Conn, pc[d] = "sync"
      PROVE  SyncMsg(d) \in Announced'
  BY <1>1, <1>2 DEF Announced, SyncMsg
<1> QED
  BY <1>1, <1>2 DEF Announced

(* Admission to a group object is not undone. *)
LEMMA AdmittedStays ==
  ASSUME TypeOK, HeldByThreads, [Next]_vars,
         NEW o \in GroupObj, NEW u, gId[o] # None, Admitted(o, u)
  PROVE  Admitted(o, u)'
<1>1. /\ gId'[o] = gId[o] /\ gOwner'[o] = gOwner[o]
      /\ asked[o] \subseteq asked'[o]
  BY Allocated
<1> QED
  BY <1>1, AnnouncedGrows DEF Admitted
-----------------------------------------------------------------------------
(* A thread that commits is sure of its own next announcement. *)
LEMMA CommitAnnounces ==
  ASSUME TypeOK, NEW c \in Conn, NEW op, Commits(c, op)
  PROVE  /\ arg[c].op = op
         /\ SyncMsg(c) \in Announced'
<1>1. pc'[c] = "sync" /\ SyncMsg(c)' = SyncMsg(c)
  BY DEF Commits, SyncMsg, TypeOK
<1> QED
  BY <1>1 DEF Announced, Commits

(* The map and the heap stay consistent. *)
LEMMA HeapStep ==
  ASSUME TypeOK, HeldByThreads, HeapConsistent, [Next]_vars
  PROVE  HeapConsistent'
<1> USE DEF TypeOK, HeapConsistent, groupVars, fileVars
<1>1. CASE UNCHANGED <<groupVars, fileVars>>
  BY <1>1
<1>2. ASSUME NEW c \in Conn, NEW op, Commits(c, op),
             op \in {"join_group", "leave_group", "accept_request",
                    "upload_file", "stop_share"}
      PROVE  gptr[c] \in GroupObj /\ gId[gptr[c]] # None
  <2>1. arg[c] \in Cmd /\ arg[c].g \in GroupId
    BY <1>2, ServedCommand, CmdFacts DEF Commits, Op
  <2> QED
    BY <1>2, <2>1, NoneAssumption DEF Commits, HeldByThreads, Holds
<1>3. ASSUME NEW c \in Conn, JoinGroupCommit(c) PROVE HeapConsistent'
  BY <1>2, <1>3 DEF JoinGroupCommit
<1>4. ASSUME NEW c \in Conn, LeaveGroupCommit(c) PROVE HeapConsistent'
  BY <1>2, <1>4 DEF LeaveGroupCommit
<1>5. ASSUME NEW c \in Conn, AcceptRequestCommit(c) PROVE HeapConsistent'
  BY <1>2, <1>5 DEF AcceptRequestCommit
<1>6. ASSUME NEW c \in Conn, UploadFileCommit(c) PROVE HeapConsistent'
  <2>1. gptr[c] \in GroupObj /\ gId[gptr[c]] # None
    BY <1>2, <1>6 DEF UploadFileCommit
  <2>2. clientName[c] \in User
    BY <1>6 DEF UploadFileCommit, Commits, HeldByThreads, Holds
  <2>3. PICK x \in FileObj :
           /\ fUploader[x] = None
           /\ fUploader' = [fUploader EXCEPT ![x] = clientName[c]]
           /\ gFiles' = [gFiles EXCEPT ![gptr[c]][arg[c].f] = x]
    BY <1>6 DEF UploadFileCommit
  <2> QED
    BY <1>6, <2>1, <2>2, <2>3, NoneAssumption DEF UploadFileCommit
<1>7. ASSUME NEW c \in Conn, StopShareCommit(c) PROVE HeapConsistent'
  BY <1>7 DEF StopShareCommit
<1>8. ASSUME NEW c \in Conn, PieceCompletedCommit(c) PROVE HeapConsistent'
  BY <1>8 DEF PieceCompletedCommit
<1>9. ASSUME NEW c \in Conn, NEW k \in Cmd, CreateGroup(c, k)
      PROVE  HeapConsistent'
  <2>1. k.g \in GroupId
    BY <1>9, CmdFacts DEF CreateGroup, CommitsAtOnce, Receives
  <2>2. k.g # None
    BY <2>1, NoneAssumption
  <2>3. PICK n \in GroupObj : /\ gId[n] = None
                            /\ gId' = [gId EXCEPT ![n] = k.g]
                            /\ groups' = [groups EXCEPT ![k.g] = n]
                            /\ gUsers' = [gUsers EXCEPT ![n] = {clientName[c]}]
    BY <1>9 DEF CreateGroup
  <2>4. UNCHANGED <<gRequests, asked, gFiles, fUploader>>
    BY <1>9 DEF CreateGroup
  <2>5. \A g \in GroupId : groups'[g] # None => gId'[groups'[g]] = g
    BY <2>1, <2>3, NoneAssumption
  <2>6. \A o \in GroupObj : gId'[o] = None => o # n /\ gId[o] = None
    BY <2>2, <2>3
  <2> QED
    BY <2>3, <2>4, <2>5, <2>6
<1> QED
  BY <1>1, <1>3, <1>4, <1>5, <1>6, <1>7, <1>8, <1>9, Writers

(* No step makes a member of someone who was not admitted. *)
LEMMA MembersStep ==
  ASSUME TypeOK, HeldByThreads, HeapConsistent, MembersAdmitted, [Next]_vars
  PROVE  MembersAdmitted'
<1> SUFFICES ASSUME NEW o \in GroupObj, NEW u \in gUsers'[o]
             PROVE  Admitted(o, u)'
  BY DEF MembersAdmitted
<1>1. CASE u \in gUsers[o]
  <2>1. gId[o] # None /\ Admitted(o, u)
    BY <1>1 DEF MembersAdmitted, HeapConsistent
  <2> QED
    BY <2>1, AdmittedStays
<1>2. CASE u \notin gUsers[o]
  <2> USE DEF TypeOK
  <2>1. ASSUME NEW c \in Conn, AcceptRequestCommit(c) PROVE Admitted(o, u)'
    <3>1. /\ o = gptr[c] /\ u = arg[c].u /\ u \in asked[o]
          /\ asked' = asked /\ gId' = gId
      BY <1>2, <2>1 DEF AcceptRequestCommit, HeapConsistent
    <3>2. arg[c].g = gId[o]
      BY <2>1, <3>1 DEF AcceptRequestCommit, Commits, HeldByThreads, Holds
    <3>3. SyncMsg(c) \in Announced' /\ arg[c].op = "accept_request"
      BY <2>1, CommitAnnounces DEF AcceptRequestCommit
    <3> QED
      BY <3>1, <3>2, <3>3 DEF Admitted, SyncMsg
  <2>2. ASSUME NEW c \in Conn, NEW k \in Cmd, CreateGroup(c, k)
        PROVE  Admitted(o, u)'
    BY <1>2, <2>2 DEF CreateGroup, Admitted
  <2>3. ~ UNCHANGED gUsers
    BY <1>2
  <2>4. ASSUME NEW c \in Conn, LeaveGroupCommit(c)
        PROVE  gUsers'[o] \subseteq gUsers[o]
    BY <2>4 DEF LeaveGroupCommit
  <2>5. ASSUME NEW c \in Conn,
               \/ JoinGroupCommit(c) \/ UploadFileCommit(c)
               \/ StopShareCommit(c) \/ PieceCompletedCommit(c)
        PROVE  UNCHANGED gUsers
    BY <2>5 DEF JoinGroupCommit, UploadFileCommit, StopShareCommit,
         PieceCompletedCommit, groupVars
  <2> QED
    BY <1>2, <2>1, <2>2, <2>3, <2>4, <2>5, Writers DEF groupVars
<1> QED
  BY <1>1, <1>2

(* A file is added to a list only by upload_file. *)
LEMMA FilesStep ==
  ASSUME TypeOK, HeldByThreads, [Next]_vars, NEW o \in GroupObj,
         NEW f \in FileName, gFiles'[o][f] \notin {gFiles[o][f], None}
  PROVE  \E c \in Conn :
            /\ UploadFileCommit(c)
            /\ o = gptr[c] /\ f = arg[c].f
            /\ gId' = gId /\ gId[o] = arg[c].g
            /\ clientName[c] \in seen[c]
            /\ fUploader[gFiles'[o][f]] = None
            /\ fUploader'[gFiles'[o][f]] = clientName[c]
<1> USE DEF TypeOK
<1>1. ASSUME NEW c \in Conn, UploadFileCommit(c)
      PROVE  /\ o = gptr[c] /\ f = arg[c].f
             /\ gId' = gId /\ gId[o] = arg[c].g
             /\ clientName[c] \in seen[c]
             /\ fUploader[gFiles'[o][f]] = None
             /\ fUploader'[gFiles'[o][f]] = clientName[c]
  <2>1. PICK x \in FileObj :
           /\ fUploader[x] = None
           /\ fUploader' = [fUploader EXCEPT ![x] = clientName[c]]
           /\ gFiles' = [gFiles EXCEPT ![gptr[c]][arg[c].f] = x]
    BY <1>1 DEF UploadFileCommit
  <2>2. o = gptr[c] /\ f = arg[c].f /\ gFiles'[o][f] = x
    BY <2>1
  <2>3. gId' = gId /\ gId[o] = arg[c].g /\ clientName[c] \in seen[c]
    BY <1>1, <2>2
       DEF UploadFileCommit, Commits, HeldByThreads, Holds, groupVars
  <2> QED
    BY <2>1, <2>2, <2>3
<1>2. ASSUME NEW c \in Conn, StopShareCommit(c) PROVE FALSE
  BY <1>2 DEF StopShareCommit
<1>3. ASSUME NEW c \in Conn,
             \/ JoinGroupCommit(c) \/ LeaveGroupCommit(c)
             \/ AcceptRequestCommit(c) \/ PieceCompletedCommit(c)
             \/ \E k \in Cmd : CreateGroup(c, k)
      PROVE  UNCHANGED gFiles
  BY <1>3 DEF JoinGroupCommit, LeaveGroupCommit, AcceptRequestCommit,
       PieceCompletedCommit, CreateGroup, fileVars
<1> QED
  BY <1>1, <1>2, <1>3, Writers DEF fileVars
-----------------------------------------------------------------------------
(* Pushing onto a list adds one element. *)
LEMMA RangeOfAppend ==
  ASSUME NEW S, NEW s \in Seq(S), NEW e \in S
  PROVE  SeqRange(Append(s, e)) = SeqRange(s) \cup {e}
<1>1. /\ DOMAIN Append(s, e) = 1..(Len(s) + 1)
      /\ DOMAIN s = 1..Len(s)
      /\ \A n \in 1..Len(s) : Append(s, e)[n] = s[n]
      /\ Append(s, e)[Len(s) + 1] = e
      /\ Len(s) \in Nat
  OBVIOUS
<1>2. 1..(Len(s) + 1) = 1..Len(s) \cup {Len(s) + 1}
  BY <1>1
<1> QED
  BY <1>1, <1>2 DEF SeqRange

(* How seeder lists change: a new object, or one client pushed on one list. *)
LEMMA SeederSteps ==
  ASSUME TypeOK, HeldByThreads, [Next]_vars
  PROVE  \/ UNCHANGED fSeeders
         \/ \E c \in Conn, x \in FileObj :
               /\ fUploader[x] = None
               /\ fSeeders' = [fSeeders EXCEPT ![x] = [i \in Piece |-> <<c>>]]
         \/ \E c \in Conn, x \in FileObj, i \in Piece :
               /\ pc'[c] = "sync"
               /\ c \notin SeqRange(fSeeders[x][i])
               /\ fSeeders' = [fSeeders EXCEPT ![x][i] = Append(@, c)]
<1>1. ASSUME NEW c \in Conn, PieceCompletedCommit(c)
      PROVE  /\ pc'[c] = "sync"
             /\ fptr[c] \in FileObj /\ arg[c].i \in Piece
             /\ c \notin SeqRange(fSeeders[fptr[c]][arg[c].i])
             /\ fSeeders' = [fSeeders EXCEPT ![fptr[c]][arg[c].i] = Append(@, c)]
  BY <1>1 DEF PieceCompletedCommit, Commits, HeldByThreads, Holds, TypeOK
<1>2. ASSUME NEW c \in Conn,
             \/ JoinGroupCommit(c) \/ LeaveGroupCommit(c)
             \/ AcceptRequestCommit(c) \/ StopShareCommit(c)
             \/ \E k \in Cmd : CreateGroup(c, k)
      PROVE  UNCHANGED fSeeders
  BY <1>2 DEF JoinGroupCommit, LeaveGroupCommit, AcceptRequestCommit,
       StopShareCommit, CreateGroup, fileVars
<1>3. ASSUME NEW c \in Conn, UploadFileCommit(c)
      PROVE  \E x \in FileObj :
               /\ fUploader[x] = None
               /\ fSeeders' = [fSeeders EXCEPT ![x] = [i \in Piece |-> <<c>>]]
  BY <1>3 DEF UploadFileCommit
<1> QED
  BY <1>1, <1>2, <1>3, Writers DEF fileVars

(* What a thread holds stays good while others run. *)
LEMMA StillHolds ==
  ASSUME TypeOK, HeldByThreads, HeapConsistent, [Next]_vars, NEW d \in Conn,
         pc[d] = "commit", pc'[d] = "commit",
         arg'[d] = arg[d], clientName'[d] = clientName[d],
         gptr'[d] = gptr[d], fptr'[d] = fptr[d], seen'[d] = seen[d]
  PROVE  Holds(d)'
<1> DEFINE op == arg[d].op
<1>1. Holds(d)
  BY DEF HeldByThreads
<1>2. ASSUME op \in {"join_group", "leave_group", "accept_request",
                    "upload_file", "stop_share"}
      PROVE  gId[gptr[d]] # None /\ gId'[gptr[d]] = arg[d].g
  <2>1. arg[d] \in Cmd /\ arg[d].g \in GroupId
    BY <1>2, ServedCommand, CmdFacts DEF Op
  <2>2. gId[gptr[d]] # None
    BY <1>1, <1>2, <2>1, NoneAssumption DEF Holds
  <2> QED
    BY <1>1, <1>2, <2>2, Allocated DEF Holds
<1>3. ASSUME op = "piece_completed",
             NEW o \in GroupObj, NEW f \in FileName, gFiles'[o][f] = fptr[d]
      PROVE  gId'[o] = arg[d].g /\ f = arg[d].f
  <2>1. fptr[d] \in FileObj /\ fUploader[fptr[d]] # None
    BY <1>1, <1>3 DEF Holds
  <2>2. fptr[d] # None
    BY <2>1, NoneAssumption
  <2>3. gFiles[o][f] = fptr[d]
    BY <1>3, <2>1, <2>2, FilesStep
  <2>4. gId[o] = arg[d].g /\ f = arg[d].f
    BY <1>1, <1>3, <2>3 DEF Holds
  <2>5. gId[o] # None
    BY <2>2, <2>3 DEF HeapConsistent
  <2> QED
    BY <2>4, <2>5, Allocated
<1>4. ASSUME op = "piece_completed"
      PROVE  /\ fUploader'[fptr[d]] # None
             /\ d \notin SeqRange(fSeeders'[fptr[d]][arg[d].i])
  <2>1. /\ fptr[d] \in FileObj /\ fUploader[fptr[d]] # None
        /\ arg[d].i \in Piece
        /\ d \notin SeqRange(fSeeders[fptr[d]][arg[d].i])
    BY <1>1, <1>4 DEF Holds
  <2>2. ASSUME NEW c \in Conn, NEW x \in FileObj, NEW i \in Piece,
               pc'[c] = "sync",
               fSeeders' = [fSeeders EXCEPT ![x][i] = Append(@, c)]
        PROVE  d \notin SeqRange(fSeeders'[fptr[d]][arg[d].i])
    <3>1. SeqRange(Append(fSeeders[x][i], c)) = SeqRange(fSeeders[x][i]) \cup {c}
      BY RangeOfAppend DEF TypeOK
    <3>2. CASE x = fptr[d] /\ i = arg[d].i
      BY <2>1, <2>2, <3>1, <3>2 DEF TypeOK
    <3>3. CASE ~(x = fptr[d] /\ i = arg[d].i)
      BY <2>1, <2>2, <3>3 DEF TypeOK
    <3> QED
      BY <3>2, <3>3
  <2>3. ASSUME NEW c \in Conn, NEW x \in FileObj, fUploader[x] = None,
               fSeeders' = [fSeeders EXCEPT ![x] = [i \in Piece |-> <<c>>]]
        PROVE  d \notin SeqRange(fSeeders'[fptr[d]][arg[d].i])
    BY <2>1, <2>3 DEF TypeOK
  <2>4. fUploader'[fptr[d]] # None
    BY <2>1, Allocated
  <2> QED
    BY <2>1, <2>2, <2>3, <2>4, SeederSteps
<1> QED
  BY <1>1, <1>2, <1>3, <1>4 DEF Holds
(* A thread that has just passed its checks holds what they established. *)
LEMMA ChecksEstablish ==
  ASSUME TypeOK, HeapConsistent, MembersAdmitted, [Next]_vars,
         NEW c \in Conn, NEW k \in Cmd,
         \/ CreateUser(c, k) \/ JoinGroup(c, k) \/ LeaveGroup(c, k)
         \/ AcceptRequest(c, k) \/ UploadFile(c, k) \/ StopShare(c, k)
         \/ PieceCompleted(c, k)
  PROVE  Holds(c)'
<1> USE DEF TypeOK
<1>1. ASSUME NEW o, NEW x, Begin(c, k, o, x)
      PROVE  /\ arg'[c] = k /\ gptr'[c] = o /\ fptr'[c] = x
             /\ UNCHANGED <<gId, fUploader, fSeeders, clientName>>
  BY <1>1 DEF Begin, groupVars, fileVars
<1>2. ASSUME NEW x, Begin(c, k, groups[k.g], x), groups[k.g] # None,
             k.g \in GroupId
      PROVE  gptr'[c] \in GroupObj /\ gId'[gptr'[c]] = k.g
  BY <1>1, <1>2 DEF HeapConsistent
<1>3. CASE CreateUser(c, k)
  BY <1>1, <1>3 DEF CreateUser, Receives, Holds
<1>4. CASE JoinGroup(c, k)
  BY <1>1, <1>2, <1>4, CmdFacts DEF JoinGroup, Receives, Holds
<1>5. CASE LeaveGroup(c, k)
  BY <1>1, <1>2, <1>5, CmdFacts DEF LeaveGroup, Receives, Holds
<1>6. CASE AcceptRequest(c, k)
  BY <1>1, <1>2, <1>6, CmdFacts DEF AcceptRequest, Receives, Holds
<1>7. CASE StopShare(c, k)
  BY <1>1, <1>2, <1>7, CmdFacts DEF StopShare, Receives, Holds
<1>8. CASE UploadFile(c, k)
  <2>1. /\ k.op = "upload_file" /\ k.g \in GroupId
        /\ groups[k.g] \in GroupObj /\ groups[k.g] # None
        /\ clientName[c] \in gUsers[groups[k.g]] /\ clientName[c] \in User
        /\ Begin(c, k, groups[k.g], None)
    BY <1>8, CmdFacts DEF UploadFile, Receives
  <2>2. seen'[c] = gUsers[groups[k.g]]
    BY <2>1, NoneAssumption DEF Begin
  <2> QED
    BY <1>1, <1>2, <2>1, <2>2 DEF Holds
<1>9. CASE PieceCompleted(c, k)
  <2>1. /\ k.op = "piece_completed" /\ k.g \in GroupId /\ k.f \in FileName
        /\ groups[k.g] \in GroupObj
        /\ gFiles[groups[k.g]][k.f] # None
        /\ k.i \in Piece
        /\ c \notin SeqRange(fSeeders[gFiles[groups[k.g]][k.f]][k.i])
        /\ Begin(c, k, None, gFiles[groups[k.g]][k.f])
    BY <1>9, CmdFacts DEF PieceCompleted, Receives
  <2>2. /\ gFiles[groups[k.g]][k.f] \in FileObj
        /\ fUploader[gFiles[groups[k.g]][k.f]] # None
    BY <2>1 DEF HeapConsistent
  <2>3. ASSUME NEW o \in GroupObj, NEW f \in FileName,
               gFiles[o][f] = gFiles[groups[k.g]][k.f]
        PROVE  gId[o] = k.g /\ f = k.f
    <3>1. o = groups[k.g] /\ f = k.f
      BY <2>1, <2>3 DEF HeapConsistent
    <3>2. \A g \in GroupId : groups[g] # None => gId[groups[g]] = g
      BY DEF HeapConsistent
    <3>3. groups[k.g] # None
      BY <1>9 DEF PieceCompleted
    <3> QED
      BY <2>1, <3>1, <3>2, <3>3
  <2>4. gFiles' = gFiles
    BY <2>1 DEF Begin, fileVars
  <2> QED
    BY <1>1, <2>1, <2>2, <2>3, <2>4 DEF Holds
<1> QED
  BY <1>3, <1>4, <1>5, <1>6, <1>7, <1>8, <1>9

(* Every thread about to write keeps hold of what its write relies on. *)
LEMMA HeldStep ==
  ASSUME TypeOK, HeldByThreads, HeapConsistent, MembersAdmitted, [Next]_vars
  PROVE  HeldByThreads'
<1> SUFFICES ASSUME NEW d \in Conn, pc'[d] = "commit" PROVE Holds(d)'
  BY DEF HeldByThreads
<1> DEFINE Same == /\ pc[d] = "commit"
                   /\ arg'[d] = arg[d] /\ clientName'[d] = clientName[d]
                   /\ gptr'[d] = gptr[d] /\ fptr'[d] = fptr[d]
                   /\ seen'[d] = seen[d]
<1>1. CASE UNCHANGED vars
  <2>1. Same
    BY <1>1 DEF vars, threadVars
  <2> QED
    BY <2>1, StillHolds
<1>2. ASSUME NEW c \in Conn,
             \/ Accept(c) \/ Disconnect(c) \/ Sync(c)
             \/ \E k \in Cmd : \/ Login(c, k) \/ CreateGroup(c, k)
                              \/ UnknownGroup(c, k)
      PROVE  Same
  BY <1>2 DEF Accept, Disconnect, Sync, Login, CreateGroup, UnknownGroup,
       CommitsAtOnce, threadVars, TypeOK
<1>3. ASSUME NEW c \in Conn, NEW op, Commits(c, op) PROVE Same
  BY <1>3 DEF Commits, TypeOK
<1>4. ASSUME NEW c \in Conn,
             \/ CreateUserCommit(c) \/ JoinGroupCommit(c)
             \/ LeaveGroupCommit(c) \/ AcceptRequestCommit(c)
             \/ UploadFileCommit(c) \/ StopShareCommit(c)
             \/ PieceCompletedCommit(c)
      PROVE  Same
  BY <1>3, <1>4 DEF CreateUserCommit, JoinGroupCommit, LeaveGroupCommit,
       AcceptRequestCommit, UploadFileCommit, StopShareCommit,
       PieceCompletedCommit
<1>5. ASSUME NEW c \in Conn, NEW k, NEW o, NEW x, c # d, Begin(c, k, o, x)
      PROVE  Same
  BY <1>5 DEF Begin, TypeOK
<1>6. ASSUME NEW c \in Conn, NEW k \in Cmd,
             \/ CreateUser(c, k) \/ JoinGroup(c, k) \/ LeaveGroup(c, k)
             \/ AcceptRequest(c, k) \/ UploadFile(c, k) \/ StopShare(c, k)
             \/ PieceCompleted(c, k)
      PROVE  Holds(d)'
  <2>1. CASE c = d
    BY <1>6, <2>1, ChecksEstablish
  <2>2. CASE c # d
    <3>1. Same
      BY <1>5, <1>6, <2>2 DEF CreateUser, JoinGroup, LeaveGroup,
           AcceptRequest, UploadFile, StopShare, PieceCompleted
    <3> QED
      BY <3>1, StillHolds
  <2> QED
    BY <2>1, <2>2
<1> QED
  BY <1>1, <1>2, <1>4, <1>6, StillHolds DEF Next

-----------------------------------------------------------------------------
(* Inv holds from the start and is kept by every step. *)
LEMMA InitInv == Init => Inv
  BY NoneAssumption DEF Init, Inv, TypeOK, HeldByThreads, HeapConsistent,
       MembersAdmitted

LEMMA StepInv == Inv /\ [Next]_vars => Inv'
  BY TypeStep, HeldStep, HeapStep, MembersStep DEF Inv

THEOREM Invariance == Spec => []Inv
  BY InitInv, StepInv, PTL DEF Spec

(* The variables keep their types: no thread ever writes through a pointer   *)
(* or a name its handler has not set.                                        *)
THEOREM TypeCorrect == Spec => []TypeOK
<1>1. Inv => TypeOK
  BY DEF Inv
<1> QED
  BY <1>1, Invariance, PTL

(* Whatever the number of threads and however accept_request, join_group,    *)
(* leave_group and create_group interleave, a member of a group object owns  *)
(* it or asked to join it and had the acceptance announced.                  *)
THEOREM MembersWereAdmitted == Spec => []MembersAdmitted
<1>1. Inv => MembersAdmitted
  BY DEF Inv
<1> QED
  BY <1>1, Invariance, PTL

(* A file enters a group's list only for a user whom the handler found among *)
(* the members of that very group object, although upload_file checks        *)
(* membership and adds the file in two steps.                                *)
THEOREM FilesComeFromMembers == Spec => FilesOfMembers
<1> DEFINE A == \A o \in GroupObj : \A f \in FileName :
                   gFiles'[o][f] \notin {gFiles[o][f], None} =>
                      \E c \in Conn :
                         /\ pc[c] = "commit"
                         /\ gptr[c] = o
                         /\ clientName[c] \in seen[c]
                         /\ fUploader'[gFiles'[o][f]] = clientName[c]
<1>1. Inv /\ [Next]_vars => [A]_vars
  BY FilesStep DEF Inv, UploadFileCommit, Commits
<1> QED
  BY <1>1, Invariance, PTL DEF Spec, FilesOfMembers

(* The seeders of a piece stay distinct: only the thread of a client pushes  *)
(* that client, so the scan it made before cannot be outdated by others.     *)
THEOREM SeedersStayDistinct == Spec => []SeedersDistinct
<1>1. Init => SeedersDistinct
  BY DEF Init, SeedersDistinct
<1>2. Inv /\ SeedersDistinct /\ [Next]_vars => SeedersDistinct'
  <2> SUFFICES ASSUME Inv, SeedersDistinct, [Next]_vars,
                      NEW y \in FileObj, NEW j \in Piece,
                      NEW m \in DOMAIN fSeeders'[y][j],
                      NEW n \in DOMAIN fSeeders'[y][j],
                      fSeeders'[y][j][m] = fSeeders'[y][j][n]
               PROVE  m = n
    BY DEF SeedersDistinct
  <2>1. TypeOK /\ HeldByThreads
    BY DEF Inv
  <2>2. CASE fSeeders'[y][j] = fSeeders[y][j]
    BY <2>2 DEF SeedersDistinct
  <2>3. ASSUME NEW c \in Conn, NEW x \in FileObj, fUploader[x] = None,
               fSeeders' = [fSeeders EXCEPT ![x] = [i \in Piece |-> <<c>>]]
        PROVE  fSeeders'[y][j] = fSeeders[y][j] \/ fSeeders'[y][j] = <<c>>
    BY <2>1, <2>3 DEF TypeOK
  <2>4. ASSUME NEW c \in Conn, NEW x \in FileObj, NEW i \in Piece,
               c \notin SeqRange(fSeeders[x][i]),
               fSeeders' = [fSeeders EXCEPT ![x][i] = Append(@, c)]
        PROVE  \/ fSeeders'[y][j] = fSeeders[y][j]
               \/ /\ fSeeders'[y][j] = Append(fSeeders[y][j], c)
                  /\ c \notin SeqRange(fSeeders[y][j])
    BY <2>1, <2>4 DEF TypeOK
  <2>5. ASSUME NEW c \in Conn, fSeeders'[y][j] = Append(fSeeders[y][j], c),
               c \notin SeqRange(fSeeders[y][j])
        PROVE  m = n
    <3>1. fSeeders[y][j] \in Seq(Conn)
      BY <2>1 DEF TypeOK
    <3> QED
      BY <2>5, <3>1 DEF SeedersDistinct, SeqRange
  <2>6. ASSUME NEW c \in Conn, fSeeders'[y][j] = <<c>> PROVE m = n
    BY <2>6
  <2> QED
    BY <2>1, <2>2, <2>3, <2>4, <2>5, <2>6, SeederSteps
<1> QED
  BY <1>1, <1>2, Invariance, PTL DEF Spec
-----------------------------------------------------------------------------
(* Changes and messages. *)

(* A thread that has just written is bound to send what its command says. *)
LEMMA CommitDue ==
  ASSUME TypeOK, NEW c \in Conn, NEW op, Commits(c, op)
  PROVE  arg[c].op = op /\ SyncMsg(c) \in Due
<1>1. /\ pc[c] # "sync" /\ pc'[c] = "sync"
      /\ SyncMsg(c)' = SyncMsg(c)
  BY DEF Commits, SyncMsg, TypeOK
<1>2. SyncMsg(c)' \in Due
  BY <1>1 DEF Due
<1> QED
  BY <1>1, <1>2 DEF Commits

LEMMA AtOnceDue ==
  ASSUME TypeOK, NEW c \in Conn, NEW k, NEW op, CommitsAtOnce(c, k, op),
         clientName' = clientName, op # "create_user"
  PROVE  \E m \in Due : m.cmd = k /\ m.by = clientName[c]
<1>1. /\ pc[c] # "sync" /\ pc'[c] = "sync" /\ k.op = op
      /\ arg'[c] = k /\ clientName'[c] = clientName[c]
  BY DEF CommitsAtOnce, Receives, TypeOK
<1>2. SyncMsg(c)' \in Due
  BY <1>1 DEF Due
<1>3. SyncMsg(c)'.cmd = k /\ SyncMsg(c)'.by = clientName[c]
  BY <1>1 DEF SyncMsg
<1> QED
  BY <1>2, <1>3

(* The accounts change only where create_user writes. *)
LEMMA UsersStep ==
  ASSUME TypeOK, [Next]_vars
  PROVE  UsersTold
<1> SUFFICES ASSUME NEW u \in User, users'[u] # users[u]
             PROVE  \E m \in Due : /\ m.cmd.op = "create_user"
                                  /\ m.cmd.u = u /\ m.cmd.p = users'[u]
  BY DEF UsersTold
<1>1. ASSUME NEW c \in Conn, CreateUserCommit(c)
      PROVE  \E m \in Due : /\ m.cmd.op = "create_user"
                            /\ m.cmd.u = u /\ m.cmd.p = users'[u]
  <2>1. SyncMsg(c) \in Due /\ arg[c].op = "create_user"
    BY <1>1, CommitDue DEF CreateUserCommit
  <2>2. u = arg[c].u /\ users'[u] = arg[c].p
    BY <1>1 DEF CreateUserCommit, TypeOK
  <2> QED
    BY <2>1, <2>2 DEF SyncMsg
<1>2. ASSUME NEW c \in Conn,
             \/ Accept(c) \/ Disconnect(c) \/ Sync(c) \/ JoinGroupCommit(c)
             \/ LeaveGroupCommit(c) \/ AcceptRequestCommit(c)
             \/ UploadFileCommit(c) \/ StopShareCommit(c)
             \/ PieceCompletedCommit(c)
      PROVE  UNCHANGED users
  BY <1>2 DEF Accept, Disconnect, Sync, JoinGroupCommit, LeaveGroupCommit,
       AcceptRequestCommit, UploadFileCommit, StopShareCommit,
       PieceCompletedCommit, accounts
<1>3. ASSUME NEW c \in Conn, NEW k \in Cmd,
             \/ CreateUser(c, k) \/ Login(c, k) \/ CreateGroup(c, k)
             \/ JoinGroup(c, k) \/ LeaveGroup(c, k) \/ UnknownGroup(c, k)
             \/ AcceptRequest(c, k) \/ UploadFile(c, k) \/ StopShare(c, k)
             \/ PieceCompleted(c, k)
      PROVE  UNCHANGED users
  BY <1>3 DEF CreateUser, Login, CreateGroup, JoinGroup, LeaveGroup,
       UnknownGroup, AcceptRequest, UploadFile, StopShare, PieceCompleted,
       Begin, accounts
<1> QED
  BY <1>1, <1>2, <1>3 DEF Next, vars, accounts

(* What the writes through a Group pointer change, and what they owe. *)
LEMMA GroupSteps ==
  ASSUME TypeOK, HeldByThreads, HeapConsistent, [Next]_vars
  PROVE  /\ GroupsTold
         /\ RequestsTold
         /\ MembersTold
<1> USE DEF TypeOK
<1> DEFINE Told == GroupsTold /\ RequestsTold /\ MembersTold
<1>0. ASSUME UNCHANGED <<gId, gUsers, gRequests>> PROVE Told
  BY <1>0 DEF GroupsTold, RequestsTold, MembersTold
<1>1. ASSUME NEW c \in Conn, NEW op, Commits(c, op),
             op \in {"join_group", "leave_group", "accept_request"}
      PROVE  /\ gptr[c] \in GroupObj /\ gId[gptr[c]] = arg[c].g
             /\ SyncMsg(c) \in Due /\ SyncMsg(c).cmd = arg[c]
             /\ SyncMsg(c).by = clientName[c] /\ arg[c].op = op
  BY <1>1, CommitDue DEF Commits, HeldByThreads, Holds, SyncMsg
<1>2. ASSUME NEW c \in Conn, JoinGroupCommit(c) PROVE Told
  <2>1. /\ gRequests' = [gRequests EXCEPT ![gptr[c]] = @ \cup {clientName[c]}]
        /\ UNCHANGED <<gId, gUsers>>
    BY <1>2 DEF JoinGroupCommit
  <2>2. RequestsTold
    <3> SUFFICES ASSUME NEW o \in GroupObj,
                        NEW u \in gRequests'[o] \ gRequests[o]
                 PROVE  \E m \in Due : /\ m.cmd.op = "join_group"
                                      /\ m.cmd.g = gId[o] /\ m.by = u
      BY DEF RequestsTold
    <3>1. o = gptr[c] /\ u = clientName[c]
      BY <2>1
    <3>2. Commits(c, "join_group")
      BY <1>2 DEF JoinGroupCommit
    <3>3. /\ gId[gptr[c]] = arg[c].g /\ arg[c].op = "join_group"
          /\ SyncMsg(c) \in Due /\ SyncMsg(c).cmd = arg[c]
          /\ SyncMsg(c).by = clientName[c]
      BY <1>1, <3>2
    <3> QED
      BY <3>1, <3>3
  <2> QED
    BY <2>1, <2>2 DEF GroupsTold, MembersTold
<1>3. ASSUME NEW c \in Conn, LeaveGroupCommit(c) PROVE Told
  <2>1. /\ gUsers' = [gUsers EXCEPT ![gptr[c]] = @ \ {clientName[c]}]
        /\ UNCHANGED <<gId, gRequests>>
    BY <1>3 DEF LeaveGroupCommit
  <2>2. \A o \in GroupObj : gUsers'[o] \subseteq gUsers[o]
    BY <2>1
  <2>3. ASSUME NEW o \in GroupObj, NEW u \in gUsers[o] \ gUsers'[o]
        PROVE  \E m \in Due : /\ m.cmd.op = "leave_group"
                              /\ m.cmd.g = gId[o] /\ m.by = u
    <3>1. o = gptr[c] /\ u = clientName[c]
      BY <2>1, <2>3
    <3>2. Commits(c, "leave_group")
      BY <1>3 DEF LeaveGroupCommit
    <3>3. /\ gId[gptr[c]] = arg[c].g /\ arg[c].op = "leave_group"
          /\ SyncMsg(c) \in Due /\ SyncMsg(c).cmd = arg[c]
          /\ SyncMsg(c).by = clientName[c]
      BY <1>1, <3>2
    <3> QED
      BY <3>1, <3>3
  <2>4. MembersTold
    BY <2>2, <2>3 DEF MembersTold
  <2> QED
    BY <2>1, <2>4 DEF GroupsTold, RequestsTold
<1>4. ASSUME NEW c \in Conn, AcceptRequestCommit(c) PROVE Told
  <2> DEFINE granted == gRequests[gptr[c]] \cap {arg[c].u}
  <2>1. /\ gUsers' = [gUsers EXCEPT ![gptr[c]] = @ \cup granted]
        /\ gRequests' = [gRequests EXCEPT ![gptr[c]] = @ \ granted]
        /\ UNCHANGED gId
    BY <1>4 DEF AcceptRequestCommit
  <2>2. \A o \in GroupObj : gUsers[o] \subseteq gUsers'[o]
    BY <2>1
  <2>3. ASSUME NEW o \in GroupObj, NEW u \in gUsers'[o] \ gUsers[o]
        PROVE  \E m \in Due : /\ m.cmd.op = "accept_request"
                              /\ m.cmd.g = gId[o] /\ m.cmd.u = u
    <3>1. o = gptr[c] /\ u = arg[c].u
      BY <2>1, <2>3
    <3>2. Commits(c, "accept_request")
      BY <1>4 DEF AcceptRequestCommit
    <3>3. /\ gId[gptr[c]] = arg[c].g /\ arg[c].op = "accept_request"
          /\ SyncMsg(c) \in Due /\ SyncMsg(c).cmd = arg[c]
          /\ SyncMsg(c).by = clientName[c]
      BY <1>1, <3>2
    <3> QED
      BY <3>1, <3>3
  <2>4. MembersTold
    BY <2>2, <2>3 DEF MembersTold
  <2>5. RequestsTold
    BY <2>1 DEF RequestsTold
  <2> QED
    BY <2>1, <2>4, <2>5 DEF GroupsTold
<1>5. ASSUME NEW c \in Conn, NEW k \in Cmd, CreateGroup(c, k) PROVE Told
  <2>1. PICK o \in GroupObj :
           /\ gId[o] = None
           /\ gId' = [gId EXCEPT ![o] = k.g]
           /\ gOwner' = [gOwner EXCEPT ![o] = clientName[c]]
           /\ gUsers' = [gUsers EXCEPT ![o] = {clientName[c]}]
    BY <1>5 DEF CreateGroup
  <2>2. gRequests' = gRequests
    BY <1>5 DEF CreateGroup
  <2>3. k.op = "create_group" /\ CommitsAtOnce(c, k, "create_group")
        /\ clientName' = clientName
    BY <1>5 DEF CreateGroup, CommitsAtOnce, Receives
  <2>4. PICK m \in Due : m.cmd = k /\ m.by = clientName[c]
    BY <2>3, AtOnceDue
  <2>5. GroupsTold
    BY <2>1, <2>3, <2>4 DEF GroupsTold
  <2>6. RequestsTold
    BY <2>2 DEF RequestsTold
  <2>7. MembersTold
    BY <2>1 DEF MembersTold
  <2> QED
    BY <2>5, <2>6, <2>7
<1>6. ASSUME NEW c \in Conn,
             \/ UploadFileCommit(c) \/ StopShareCommit(c)
             \/ PieceCompletedCommit(c)
      PROVE  UNCHANGED <<gId, gUsers, gRequests>>
  BY <1>6 DEF UploadFileCommit, StopShareCommit, PieceCompletedCommit,
       groupVars
<1> QED
  BY <1>0, <1>2, <1>3, <1>4, <1>5, <1>6, Writers DEF groupVars

(* A file appears in a list or goes where upload_file or stop_share says. *)
LEMMA ListingsStep ==
  ASSUME TypeOK, HeldByThreads, [Next]_vars
  PROVE  ListingsTold
<1> SUFFICES ASSUME NEW o \in GroupObj, NEW f \in FileName,
                    gFiles'[o][f] # gFiles[o][f]
             PROVE  \E m \in Due :
                       /\ m.cmd.g = gId[o] /\ m.cmd.f = f
                       /\ IF gFiles'[o][f] = None
                          THEN m.cmd.op = "stop_share"
                          ELSE /\ m.cmd.op = "upload_file"
                               /\ m.by = fUploader'[gFiles'[o][f]]
  BY DEF ListingsTold
<1>1. CASE gFiles'[o][f] # None
  <2>1. PICK c \in Conn : /\ UploadFileCommit(c)
                          /\ o = gptr[c] /\ f = arg[c].f /\ gId[o] = arg[c].g
                          /\ fUploader'[gFiles'[o][f]] = clientName[c]
    BY <1>1, FilesStep
  <2>2. SyncMsg(c) \in Due /\ arg[c].op = "upload_file"
    BY <2>1, CommitDue DEF UploadFileCommit
  <2> QED
    BY <1>1, <2>1, <2>2 DEF SyncMsg
<1>2. CASE gFiles'[o][f] = None
  <2>1. ASSUME NEW c \in Conn, StopShareCommit(c)
        PROVE  \E m \in Due : /\ m.cmd.g = gId[o] /\ m.cmd.f = f
                              /\ m.cmd.op = "stop_share"
    <3>1. gptr[c] = o /\ arg[c].f = f
      BY <2>1 DEF StopShareCommit, TypeOK
    <3>2. SyncMsg(c) \in Due /\ arg[c].op = "stop_share"
      BY <2>1, CommitDue DEF StopShareCommit
    <3>3. gId[o] = arg[c].g
      BY <2>1, <3>1, <3>2 DEF StopShareCommit, Commits, HeldByThreads, Holds
    <3> QED
      BY <3>1, <3>2, <3>3 DEF SyncMsg
  <2>2. ASSUME NEW c \in Conn, UploadFileCommit(c) PROVE FALSE
    <3>1. PICK x \in FileObj : gFiles' = [gFiles EXCEPT ![gptr[c]][arg[c].f] = x]
      BY <2>2 DEF UploadFileCommit
    <3> QED
      BY <1>2, <3>1, NoneAssumption DEF TypeOK
  <2>3. ASSUME NEW c \in Conn,
               \/ JoinGroupCommit(c) \/ LeaveGroupCommit(c)
               \/ AcceptRequestCommit(c) \/ PieceCompletedCommit(c)
               \/ \E k \in Cmd : CreateGroup(c, k)
        PROVE  UNCHANGED gFiles
    BY <2>3 DEF JoinGroupCommit, LeaveGroupCommit, AcceptRequestCommit,
         PieceCompletedCommit, CreateGroup, fileVars
  <2> QED
    BY <1>2, <2>1, <2>2, <2>3, Writers DEF fileVars
<1> QED
  BY <1>1, <1>2

(* A client joins the seeders of a listed piece where it uploads the file or *)
(* reports that piece of it.                                                 *)
LEMMA SeedersStep ==
  ASSUME TypeOK, HeldByThreads, HeapConsistent, [Next]_vars
  PROVE  SeedersTold
<1> SUFFICES ASSUME NEW o \in GroupObj, NEW f \in FileName,
                    gFiles'[o][f] # None, NEW i \in Piece,
                    NEW s \in SeqRange(fSeeders'[gFiles'[o][f]][i]),
                    s \notin SeqRange(fSeeders[gFiles'[o][f]][i])
             PROVE  \E m \in Due : /\ m.cmd.g = gId[o] /\ m.cmd.f = f
                                  /\ m.at = s
                                  /\ \/ m.cmd.op = "upload_file"
                                     \/ /\ m.cmd.op = "piece_completed"
                                        /\ m.cmd.i = i
  BY DEF SeedersTold
<1> DEFINE x == gFiles'[o][f]
<1>1. ASSUME NEW c \in Conn, UploadFileCommit(c)
      PROVE  \E m \in Due : /\ m.cmd.g = gId[o] /\ m.cmd.f = f /\ m.at = s
                            /\ m.cmd.op = "upload_file"
  <2>1. PICK y \in FileObj :
           /\ fUploader[y] = None
           /\ fSeeders' = [fSeeders EXCEPT ![y] = [j \in Piece |-> <<c>>]]
           /\ gFiles' = [gFiles EXCEPT ![gptr[c]][arg[c].f] = y]
    BY <1>1 DEF UploadFileCommit
  <2>2. x = y /\ fSeeders'[x][i] = <<c>>
    BY <2>1 DEF TypeOK
  <2>3. s = c
    BY <2>2 DEF SeqRange
  <2>4. gFiles[o][f] # y
    BY <2>1, NoneAssumption DEF HeapConsistent, TypeOK
  <2>5. o = gptr[c] /\ f = arg[c].f
    BY <2>1, <2>2, <2>4 DEF TypeOK
  <2>6. SyncMsg(c) \in Due /\ arg[c].op = "upload_file"
    BY <1>1, CommitDue DEF UploadFileCommit
  <2>7. gId[o] = arg[c].g
    BY <1>1, <2>5, <2>6 DEF UploadFileCommit, Commits, HeldByThreads, Holds
  <2> QED
    BY <2>3, <2>5, <2>6, <2>7 DEF SyncMsg
<1>2. ASSUME NEW c \in Conn, PieceCompletedCommit(c)
      PROVE  \E m \in Due : /\ m.cmd.g = gId[o] /\ m.cmd.f = f /\ m.at = s
                            /\ m.cmd.op = "piece_completed" /\ m.cmd.i = i
  <2>1. /\ fSeeders' = [fSeeders EXCEPT ![fptr[c]][arg[c].i] = Append(@, c)]
        /\ fptr[c] \in FileObj /\ arg[c].i \in Piece
        /\ gFiles' = gFiles
    BY <1>2 DEF PieceCompletedCommit, Commits, HeldByThreads, Holds
  <2>2. /\ x = fptr[c] /\ i = arg[c].i
        /\ fSeeders'[x][i] = Append(fSeeders[x][i], c)
    BY <2>1 DEF TypeOK
  <2>3. s = c
    BY <2>1, <2>2, RangeOfAppend DEF TypeOK
  <2>4. SyncMsg(c) \in Due /\ arg[c].op = "piece_completed"
    BY <1>2, CommitDue DEF PieceCompletedCommit
  <2>5. gId[o] = arg[c].g /\ f = arg[c].f
    <3>1. pc[c] = "commit"
      BY <1>2 DEF PieceCompletedCommit, Commits
    <3>2. Holds(c)
      BY <3>1 DEF HeldByThreads
    <3>3. gFiles[o][f] = fptr[c]
      BY <2>1, <2>2
    <3> QED
      BY <2>4, <3>2, <3>3 DEF Holds
  <2> QED
    BY <2>2, <2>3, <2>4, <2>5 DEF SyncMsg
<1>3. ASSUME NEW c \in Conn,
             \/ JoinGroupCommit(c) \/ LeaveGroupCommit(c)
             \/ AcceptRequestCommit(c) \/ StopShareCommit(c)
             \/ \E k \in Cmd : CreateGroup(c, k)
      PROVE  UNCHANGED fSeeders
  BY <1>3 DEF JoinGroupCommit, LeaveGroupCommit, AcceptRequestCommit,
       StopShareCommit, CreateGroup, fileVars
<1> QED
  BY <1>1, <1>2, <1>3, Writers DEF fileVars

(* In every interleaving, whoever changes an account, a group, its requests, *)
(* members or listings, or a piece's seeders, goes on to announce exactly    *)
(* that change, and no announcement that is due is dropped.                  *)
THEOREM ChangesAreAnnounced == Spec => ChangesAnnounced
<1> DEFINE A == /\ UsersTold
                /\ GroupsTold
                /\ RequestsTold
                /\ MembersTold
                /\ ListingsTold
                /\ SeedersTold
                /\ Announced \subseteq Announced'
<1>1. Inv /\ [Next]_vars => [A]_vars
  BY UsersStep, GroupSteps, ListingsStep, SeedersStep, AnnouncedGrows DEF Inv
<1> QED
  BY <1>1, Invariance, PTL DEF Spec, ChangesAnnounced
=============================================================================
