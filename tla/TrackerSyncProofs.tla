-------------------------- MODULE TrackerSyncProofs --------------------------
(***************************************************************************)
(* Theorems about TrackerSync, for any numbers of trackers, clients,       *)
(* commands and crashes: types, that replication forges nothing, and that  *)
(* tracker 0 is the only primary until it fails.                           *)
(***************************************************************************)
EXTENDS TrackerSync, TLAPS, SequenceTheorems

(* What is in the queues of the trackers are commands some client sent and   *)
(* some tracker served, and an upload names its uploader.                    *)
Genuine ==
    /\ issued \subseteq Messages
    /\ \A m \in issued : m.cmd.op = "upload_file" => m.by # None
    /\ \A s \in Session : phase[s] # "recv" => msg[s] \in issued
    /\ inbox \in [Tracker -> Seq(issued)]
    /\ pendingMessages \in [Tracker -> Seq(issued)]
    /\ temp \in [Tracker -> Seq(issued)]

Inv == Typed /\ Coupled /\ Bare /\ Genuine

-----------------------------------------------------------------------------
(* The directory. *)

(* Accepting and completing a piece change one group. *)
LEMMA AcceptType ==
    ASSUME NEW d \in DirectoryType, NEW g \in GroupId, NEW u,
           d.groups[g] \in GroupType
    PROVE  Accept(d, g, u) \in DirectoryType
<1> DEFINE grp == d.groups[g]
           granted == grp.requests \cap {u}
           new == [grp EXCEPT !.members = @ \cup granted,
                              !.requests = @ \ granted]
<1>1. new \in GroupType
  BY DEF GroupType
<1>2. Accept(d, g, u) = [d EXCEPT !.groups[g] = new]
  BY DEF Accept, DirectoryType, GroupType
<1> HIDE DEF new
<1> QED  BY <1>1, <1>2 DEF DirectoryType

LEMMA SeedType ==
    ASSUME NEW d \in DirectoryType, NEW g \in GroupId, NEW f,
           NEW s \in Session, d.groups[g] \in GroupType,
           d.groups[g].files[f] # None
    PROVE  AddSeeder(d, g, f, s) \in DirectoryType
<1> DEFINE grp == d.groups[g]
           seeded == [grp.files[f] EXCEPT !.seeders = @ \cup {s}]
           files == [grp.files EXCEPT ![f] = seeded]
           new == [grp EXCEPT !.files = files]
<1>1. grp.files \in [FileName -> FileType \cup {None}]
  BY DEF GroupType
<1>2. f \in FileName => seeded \in FileType
  BY <1>1 DEF FileType
<1>3. files \in [FileName -> FileType \cup {None}]
  <2> HIDE DEF seeded
  <2> QED  BY <1>1, <1>2
<1>4. new \in GroupType
  <2> HIDE DEF files
  <2> QED  BY <1>3 DEF GroupType
<1>5. AddSeeder(d, g, f, s) = [d EXCEPT !.groups[g] = new]
  BY DEF AddSeeder
<1> HIDE DEF new
<1> QED  BY <1>4, <1>5 DEF DirectoryType

(* What a handler writes for a command it allows is a directory again. *)
LEMMA ServeType ==
    ASSUME NEW d \in DirectoryType, NEW m \in MessageType, Allowed(d, m)
    PROVE  Serve(d, m) \in DirectoryType
<1> DEFINE k == m.cmd
<1>0. /\ k \in CommandType /\ m.by \in Name \cup {None} /\ m.at \in Session
      /\ None \notin Name \cup Session
  BY NameAssumption DEF MessageType
<1>1. CASE k.op = "create_user"
  BY <1>0, <1>1 DEF Serve, AddUser, DirectoryType, CommandType
<1>2. CASE k.op = "login"
  BY <1>0, <1>2 DEF Serve, Allowed, Known, DirectoryType, CommandType
<1>3. CASE k.op = "create_group"
  <2>1. NewGroup(m.by) \in GroupType
    BY <1>0, <1>3 DEF Allowed, NewGroup, GroupType
  <2> QED  BY <1>0, <1>3, <2>1 DEF Serve, Allowed, AddGroup, DirectoryType
<1>a. ASSUME Exists(d, k.g)
      PROVE  k.g \in GroupId /\ d.groups[k.g] \in GroupType
  BY <1>0, <1>a DEF Exists, DirectoryType, CommandType
<1>4. CASE k.op = "join_group"
  <2>1. Exists(d, k.g) /\ Serve(d, m) = AddRequest(d, k.g, m.by)
    BY <1>4 DEF Serve, Allowed
  <2> QED  BY <1>0, <1>a, <1>4, <2>1
           DEF Allowed, AddRequest, DirectoryType, GroupType
<1>5. CASE k.op = "leave_group"
  BY <1>0, <1>a, <1>5 DEF Serve, Allowed, RemoveUser, DirectoryType, GroupType
<1>6. CASE k.op = "accept_request"
  <2>1. Exists(d, k.g)
    BY <1>6 DEF Allowed
  <2>2. Serve(d, m) = Accept(d, k.g, k.u)
    BY <1>6 DEF Serve
  <2> QED  BY <1>a, <2>1, <2>2, AcceptType
<1>7. CASE k.op = "upload_file"
  <2>1. Exists(d, k.g) /\ m.by # None
    BY <1>7 DEF Allowed
  <2>2. Serve(d, m) = AddFile(d, k.g, k.f, m.by, {m.at})
    BY <1>7 DEF Serve
  <2>3. [by |-> m.by, seeders |-> {m.at}] \in FileType
    BY <1>0, <2>1 DEF FileType
  <2> DEFINE new == [d.groups[k.g] EXCEPT
                       !.files[k.f] = [by |-> m.by, seeders |-> {m.at}]]
  <2>4. new \in GroupType
    <3> HIDE DEF k
    <3> QED  BY <1>a, <2>1, <2>3 DEF GroupType
  <2>5. Serve(d, m) = [d EXCEPT !.groups[k.g] = new]
    BY <2>2 DEF AddFile
  <2> HIDE DEF k, new
  <2> QED  BY <1>a, <2>1, <2>4, <2>5 DEF DirectoryType
<1>8. CASE k.op = "stop_share"
  BY <1>0, <1>a, <1>8 DEF Serve, Allowed, Listed, RemoveFile, DirectoryType,
                          GroupType
<1>9. CASE k.op = "piece_completed"
  <2>1. Exists(d, k.g) /\ d.groups[k.g].files[k.f] # None
    BY <1>9 DEF Allowed, Listed
  <2>2. Serve(d, m) = AddSeeder(d, k.g, k.f, m.at)
    BY <1>9 DEF Serve
  <2>3. k.g \in GroupId /\ d.groups[k.g] \in GroupType
    BY <1>a, <2>1
  <2>4. m.at \in Session
    BY <1>0
  <2> HIDE DEF k
  <2> QED  BY <2>1, <2>2, <2>3, <2>4, SeedType
<1> QED  BY <1>0, <1>1, <1>2, <1>3, <1>4, <1>5, <1>6, <1>7, <1>8, <1>9
         DEF CommandType

(* So is what a replica makes of a message. *)
LEMMA ReplayType ==
    ASSUME NEW d \in DirectoryType, NEW m \in MessageType,
           m.cmd.op = "upload_file" => m.by # None
    PROVE  Replay(d, m) \in DirectoryType
<1> DEFINE k == m.cmd
<1>0. /\ k \in CommandType /\ m.by \in Name \cup {None}
      /\ None \notin Name
  BY NameAssumption DEF MessageType
<1>1. CASE ~ Replayable(d, m)
  BY <1>1 DEF Replay
<1>2. CASE Replayable(d, m)
  <2>1. CASE k.op = "create_user"
    BY <1>0, <1>2, <2>1 DEF Replay, AddUser, DirectoryType, CommandType
  <2>2. CASE k.op = "login"
    BY <1>0, <1>2, <2>2 DEF Replay, Replayable, Known, DirectoryType,
                            CommandType
  <2>3. CASE k.op = "create_group"
    <3>1. m.by \in Name
      BY <1>0, <1>2, <2>3 DEF Replayable, Known
    <3>2. NewGroup(m.by) \in GroupType
      BY <3>1 DEF NewGroup, GroupType
    <3> QED  BY <1>0, <1>2, <2>3, <3>1, <3>2 DEF Replay, AddGroup,
                                                 DirectoryType
  <2>a. ASSUME Exists(d, k.g)
        PROVE  k.g \in GroupId /\ d.groups[k.g] \in GroupType
    BY <1>0, <2>a DEF Exists, DirectoryType, CommandType
  <2>4. CASE k.op = "join_group"
    BY <1>0, <1>2, <2>a, <2>4 DEF Replay, Replayable, Known, AddRequest,
                                  DirectoryType, GroupType
  <2>5. CASE k.op = "leave_group"
    BY <1>0, <1>2, <2>a, <2>5 DEF Replay, Replayable, RemoveUser,
                                  DirectoryType, GroupType
  <2>6. CASE k.op = "accept_request"
    <3>1. Replay(d, m) = Accept(d, k.g, k.u) /\ Exists(d, k.g)
      BY <1>2, <2>6 DEF Replay, Replayable
    <3> QED  BY <2>a, <3>1, AcceptType
  <2>7. CASE k.op = "upload_file"
    BY <1>0, <1>2, <2>a, <2>7 DEF Replay, Replayable, AddFile, DirectoryType,
                                  GroupType, FileType
  <2>8. CASE k.op = "stop_share"
    BY <1>0, <1>2, <2>a, <2>8 DEF Replay, Replayable, RemoveFile,
                                  DirectoryType, GroupType
  <2>9. k.op # "piece_completed"
    BY <1>2 DEF Replayable
  <2> QED  BY <1>0, <2>1, <2>2, <2>3, <2>4, <2>5, <2>6, <2>7, <2>8, <2>9
           DEF CommandType
<1> QED  BY <1>1, <1>2
-----------------------------------------------------------------------------
(* Sequences. *)

(* Every other tracker is on the list once; tracker 0 comes first. *)
LEMMA OthersType ==
    ASSUME NEW t \in Tracker
    PROVE  /\ Others(t) \in Seq(Tracker)
           /\ Len(Others(t)) = N - 1
           /\ \A i \in 1 .. N - 1 : Others(t)[i] \in Tracker \ {t}
           /\ t # 0 => N > 1 /\ Others(t)[1] = 0
           /\ N > 1 => Others(t) # <<>>
<1>1. /\ N \in Nat \ {0} /\ t \in 0 .. N - 1 /\ Tracker = 0 .. N - 1
  BY SyncAssumption DEF Tracker
<1>2. /\ DOMAIN Others(t) = 1 .. N - 1
      /\ \A i \in 1 .. N - 1 : Others(t)[i] = IF i <= t THEN i - 1 ELSE i
      /\ Others(t) = [i \in 1 .. N - 1 |-> Others(t)[i]]
  BY DEF Others
<1>3. \A i \in 1 .. N - 1 : Others(t)[i] \in Tracker \ {t}
  BY <1>1, <1>2
<1>4. Others(t) \in [1 .. N - 1 -> Tracker]
  BY <1>2, <1>3
<1>5. Others(t) \in Seq(Tracker) /\ Len(Others(t)) = N - 1
  BY <1>1, <1>4
<1>6. t # 0 => N > 1 /\ Others(t)[1] = 0
  BY <1>1, <1>2
<1> QED  BY <1>1, <1>3, <1>5, <1>6

LEMMA SeqGrows ==
    ASSUME NEW S, NEW T, S \subseteq T, NEW f \in [Tracker -> Seq(S)]
    PROVE  f \in [Tracker -> Seq(T)]
<1>1. \A q \in Seq(S) : q \in Seq(T)
  BY SeqDef
<1> QED  BY <1>1

LEMMA MessagesType == Messages \subseteq MessageType
BY SyncAssumption DEF Messages, MessageType

LEMMA EmptyType == Empty \in DirectoryType
BY DEF Empty, DirectoryType

-----------------------------------------------------------------------------
(* Types. *)

(* A client that is connected is served by a tracker that runs. *)
LEMMA Serving ==
    ASSUME Typed, Coupled, NEW s \in Session, connected[s]
    PROVE  trackerIndex[s] \in Tracker /\ up[trackerIndex[s]]
<1>1. /\ trackerIndex[s] \in 0 .. N /\ trackerIndex[s] < N
      /\ up[trackerIndex[s]]
  BY DEF Typed, Coupled
<1> QED  BY <1>1, SyncAssumption DEF Tracker

(* The next tracker of a round of health checks. *)
LEMMA NextProbe ==
    ASSUME Typed, NEW t \in Tracker, probed[t] < Len(Others(t))
    PROVE  /\ probed[t] + 1 \in 1 .. N - 1
           /\ Others(t)[probed[t] + 1] \in Tracker \ {t}
<1>1. probed[t] \in Nat /\ Len(Others(t)) = N - 1
  BY OthersType, SyncAssumption DEF Typed
<1>2. probed[t] + 1 \in 1 .. N - 1
  BY <1>1, SyncAssumption
<1> QED  BY <1>2, OthersType

(* A thread that goes on to phase p with the trackers q ahead of it. *)
LEMMA LoopStep ==
    ASSUME Typed, Coupled, NEW s \in Session, connected[s], NEW p, NEW q,
           p = "send" <=> q # <<>>,
           UNCHANGED <<up, trackerIndex, connected>>,
           phase' = [phase EXCEPT ![s] = p], to' = [to EXCEPT ![s] = q]
    PROVE  Coupled'
BY DEF Typed, Coupled

LEMMA InitInv == Init => Inv
<1> SUFFICES ASSUME Init PROVE Inv
  OBVIOUS
<1> USE SyncAssumption DEF Init
<1>1. Typed
  BY EmptyType DEF Typed, Tracker
<1>2. Coupled /\ Bare
  BY DEF Coupled, Bare
<1>3. Genuine
  BY DEF Genuine
<1> QED  BY <1>1, <1>2, <1>3 DEF Inv

LEMMA NextInv == Inv /\ [Next]_vars => Inv'
<1> SUFFICES ASSUME Inv, [Next]_vars PROVE Inv'
  OBVIOUS
<1> USE SyncAssumption DEF Inv, processVars, healthVars, queueVars,
        clientVars, threadVars
<1>1. ASSUME NEW t \in Tracker, Start(t) PROVE Inv'
  <2> USE <1>1 DEF Start
  <2>1. Typed'
    BY DEF Typed
  <2>2. Coupled'
    BY DEF Typed, Coupled
  <2>3. Bare'
    BY DEF Typed, Bare
  <2>4. Genuine'
    BY DEF Typed, Genuine
  <2> QED  BY <2>1, <2>2, <2>3, <2>4
<1>2. ASSUME NEW t \in Tracker, Crash(t) PROVE Inv'
  <2> USE <1>2 DEF Crash
  <2>a. /\ activeTrackers' \in [Tracker -> Seq(Tracker)]
        /\ actTrack' \in [Tracker -> Seq(Tracker)]
        /\ pendingMessages' \in [Tracker -> Seq(Messages)]
        /\ temp' \in [Tracker -> Seq(Messages)]
        /\ inbox' \in [Tracker -> Seq(Messages)]
    BY DEF Typed
  <2>b. /\ up' \in [Tracker -> BOOLEAN]
        /\ dir' \in [Tracker -> DirectoryType]
        /\ isPrimary' \in [Tracker -> BOOLEAN]
        /\ probed' \in [Tracker -> 0 .. N - 1]
        /\ flushing' \in [Tracker -> BOOLEAN]
    BY EmptyType DEF Typed
  <2>0. t + 1 \in 0 .. N
    BY DEF Tracker
  <2>c. /\ trackerIndex' \in [Session -> 0 .. N]
        /\ connected' \in [Session -> BOOLEAN]
        /\ clientName' \in [Session -> Name \cup {None}]
    BY <2>0 DEF Typed
  <2>d. /\ phase' \in [Session -> {"recv", "announce", "send"}]
        /\ msg' \in [Session -> Messages \cup {NoMsg}]
        /\ to' \in [Session -> Seq(Tracker)]
    BY DEF Typed
  <2>1. Typed'
    BY <2>a, <2>b, <2>c, <2>d DEF Typed
  <2>2. Coupled'
    BY DEF Typed, Coupled
  <2>3. Bare'
    BY DEF Typed, Bare
  <2>4. Genuine'
    BY DEF Typed, Genuine
  <2> QED  BY <2>1, <2>2, <2>3, <2>4
<1>3. ASSUME NEW t \in Tracker, Probe(t) PROVE Inv'
  <2> USE <1>3 DEF Probe
  <2>a. /\ probed[t] + 1 \in 0 .. N - 1
        /\ Others(t)[probed[t] + 1] \in Tracker
    BY NextProbe
  <2>b. actTrack' \in [Tracker -> Seq(Tracker)]
    <3> DEFINE r == Others(t)[probed[t] + 1]
    <3>1. actTrack' \in {actTrack, [actTrack EXCEPT ![t] = Append(@, r)]}
      OBVIOUS
    <3>2. [actTrack EXCEPT ![t] = Append(@, r)] \in [Tracker -> Seq(Tracker)]
      BY <2>a DEF Typed
    <3> QED  BY <3>1, <3>2 DEF Typed
  <2>1. Typed'
    BY <2>a, <2>b DEF Typed
  <2>2. Coupled'
    BY DEF Typed, Coupled
  <2>3. Bare'
    BY DEF Typed, Bare
  <2>4. Genuine'
    BY DEF Typed, Genuine
  <2> QED  BY <2>1, <2>2, <2>3, <2>4
<1>4. ASSUME NEW t \in Tracker, EndRound(t) PROVE Inv'
  <2> USE <1>4 DEF EndRound
  <2>1. Typed'
    BY DEF Typed
  <2>2. Coupled'
    BY DEF Typed, Coupled
  <2>3. Bare'
    BY DEF Typed, Bare
  <2>4. Genuine'
    BY DEF Typed, Genuine
  <2> QED  BY <2>1, <2>2, <2>3, <2>4
<1>5. ASSUME NEW t \in Tracker, HandleSync(t) PROVE Inv'
  <2> USE <1>5 DEF HandleSync
  <2>a. Head(inbox[t]) \in issued /\ Tail(inbox[t]) \in Seq(issued)
    BY DEF Genuine
  <2>b. Replay(dir[t], Head(inbox[t])) \in DirectoryType
    BY <2>a, ReplayType, MessagesType DEF Typed, Genuine
  <2>c. Tail(inbox[t]) \in Seq(Messages)
    BY DEF Typed
  <2>1. Typed'
    BY <2>b, <2>c DEF Typed
  <2>2. Coupled'
    BY DEF Typed, Coupled
  <2>3. Bare'
    BY DEF Typed, Bare
  <2>4. Genuine'
    BY DEF Typed, Genuine
  <2> QED  BY <2>1, <2>2, <2>3, <2>4
<1>6. ASSUME NEW t \in Tracker, FlushBegin(t) PROVE Inv'
  <2> USE <1>6 DEF FlushBegin
  <2>1. Typed'
    BY DEF Typed
  <2>2. Coupled'
    BY DEF Typed, Coupled
  <2>3. Bare'
    BY DEF Typed, Bare
  <2>4. Genuine'
    BY DEF Typed, Genuine
  <2> QED  BY <2>1, <2>2, <2>3, <2>4
<1>7. ASSUME NEW t \in Tracker, FlushOne(t) PROVE Inv'
  <2> USE <1>7 DEF FlushOne, Deliver
  <2>a. /\ Head(pendingMessages[t]) \in Messages \cap issued
        /\ Tail(pendingMessages[t]) \in Seq(Messages)
        /\ Tail(pendingMessages[t]) \in Seq(issued)
    BY DEF Typed, Genuine
  <2>b. PICK r \in FlushTargets(t) :
          \/ /\ up[r]
             /\ Deliver(r, Head(pendingMessages[t]))
             /\ UNCHANGED temp
          \/ /\ temp' = [temp EXCEPT
                           ![t] = Append(@, Head(pendingMessages[t]))]
             /\ UNCHANGED inbox
    OBVIOUS
  <2>c. r \in Tracker
    <3>1. activeTrackers[t] \in Seq(Tracker)
      BY DEF Typed
    <3> QED  BY <3>1 DEF FlushTargets
  <2> DEFINE m == Head(pendingMessages[t])
  <2>d. /\ inbox' \in {inbox, [inbox EXCEPT ![r] = Append(@, m)]}
        /\ temp' \in {temp, [temp EXCEPT ![t] = Append(@, m)]}
    BY <2>b
  <2> HIDE <1>7 DEF m
  <2>e. /\ temp' \in [Tracker -> Seq(Messages)]
        /\ inbox' \in [Tracker -> Seq(Messages)]
    <3>1. m \in Messages
      BY <2>a DEF m
    <3>2. /\ temp \in [Tracker -> Seq(Messages)]
          /\ inbox \in [Tracker -> Seq(Messages)]
      BY DEF Typed
    <3>3. [inbox EXCEPT ![r] = Append(@, m)] \in [Tracker -> Seq(Messages)]
      BY <2>c, <3>1, <3>2
    <3>4. [temp EXCEPT ![t] = Append(@, m)] \in [Tracker -> Seq(Messages)]
      BY <3>1, <3>2
    <3> QED  BY <2>d, <3>2, <3>3, <3>4
  <2>f. /\ temp' \in [Tracker -> Seq(issued)]
        /\ inbox' \in [Tracker -> Seq(issued)]
    <3>1. m \in issued
      BY <2>a DEF m
    <3>2. /\ temp \in [Tracker -> Seq(issued)]
          /\ inbox \in [Tracker -> Seq(issued)]
      BY DEF Genuine
    <3>3. [inbox EXCEPT ![r] = Append(@, m)] \in [Tracker -> Seq(issued)]
      BY <2>c, <3>1, <3>2
    <3>4. [temp EXCEPT ![t] = Append(@, m)] \in [Tracker -> Seq(issued)]
      BY <3>1, <3>2
    <3> QED  BY <2>d, <3>2, <3>3, <3>4
  <2> USE <1>7
  <2>1. Typed'
    BY <2>a, <2>e DEF Typed
  <2>2. Coupled'
    BY DEF Typed, Coupled
  <2>3. Bare'
    BY DEF Typed, Bare
  <2>4. Genuine'
    BY <2>a, <2>f DEF Typed, Genuine
  <2> QED  BY <2>1, <2>2, <2>3, <2>4
<1>8. ASSUME NEW t \in Tracker, FlushEnd(t) PROVE Inv'
  <2> USE <1>8 DEF FlushEnd
  <2>1. Typed'
    BY DEF Typed
  <2>2. Coupled'
    BY DEF Typed, Coupled
  <2>3. Bare'
    BY DEF Typed, Bare
  <2>4. Genuine'
    BY DEF Typed, Genuine
  <2> QED  BY <2>1, <2>2, <2>3, <2>4
<1>9. ASSUME NEW s \in Session, Connect(s) PROVE Inv'
  <2> USE <1>9 DEF Connect
  <2>a. /\ trackerIndex' \in [Session -> 0 .. N]
        /\ connected' \in [Session -> BOOLEAN]
    <3>1. trackerIndex[s] + 1 \in 0 .. N
      BY DEF Typed
    <3> QED  BY <3>1 DEF Typed
  <2>1. Typed'
    BY <2>a DEF Typed
  <2>2. Coupled'
    <3>1. CASE up[trackerIndex[s]]
      BY <3>1 DEF Typed, Coupled
    <3>2. CASE ~ up[trackerIndex[s]]
      BY <3>2 DEF Typed, Coupled
    <3> QED  BY <3>1, <3>2
  <2>3. Bare'
    BY DEF Typed, Bare
  <2>4. Genuine'
    BY DEF Typed, Genuine
  <2> QED  BY <2>1, <2>2, <2>3, <2>4
<1>10. ASSUME NEW s \in Session, Quit(s) PROVE Inv'
  <2> USE <1>10 DEF Quit
  <2>a. /\ trackerIndex[s] \in Tracker /\ up[trackerIndex[s]]
        /\ [dir[trackerIndex[s]] EXCEPT !.loggedIn = @ \ {clientName[s]}]
             \in DirectoryType
    <3>1. trackerIndex[s] \in Tracker /\ up[trackerIndex[s]]
      BY Serving
    <3>2. dir[trackerIndex[s]] \in DirectoryType
      BY <3>1 DEF Typed
    <3> QED  BY <3>1, <3>2 DEF DirectoryType
  <2>b. dir' = [dir EXCEPT ![trackerIndex[s]] =
                   [dir[trackerIndex[s]] EXCEPT
                       !.loggedIn = @ \ {clientName[s]}]]
    OBVIOUS
  <2>c. dir' \in [Tracker -> DirectoryType]
    BY <2>a, <2>b DEF Typed
  <2>1. Typed'
    BY <2>c DEF Typed
  <2>2. Coupled'
    BY DEF Typed, Coupled
  <2>3. Bare'
    BY <2>a, <2>b DEF Typed, Bare
  <2>4. Genuine'
    BY DEF Typed, Genuine
  <2> QED  BY <2>1, <2>2, <2>3, <2>4
<1>11. ASSUME NEW s \in Session, NEW k \in Cmd, Command(s, k) PROVE Inv'
  <2> USE <1>11 DEF Command
  <2> DEFINE t == trackerIndex[s]
             m == [cmd |-> k, by |-> clientName[s], at |-> s]
  <2>a. t \in Tracker /\ up[t] /\ m \in Messages
    BY Serving DEF Typed, Messages
  <2>b. Serve(dir[t], m) \in DirectoryType
    BY <2>a, ServeType, MessagesType DEF Typed
  <2>c. dir' = [dir EXCEPT ![t] = Serve(dir[t], m)]
    OBVIOUS
  <2>d. issued' = issued \cup {m}
    OBVIOUS
  <2>e. k.op = "upload_file" => m.by # None
    BY DEF Allowed
  <2>f. k.op = "login" => k.u \in Name
    BY DEF Allowed, Known, CommandType
  <2>g. /\ phase' = [phase EXCEPT ![s] = "announce"]
        /\ msg' = [msg EXCEPT ![s] = m]
    OBVIOUS
  <2> HIDE DEF m
  <2>h. /\ dir' \in [Tracker -> DirectoryType]
        /\ clientName' \in [Session -> Name \cup {None}]
        /\ phase' \in [Session -> {"recv", "announce", "send"}]
        /\ msg' \in [Session -> Messages \cup {NoMsg}]
    BY <2>a, <2>b, <2>c, <2>f, <2>g DEF Typed
  <2>i. /\ inbox \in [Tracker -> Seq(issued')]
        /\ pendingMessages \in [Tracker -> Seq(issued')]
        /\ temp \in [Tracker -> Seq(issued')]
    BY <2>d, SeqGrows DEF Genuine
  <2>1. Typed'
    BY <2>h DEF Typed
  <2>2. Coupled'
    BY DEF Typed, Coupled
  <2>3. Bare'
    BY <2>a, <2>c DEF Typed, Bare
  <2>4. Genuine'
    <3>1. m.cmd = k
      BY DEF m
    <3> QED  BY <2>a, <2>d, <2>e, <2>g, <2>i, <3>1 DEF Typed, Genuine
  <2> QED  BY <2>1, <2>2, <2>3, <2>4
<1>12. ASSUME NEW s \in Session, Announce(s) PROVE Inv'
  <2> USE <1>12 DEF Announce, Returns
  <2>a. trackerIndex[s] \in Tracker
    BY Serving DEF Coupled
  <2>b. /\ Others(trackerIndex[s]) \in Seq(Tracker)
        /\ N > 1 => Others(trackerIndex[s]) # <<>>
    BY <2>a, OthersType
  <2>c. /\ phase' \in [Session -> {"recv", "announce", "send"}]
        /\ msg' \in [Session -> Messages \cup {NoMsg}]
        /\ to' \in [Session -> Seq(Tracker)]
    BY <2>b DEF Typed
  <2>1. Typed'
    BY <2>c DEF Typed
  <2>2. Coupled'
    <3>1. connected[s] /\ to[s] = <<>>
      BY DEF Coupled
    <3>2. to = [to EXCEPT ![s] = <<>>]
      BY <3>1 DEF Typed
    <3> QED  BY <2>b, <3>1, <3>2, LoopStep
  <2>3. Bare'
    BY DEF Typed, Bare
  <2>4. Genuine'
    BY DEF Typed, Genuine
  <2> QED  BY <2>1, <2>2, <2>3, <2>4
<1>13. ASSUME NEW s \in Session, SendSync(s) PROVE Inv'
  <2> USE <1>13 DEF SendSync, Deliver, Returns
  <2>a. /\ trackerIndex[s] \in Tracker /\ to[s] # <<>>
        /\ Head(to[s]) \in Tracker /\ Tail(to[s]) \in Seq(Tracker)
    <3>1. connected[s] /\ to[s] # <<>>
      BY DEF Coupled
    <3>2. to[s] \in Seq(Tracker)
      BY DEF Typed
    <3> QED  BY <3>1, <3>2, Serving
  <2>b. msg[s] \in issued /\ msg[s] \in Messages
    BY DEF Genuine
  <2>g. /\ inbox' \in {inbox, [inbox EXCEPT ![Head(to[s])] =
                                     Append(@, msg[s])]}
        /\ pendingMessages' \in {pendingMessages,
              [pendingMessages EXCEPT ![trackerIndex[s]] = Append(@, msg[s])]}
    OBVIOUS
  <2>c. /\ inbox' \in [Tracker -> Seq(Messages)]
        /\ pendingMessages' \in [Tracker -> Seq(Messages)]
    <3> HIDE <1>13
    <3>1. /\ pendingMessages \in [Tracker -> Seq(Messages)]
          /\ inbox \in [Tracker -> Seq(Messages)]
      BY DEF Typed
    <3>2. [inbox EXCEPT ![Head(to[s])] = Append(@, msg[s])]
              \in [Tracker -> Seq(Messages)]
      BY <2>a, <2>b, <3>1
    <3>3. [pendingMessages EXCEPT ![trackerIndex[s]] = Append(@, msg[s])]
              \in [Tracker -> Seq(Messages)]
      BY <2>a, <2>b, <3>1
    <3> QED  BY <2>g, <3>1, <3>2, <3>3
  <2>d. /\ inbox' \in [Tracker -> Seq(issued)]
        /\ pendingMessages' \in [Tracker -> Seq(issued)]
    <3> HIDE <1>13
    <3>1. /\ pendingMessages \in [Tracker -> Seq(issued)]
          /\ inbox \in [Tracker -> Seq(issued)]
      BY DEF Genuine
    <3>2. [inbox EXCEPT ![Head(to[s])] = Append(@, msg[s])]
              \in [Tracker -> Seq(issued)]
      BY <2>a, <2>b, <3>1
    <3>3. [pendingMessages EXCEPT ![trackerIndex[s]] = Append(@, msg[s])]
              \in [Tracker -> Seq(issued)]
      BY <2>a, <2>b, <3>1
    <3> QED  BY <2>g, <3>1, <3>2, <3>3
  <2>e. /\ to' = [to EXCEPT ![s] = Tail(to[s])]
        /\ \/ /\ Tail(to[s]) = <<>>
              /\ phase' = [phase EXCEPT ![s] = "recv"]
              /\ msg' = [msg EXCEPT ![s] = NoMsg]
           \/ /\ Tail(to[s]) # <<>>
              /\ UNCHANGED <<phase, msg>>
    OBVIOUS
  <2>f. /\ phase' \in [Session -> {"recv", "announce", "send"}]
        /\ msg' \in [Session -> Messages \cup {NoMsg}]
        /\ to' \in [Session -> Seq(Tracker)]
    BY <2>a, <2>e DEF Typed
  <2>1. Typed'
    BY <2>c, <2>f DEF Typed
  <2>2. Coupled'
    <3>1. connected[s] /\ phase = [phase EXCEPT ![s] = "send"]
      BY DEF Typed, Coupled
    <3>2. UNCHANGED <<up, trackerIndex, connected>>
      OBVIOUS
    <3> HIDE <1>13
    <3>3. CASE Tail(to[s]) = <<>>
      BY <2>e, <3>1, <3>2, <3>3, LoopStep
    <3>4. CASE Tail(to[s]) # <<>>
      BY <2>e, <3>1, <3>2, <3>4, LoopStep
    <3> QED  BY <3>3, <3>4
  <2>3. Bare'
    BY DEF Typed, Bare
  <2>4. Genuine'
    BY <2>b, <2>d, <2>e DEF Typed, Genuine
  <2> QED  BY <2>1, <2>2, <2>3, <2>4
<1>14. CASE UNCHANGED vars
  BY <1>14 DEF vars, Typed, Coupled, Bare, Genuine
<1> QED  BY <1>1, <1>2, <1>3, <1>4, <1>5, <1>6, <1>7, <1>8, <1>9, <1>10,
            <1>11, <1>12, <1>13, <1>14 DEF Next

(* Every variable keeps its type; a tracker that is down holds nothing and   *)
(* serves nobody, and only a thread that serves a client announces.          *)
THEOREM TypeCorrect == Spec => []TypeOK
<1>1. Inv => TypeOK
  BY DEF Inv, TypeOK
<1> QED  BY <1>1, InitInv, NextInv, PTL DEF Spec

-----------------------------------------------------------------------------
(* One primary. *)

(* As long as tracker 0 has not failed it runs, and, if nothing keeps the    *)
(* others from reaching it, a round of health checks that has begun          *)
(* elsewhere has found it: the next round ends with it on the list.          *)
ZeroSeen ==
    /\ crashes \in [Tracker -> Nat]
    /\ crashes[0] = 0 /\ 0 \in Started /\ ZeroReached =>
          /\ up[0]
          /\ \A t \in Tracker \ {0} :
                /\ ~isPrimary[t]
                /\ probed[t] > 0 => ContainsPrimary(actTrack[t])

LEMMA InitZero == Init => ZeroSeen
<1> SUFFICES ASSUME Init PROVE ZeroSeen
  OBVIOUS
<1>1. 0 \in Tracker
  BY SyncAssumption DEF Tracker
<1>2. crashes \in [Tracker -> Nat]
  BY DEF Init
<1>3. up[0] <=> 0 \in Started
  BY <1>1 DEF Init
<1>4. \A t \in Tracker \ {0} : ~isPrimary[t] /\ probed[t] = 0
  BY DEF Init
<1> QED  BY <1>2, <1>3, <1>4 DEF ZeroSeen

LEMMA NextZero == Inv /\ ZeroSeen /\ [Next]_vars => ZeroSeen'
<1> SUFFICES ASSUME Inv, ZeroSeen, [Next]_vars PROVE ZeroSeen'
  OBVIOUS
<1> USE SyncAssumption DEF processVars, healthVars, queueVars, clientVars,
        threadVars
<1>0. 0 \in Tracker /\ Typed
  BY DEF Tracker, Inv
<1>1. ASSUME NEW t \in Tracker, Start(t) PROVE ZeroSeen'
  BY <1>0, <1>1 DEF Start, ZeroSeen, Typed
<1>2. ASSUME NEW t \in Tracker, Crash(t) PROVE ZeroSeen'
  <2>1. crashes' \in [Tracker -> Nat] /\ (t = 0 => crashes'[0] # 0)
    BY <1>0, <1>2 DEF Crash, ZeroSeen
  <2>2. ASSUME t # 0, crashes[0] = 0, 0 \in Started, ZeroReached
        PROVE  /\ up'[0]
               /\ \A r \in Tracker \ {0} :
                     /\ ~isPrimary'[r]
                     /\ probed'[r] > 0 => ContainsPrimary(actTrack'[r])
    BY <1>0, <1>2, <2>2 DEF Crash, ZeroSeen, Typed
  <2>3. crashes'[0] = 0 => t # 0 /\ crashes[0] = 0
    BY <1>0, <1>2, <2>1 DEF Crash, ZeroSeen
  <2> QED  BY <2>1, <2>2, <2>3 DEF ZeroSeen, ContainsPrimary
<1>3. ASSUME NEW t \in Tracker, Probe(t) PROVE ZeroSeen'
  <2> DEFINE r == Others(t)[probed[t] + 1]
  <2>1. ASSUME t # 0, up[0], ZeroReached,
               probed[t] > 0 => ContainsPrimary(actTrack[t])
        PROVE  ContainsPrimary(actTrack'[t])
    <3>1. actTrack[t] \in Seq(Tracker) /\ probed[t] \in Nat
      BY <1>0 DEF Typed
    <3>2. CASE probed[t] = 0
      <4>1. r = 0
        BY <2>1, <3>2, OthersType
      <4>2. ~Misses(t, r)
        BY <2>1, <4>1 DEF Misses, ZeroReached
      <4>3. actTrack'[t] = Append(actTrack[t], 0)
        BY <1>0, <1>3, <4>1, <4>2 DEF Probe, Typed
      <4> QED  BY <3>1, <4>3 DEF ContainsPrimary
    <3>3. CASE probed[t] > 0
      <4>1. actTrack'[t] \in {actTrack[t], Append(actTrack[t], r)}
        BY <1>0, <1>3 DEF Probe, Typed
      <4>2. PICK i \in DOMAIN actTrack[t] : actTrack[t][i] = 0
        BY <2>1, <3>3 DEF ContainsPrimary
      <4>3. i \in DOMAIN actTrack'[t] /\ actTrack'[t][i] = 0
        <5>1. CASE actTrack'[t] = actTrack[t]
          BY <4>2, <5>1
        <5>2. CASE actTrack'[t] = Append(actTrack[t], r)
          BY <3>1, <4>2, <5>2
        <5> QED  BY <4>1, <5>1, <5>2
      <4> QED  BY <4>3 DEF ContainsPrimary
    <3> QED  BY <3>1, <3>2, <3>3
  <2>2. /\ UNCHANGED <<crashes, up, isPrimary>>
        /\ \A q \in Tracker \ {t} : /\ probed'[q] = probed[q]
                                     /\ actTrack'[q] = actTrack[q]
    BY <1>0, <1>3 DEF Probe, Typed
  <2> QED  BY <2>1, <2>2 DEF ZeroSeen, ContainsPrimary
<1>4. ASSUME NEW t \in Tracker, EndRound(t) PROVE ZeroSeen'
  <2>1. t # 0 => probed[t] > 0
    BY <1>4, OthersType DEF EndRound
  <2>2. /\ UNCHANGED <<crashes, up>>
        /\ probed' = [probed EXCEPT ![t] = 0]
        /\ actTrack' = [actTrack EXCEPT ![t] = <<>>]
        /\ isPrimary' = [isPrimary EXCEPT
                            ![t] = @ \/ ~ContainsPrimary(actTrack[t])]
    BY <1>4 DEF EndRound
  <2>3. /\ probed'[t] = 0
        /\ isPrimary'[t] => isPrimary[t] \/ ~ContainsPrimary(actTrack[t])
        /\ \A q \in Tracker \ {t} : /\ isPrimary'[q] = isPrimary[q]
                                     /\ probed'[q] = probed[q]
                                     /\ actTrack'[q] = actTrack[q]
    BY <1>0, <2>2 DEF Typed
  <2>4. ASSUME crashes[0] = 0, 0 \in Started, ZeroReached, NEW q \in Tracker \ {0}
        PROVE  ~isPrimary'[q] /\ (probed'[q] > 0 =>
                                     ContainsPrimary(actTrack'[q]))
    <3>1. ~isPrimary[q] /\ (probed[q] > 0 => ContainsPrimary(actTrack[q]))
      BY <2>4 DEF ZeroSeen
    <3>2. CASE q = t
      <4>1. ContainsPrimary(actTrack[t]) /\ ~isPrimary[t]
        BY <2>1, <2>4, <3>1, <3>2
      <4> QED  BY <2>3, <3>2, <4>1
    <3>3. CASE q # t
      BY <2>3, <3>1, <3>3 DEF ContainsPrimary
    <3> QED  BY <3>2, <3>3
  <2> QED  BY <2>2, <2>4 DEF ZeroSeen, ContainsPrimary
<1>5. ASSUME UNCHANGED <<up, crashes, isPrimary, probed, actTrack>>
      PROVE  ZeroSeen'
  BY <1>5 DEF ZeroSeen, ContainsPrimary
<1>6. ASSUME NEW t \in Tracker,
             \/ HandleSync(t)
             \/ FlushBegin(t)
             \/ FlushOne(t)
             \/ FlushEnd(t)
      PROVE  ZeroSeen'
  BY <1>5, <1>6 DEF HandleSync, FlushBegin, FlushOne, FlushEnd
<1>7. ASSUME NEW s \in Session,
             \/ Connect(s)
             \/ Quit(s)
             \/ \E k \in Cmd : Command(s, k)
             \/ Announce(s)
             \/ SendSync(s)
      PROVE  ZeroSeen'
  BY <1>5, <1>7 DEF Connect, Quit, Command, Announce, SendSync
<1>8. CASE UNCHANGED vars
  BY <1>5, <1>8 DEF vars
<1> QED  BY <1>1, <1>2, <1>3, <1>4, <1>6, <1>7, <1>8 DEF Next

(* While tracker 0 runs without interruption from the start and every        *)
(* attempt to connect to it succeeds, no other tracker is ever primary,      *)
(* whoever else loses sight of whom, whatever crashes or restarts meanwhile and       *)
(* however the rounds of health checks interleave.                           *)
THEOREM ZeroRules == Spec => []SolePrimary
<1>1. Inv /\ ZeroSeen => SolePrimary
  BY DEF ZeroSeen, SolePrimary
<1> QED  BY <1>1, InitInv, NextInv, InitZero, NextZero, PTL DEF Spec

-----------------------------------------------------------------------------
(* Nothing is invented. *)

(* The members, requests and files of group g rest on commands in I. *)
GroupBacked(grp, g, I) ==
    /\ \A u \in grp.members : u # grp.owner =>
          \E m \in I : /\ m.cmd.op = "accept_request"
                       /\ m.cmd.g = g /\ m.cmd.u = u
    /\ \A u \in grp.requests \cup (grp.members \ {grp.owner}) :
          \E m \in I : /\ m.cmd.op = "join_group"
                       /\ m.cmd.g = g /\ m.by = u
    /\ \A f \in FileName : grp.files[f] # None =>
          \E m \in I : /\ m.cmd.op = "upload_file"
                       /\ m.cmd.g = g /\ m.cmd.f = f
                       /\ m.by = grp.files[f].by

Backed(d, I) ==
    \A g \in GroupId : Exists(d, g) => GroupBacked(d.groups[g], g, I)

AllBacked == \A t \in Tracker : Backed(dir[t], issued)

LEMMA BackedGrows ==
    ASSUME NEW d, NEW I, NEW J, I \subseteq J, Backed(d, I)
    PROVE  Backed(d, J)
BY DEF Backed, GroupBacked

LEMMA SameGroups ==
    ASSUME NEW d, NEW e, NEW I, e.groups = d.groups, Backed(d, I)
    PROVE  Backed(e, I)
BY DEF Backed, Exists

LEMMA OneGroup ==
    ASSUME NEW d \in DirectoryType, NEW e, NEW I, NEW g, NEW grp,
           e.groups = [d.groups EXCEPT ![g] = grp],
           Backed(d, I), GroupBacked(grp, g, I)
    PROVE  Backed(e, I)
BY DEF Backed, Exists, DirectoryType

LEMMA AddGroupBacked ==
    ASSUME NEW d \in DirectoryType, NEW I, NEW g, NEW u, Backed(d, I)
    PROVE  Backed(AddGroup(d, g, u), I)
<1>1. GroupBacked(NewGroup(u), g, I)
  BY DEF GroupBacked, NewGroup
<1>2. AddGroup(d, g, u).groups = [d.groups EXCEPT ![g] = NewGroup(u)]
  BY DEF AddGroup, DirectoryType
<1> QED  BY <1>1, <1>2, OneGroup

LEMMA AddRequestBacked ==
    ASSUME NEW d \in DirectoryType, NEW I, NEW m \in I, Backed(d, I),
           m.cmd.op = "join_group", m.cmd.g \in GroupId, Exists(d, m.cmd.g)
    PROVE  Backed(AddRequest(d, m.cmd.g, m.by), I)
<1> DEFINE g == m.cmd.g
           grp == [d.groups[g] EXCEPT !.requests = @ \cup {m.by}]
<1>1. d.groups[g] \in GroupType /\ GroupBacked(d.groups[g], g, I)
  BY DEF Exists, Backed, DirectoryType
<1>2. GroupBacked(grp, g, I)
  BY <1>1 DEF GroupBacked, GroupType
<1>3. AddRequest(d, g, m.by).groups = [d.groups EXCEPT ![g] = grp]
  BY DEF AddRequest, DirectoryType
<1> QED  BY <1>2, <1>3, OneGroup

LEMMA RemoveUserBacked ==
    ASSUME NEW d \in DirectoryType, NEW I, NEW g \in GroupId, NEW u,
           Backed(d, I), Exists(d, g)
    PROVE  Backed(RemoveUser(d, g, u), I)
<1> DEFINE grp == [d.groups[g] EXCEPT !.members = @ \ {u}]
<1>1. d.groups[g] \in GroupType /\ GroupBacked(d.groups[g], g, I)
  BY DEF Exists, Backed, DirectoryType
<1>2. GroupBacked(grp, g, I)
  BY <1>1 DEF GroupBacked, GroupType
<1>3. RemoveUser(d, g, u).groups = [d.groups EXCEPT ![g] = grp]
  BY DEF RemoveUser, DirectoryType
<1> QED  BY <1>2, <1>3, OneGroup

(* Who is let in has asked, and the command that lets him in is in I. *)
LEMMA AcceptBacked ==
    ASSUME NEW d \in DirectoryType, NEW I, NEW m \in I, Backed(d, I),
           m.cmd.op = "accept_request", m.cmd.g \in GroupId,
           Exists(d, m.cmd.g)
    PROVE  Backed(Accept(d, m.cmd.g, m.cmd.u), I)
<1> DEFINE g == m.cmd.g
           granted == d.groups[g].requests \cap {m.cmd.u}
           grp == [d.groups[g] EXCEPT !.members = @ \cup granted,
                                      !.requests = @ \ granted]
<1>1. d.groups[g] \in GroupType /\ GroupBacked(d.groups[g], g, I)
  BY DEF Exists, Backed, DirectoryType
<1>2. GroupBacked(grp, g, I)
  BY <1>1 DEF GroupBacked, GroupType
<1>3. Accept(d, g, m.cmd.u).groups = [d.groups EXCEPT ![g] = grp]
  BY DEF Accept, DirectoryType, GroupType
<1> QED  BY <1>2, <1>3, OneGroup

LEMMA AddFileBacked ==
    ASSUME NEW d \in DirectoryType, NEW I, NEW m \in I, NEW S, Backed(d, I),
           m.cmd.op = "upload_file", m.cmd.g \in GroupId,
           Exists(d, m.cmd.g)
    PROVE  Backed(AddFile(d, m.cmd.g, m.cmd.f, m.by, S), I)
<1> DEFINE g == m.cmd.g
           file == [by |-> m.by, seeders |-> S]
           grp == [d.groups[g] EXCEPT !.files[m.cmd.f] = file]
<1>1. d.groups[g] \in GroupType /\ GroupBacked(d.groups[g], g, I)
  BY DEF Exists, Backed, DirectoryType
<1>2. /\ grp.members = d.groups[g].members
      /\ grp.requests = d.groups[g].requests
      /\ grp.owner = d.groups[g].owner
      /\ \A f \in FileName :
            grp.files[f] = IF f = m.cmd.f THEN file ELSE d.groups[g].files[f]
  BY <1>1 DEF GroupType
<1> HIDE DEF grp
<1>3. GroupBacked(grp, g, I)
  <2>1. ASSUME NEW f \in FileName, grp.files[f] # None
        PROVE  \E l \in I : /\ l.cmd.op = "upload_file"
                            /\ l.cmd.g = g /\ l.cmd.f = f
                            /\ l.by = grp.files[f].by
    <3>1. CASE f = m.cmd.f
      BY <1>2, <3>1
    <3>2. CASE f # m.cmd.f
      BY <1>1, <1>2, <2>1, <3>2 DEF GroupBacked
    <3> QED  BY <3>1, <3>2
  <2> HIDE DEF g, file
  <2> QED  BY <1>1, <1>2, <2>1 DEF GroupBacked
<1>4. AddFile(d, g, m.cmd.f, m.by, S).groups = [d.groups EXCEPT ![g] = grp]
  BY DEF AddFile, DirectoryType, grp
<1> QED  BY <1>3, <1>4, OneGroup

LEMMA RemoveFileBacked ==
    ASSUME NEW d \in DirectoryType, NEW I, NEW g \in GroupId, NEW f,
           Backed(d, I), Exists(d, g)
    PROVE  Backed(RemoveFile(d, g, f), I)
<1> DEFINE grp == [d.groups[g] EXCEPT !.files[f] = None]
<1>1. d.groups[g] \in GroupType /\ GroupBacked(d.groups[g], g, I)
  BY DEF Exists, Backed, DirectoryType
<1>2. GroupBacked(grp, g, I)
  BY <1>1 DEF GroupBacked, GroupType
<1>3. RemoveFile(d, g, f).groups = [d.groups EXCEPT ![g] = grp]
  BY DEF RemoveFile, DirectoryType
<1> QED  BY <1>2, <1>3, OneGroup

LEMMA AddSeederBacked ==
    ASSUME NEW d \in DirectoryType, NEW I, NEW g \in GroupId, NEW f, NEW s,
           Backed(d, I), Listed(d, g, f)
    PROVE  Backed(AddSeeder(d, g, f, s), I)
<1> DEFINE file == d.groups[g].files[f]
           grp == [d.groups[g] EXCEPT
                      !.files[f] = [file EXCEPT !.seeders = @ \cup {s}]]
<1>1. d.groups[g] \in GroupType /\ GroupBacked(d.groups[g], g, I)
  BY DEF Exists, Listed, Backed, DirectoryType
<1>2. f \in FileName => file \in FileType
  BY <1>1 DEF Listed, GroupType
<1>3. /\ grp.members = d.groups[g].members
      /\ grp.requests = d.groups[g].requests
      /\ grp.owner = d.groups[g].owner
      /\ \A h \in FileName :
            grp.files[h] = IF h = f THEN [file EXCEPT !.seeders = @ \cup {s}]
                                    ELSE d.groups[g].files[h]
  BY <1>1 DEF GroupType
<1> HIDE DEF grp
<1>4. f \in FileName => grp.files[f].by = file.by
  BY <1>2, <1>3 DEF FileType
<1>5. GroupBacked(grp, g, I)
  BY <1>1, <1>3, <1>4 DEF GroupBacked, Listed
<1>6. AddSeeder(d, g, f, s).groups = [d.groups EXCEPT ![g] = grp]
  BY DEF AddSeeder, DirectoryType, grp
<1> QED  BY <1>5, <1>6, OneGroup

(* A command that a handler allows rests on itself, and on what allowed it. *)
LEMMA ServeBacked ==
    ASSUME NEW d \in DirectoryType, NEW I, NEW m \in I, m \in MessageType,
           Allowed(d, m), Backed(d, I)
    PROVE  Backed(Serve(d, m), I)
<1> DEFINE k == m.cmd
<1>0. /\ k \in CommandType
      /\ \A g : Exists(d, g) /\ g \in GroupId \cup {None} => g \in GroupId
  BY DEF MessageType, Exists
<1>1. CASE k.op = "create_user"
  <2>1. Serve(d, m).groups = d.groups
    BY <1>1 DEF Serve, AddUser, DirectoryType
  <2> QED  BY <2>1, SameGroups
<1>2. CASE k.op = "login"
  <2>1. Serve(d, m).groups = d.groups
    BY <1>2 DEF Serve, DirectoryType
  <2> QED  BY <2>1, SameGroups
<1>3. CASE k.op = "create_group"
  BY <1>3, AddGroupBacked DEF Serve
<1>4. CASE k.op = "join_group"
  BY <1>0, <1>4, AddRequestBacked DEF Serve, Allowed, CommandType
<1>5. CASE k.op = "leave_group"
  BY <1>0, <1>5, RemoveUserBacked DEF Serve, Allowed, CommandType
<1>6. CASE k.op = "accept_request"
  BY <1>0, <1>6, AcceptBacked DEF Serve, Allowed, CommandType
<1>7. CASE k.op = "upload_file"
  BY <1>0, <1>7, AddFileBacked DEF Serve, Allowed, CommandType
<1>8. CASE k.op = "stop_share"
  BY <1>0, <1>8, RemoveFileBacked DEF Serve, Allowed, Listed, CommandType
<1>9. CASE k.op = "piece_completed"
  BY <1>0, <1>9, AddSeederBacked DEF Serve, Allowed, Listed, CommandType
<1> QED  BY <1>0, <1>1, <1>2, <1>3, <1>4, <1>5, <1>6, <1>7, <1>8, <1>9
         DEF CommandType

(* So does a message that a replica takes in. *)
LEMMA ReplayBacked ==
    ASSUME NEW d \in DirectoryType, NEW I, NEW m \in I, m \in MessageType,
           Backed(d, I)
    PROVE  Backed(Replay(d, m), I)
<1> DEFINE k == m.cmd
<1>0. /\ k \in CommandType
      /\ \A g : Exists(d, g) /\ g \in GroupId \cup {None} => g \in GroupId
  BY DEF MessageType, Exists
<1>a. CASE ~Replayable(d, m)
  BY <1>a DEF Replay
<1>b. CASE Replayable(d, m)
  <2>1. CASE k.op = "create_user"
    <3>1. Replay(d, m).groups = d.groups
      BY <1>b, <2>1 DEF Replay, AddUser, DirectoryType
    <3> QED  BY <3>1, SameGroups
  <2>2. CASE k.op = "login"
    <3>1. Replay(d, m).groups = d.groups
      BY <1>b, <2>2 DEF Replay, DirectoryType
    <3> QED  BY <3>1, SameGroups
  <2>3. CASE k.op = "create_group"
    BY <1>b, <2>3, AddGroupBacked DEF Replay
  <2>4. CASE k.op = "join_group"
    BY <1>0, <1>b, <2>4, AddRequestBacked DEF Replay, Replayable, CommandType
  <2>5. CASE k.op = "leave_group"
    BY <1>0, <1>b, <2>5, RemoveUserBacked DEF Replay, Replayable, CommandType
  <2>6. CASE k.op = "accept_request"
    BY <1>0, <1>b, <2>6, AcceptBacked DEF Replay, Replayable, CommandType
  <2>7. CASE k.op = "upload_file"
    BY <1>0, <1>b, <2>7, AddFileBacked DEF Replay, Replayable, CommandType
  <2>8. CASE k.op = "stop_share"
    BY <1>0, <1>b, <2>8, RemoveFileBacked DEF Replay, Replayable, CommandType
  <2>9. k.op # "piece_completed"
    BY <1>b DEF Replayable
  <2> QED  BY <1>0, <2>1, <2>2, <2>3, <2>4, <2>5, <2>6, <2>7, <2>8, <2>9
           DEF CommandType
<1> QED  BY <1>a, <1>b

(* The directory the trackers start from holds at most groups that were just *)
(* founded: what happened before is not in the history.                      *)
Fresh == \A g \in GroupId : Exists(Standing, g) =>
            \E u \in Name : Standing.groups[g] = NewGroup(u)

LEMMA InitBacked == Fresh /\ Init => AllBacked
<1> SUFFICES ASSUME Fresh, Init PROVE AllBacked
  OBVIOUS
<1>1. Backed(Standing, issued)
  <2> SUFFICES ASSUME NEW g \in GroupId, Exists(Standing, g)
               PROVE  GroupBacked(Standing.groups[g], g, issued)
    BY DEF Backed
  <2>1. PICK u \in Name : Standing.groups[g] = NewGroup(u)
    BY DEF Fresh
  <2> QED  BY <2>1 DEF NewGroup, GroupBacked
<1>2. Backed(Empty, issued)
  BY DEF Backed, Exists, Empty
<1> QED  BY <1>1, <1>2 DEF Init, AllBacked

LEMMA NextBacked == Inv /\ AllBacked /\ [Next]_vars => AllBacked'
<1> SUFFICES ASSUME Inv, AllBacked, [Next]_vars PROVE AllBacked'
  OBVIOUS
<1>0. Typed /\ Coupled /\ Genuine
  BY DEF Inv
<1>1. ASSUME NEW t \in Tracker, Crash(t) PROVE AllBacked'
  <2>1. Backed(Empty, issued)
    BY DEF Backed, Exists, Empty
  <2> QED  BY <1>0, <1>1, <2>1 DEF Crash, AllBacked, Typed
<1>2. ASSUME NEW t \in Tracker, HandleSync(t) PROVE AllBacked'
  <2> DEFINE m == Head(inbox[t])
  <2>1. m \in issued
    BY <1>0, <1>2 DEF HandleSync, Genuine
  <2>2. m \in MessageType
    BY <1>0, <2>1, MessagesType DEF Genuine
  <2>3. /\ dir' = [dir EXCEPT ![t] = Replay(dir[t], m)]
        /\ UNCHANGED issued
    BY <1>2 DEF HandleSync
  <2> HIDE DEF m
  <2>4. Backed(Replay(dir[t], m), issued)
    BY <1>0, <2>1, <2>2, ReplayBacked DEF AllBacked, Typed
  <2> QED  BY <1>0, <2>3, <2>4 DEF AllBacked, Typed
<1>3. ASSUME NEW s \in Session, Quit(s) PROVE AllBacked'
  <2> DEFINE t == trackerIndex[s]
             d == [dir[t] EXCEPT !.loggedIn = @ \ {clientName[s]}]
  <2>1. t \in Tracker
    BY <1>0, <1>3, Serving DEF Quit
  <2>2. d.groups = dir[t].groups
    BY <1>0, <2>1 DEF Typed, DirectoryType
  <2>3. dir' = [dir EXCEPT ![t] = d] /\ UNCHANGED issued
    BY <1>3 DEF Quit
  <2> HIDE DEF d
  <2>4. Backed(d, issued)
    BY <2>1, <2>2, SameGroups DEF AllBacked
  <2> QED  BY <1>0, <2>1, <2>3, <2>4 DEF AllBacked, Typed
<1>4. ASSUME NEW s \in Session, NEW k \in Cmd, Command(s, k)
      PROVE  AllBacked'
  <2> DEFINE t == trackerIndex[s]
             m == [cmd |-> k, by |-> clientName[s], at |-> s]
  <2>1. t \in Tracker
    BY <1>0, <1>4, Serving DEF Command
  <2>2. m \in MessageType
    BY <1>0, MessagesType DEF Typed, Messages
  <2>3. /\ Allowed(dir[t], m)
        /\ dir' = [dir EXCEPT ![t] = Serve(dir[t], m)]
        /\ issued' = issued \cup {m}
    BY <1>4 DEF Command
  <2> HIDE DEF m
  <2>4. \A r \in Tracker : Backed(dir[r], issued')
    BY <2>3, BackedGrows DEF AllBacked
  <2>5. Backed(Serve(dir[t], m), issued')
    BY <1>0, <2>1, <2>2, <2>3, <2>4, ServeBacked DEF Typed
  <2> QED  BY <1>0, <2>3, <2>4, <2>5 DEF AllBacked, Typed
<1>5. ASSUME UNCHANGED <<dir, issued>> PROVE AllBacked'
  BY <1>5 DEF AllBacked
<1>6. ASSUME NEW t \in Tracker,
             \/ Start(t)
             \/ Probe(t)
             \/ EndRound(t)
             \/ FlushBegin(t)
             \/ FlushOne(t)
             \/ FlushEnd(t)
      PROVE  AllBacked'
  BY <1>5, <1>6 DEF Start, Probe, EndRound, FlushBegin, FlushOne, FlushEnd
<1>7. ASSUME NEW s \in Session, Connect(s) \/ Announce(s) \/ SendSync(s)
      PROVE  AllBacked'
  BY <1>5, <1>7 DEF Connect, Announce, SendSync
<1>8. CASE UNCHANGED vars
  BY <1>5, <1>8 DEF vars
<1> QED  BY <1>1, <1>2, <1>3, <1>4, <1>6, <1>7, <1>8 DEF Next

(* Whatever is lost, delayed, overtaken by a later message, queued for       *)
(* another tracker or cut off by a crash, no tracker has a member that did   *)
(* not ask and was not let in, or lists a file nobody uploaded.              *)
THEOREM NothingInvented == ASSUME Fresh PROVE Spec => []Vouched
<1>1. AllBacked => Vouched
  <2> SUFFICES ASSUME AllBacked, NEW t \in Tracker, NEW g \in GroupId,
                      Exists(dir[t], g)
               PROVE  LET grp == dir[t].groups[g]
                      IN  /\ \A u \in grp.members :
                                \/ u = grp.owner
                                \/ Requested(g, u) /\ Granted(g, u)
                          /\ \A f \in FileName :
                                Listed(dir[t], g, f) =>
                                    Shared(g, f, grp.files[f].by)
    BY DEF Vouched
  <2>1. GroupBacked(dir[t].groups[g], g, issued)
    BY DEF AllBacked, Backed
  <2> QED  BY <2>1 DEF GroupBacked, Requested, Granted, Shared, Listed
<1>2. Init => AllBacked
  BY InitBacked
<1> QED  BY <1>1, <1>2, InitInv, NextInv, NextBacked, PTL DEF Spec

=============================================================================
