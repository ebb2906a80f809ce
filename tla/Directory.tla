------------------------------ MODULE Directory ------------------------------
(***************************************************************************)
(* The directory a tracker keeps, as a value, and the two ways the program *)
(* changes it: Serve is what the handlers of tracker.cpp do for a client's *)
(* command, Replay what processSyncMessage (synchronize.h) does with the   *)
(* sync message another tracker sent for the same command.  Replication is *)
(* right only as far as the two agree.                                     *)
(*                                                                         *)
(* Users and passwords are both Names, for LOGIN's message is read with    *)
(* the two exchanged.  Files have one piece; its seeders are the client    *)
(* sessions that hold it.  The check and the write of a handler, apart in  *)
(* Tracker, are one step here.                                             *)
(***************************************************************************)
EXTENDS Naturals, Sequences

CONSTANTS
    Name,       \* user ids and passwords
    GroupId, FileName,
    Session,    \* client processes; also the address each one listens on
    None        \* absent map entry, empty clientName

ASSUME NameAssumption == None \notin Name \cup Session

(* A command as its handler reads it.  "by" is the thread's clientName, "at" *)
(* the client's address.                                                     *)
CommandType ==
    [op : {"create_user", "login", "create_group", "join_group",
           "leave_group", "accept_request", "upload_file", "stop_share",
           "piece_completed"},
     u  : Name \cup {None}, p : Name \cup {None},
     g  : GroupId \cup {None}, f : FileName \cup {None}]

MessageType == [cmd : CommandType, by : Name \cup {None}, at : Session]

FileType == [by : Name, seeders : SUBSET Session]

GroupType == [owner : Name, members : SUBSET Name, requests : SUBSET Name,
              files : [FileName -> FileType \cup {None}]]

ASSUME NoneAssumption == None \notin FileType \cup GroupType

DirectoryType == [users    : [Name -> Name \cup {None}],
                  loggedIn : SUBSET Name,
                  owners   : SUBSET Name,
                  groups   : [GroupId -> GroupType \cup {None}]]

Empty == [users    |-> [n \in Name |-> None],
          loggedIn |-> {},
          owners   |-> {},
          groups   |-> [g \in GroupId |-> None]]

NewGroup(owner) == [owner |-> owner, members |-> {owner}, requests |-> {},
                    files |-> [f \in FileName |-> None]]

Known(d, u) == u # None /\ d.users[u] # None
Exists(d, g) == g # None /\ d.groups[g] # None
Listed(d, g, f) == Exists(d, g) /\ d.groups[g].files[f] # None

-----------------------------------------------------------------------------
(* The writes both sides share. *)

AddUser(d, u, p) == [d EXCEPT !.users[u] = p]

AddGroup(d, g, owner) == [d EXCEPT !.groups[g] = NewGroup(owner),
                                   !.owners = @ \cup {owner}]

AddRequest(d, g, u) == [d EXCEPT !.groups[g].requests = @ \cup {u}]

RemoveUser(d, g, u) == [d EXCEPT !.groups[g].members = @ \ {u}]

(* Mutant: whether there is a request does not matter. *)
AcceptUnasked(d, g, u) ==
    [d EXCEPT !.groups[g].members = @ \cup {u},
              !.groups[g].requests = @ \ {u}]

(* Group::acceptRequest *)
Accept(d, g, u) ==
    LET granted == d.groups[g].requests \cap {u}
    IN  [d EXCEPT !.groups[g].members = @ \cup granted,
                  !.groups[g].requests = @ \ granted]

AddFile(d, g, f, u, seeders) ==
    [d EXCEPT !.groups[g].files[f] = [by |-> u, seeders |-> seeders]]

AddSeeder(d, g, f, s) ==
    [d EXCEPT !.groups[g].files[f].seeders = @ \cup {s}]

RemoveFile(d, g, f) == [d EXCEPT !.groups[g].files[f] = None]

-----------------------------------------------------------------------------
(* A client's command reaches the writes of its handler. *)
Allowed(d, m) ==
    LET k == m.cmd
    IN  CASE k.op = "create_user" -> ~Known(d, k.u)
          [] k.op = "login" -> Known(d, k.u)
          [] k.op = "create_group" -> m.by # None
          [] k.op = "join_group" ->
                /\ m.by # None
                /\ Exists(d, k.g)
                /\ m.by \notin d.groups[k.g].members
          [] k.op = "leave_group" -> m.by # None /\ Exists(d, k.g)
          [] k.op = "accept_request" ->
                /\ Exists(d, k.g)
                /\ Known(d, k.u)
                /\ m.by \in d.owners
          [] k.op = "upload_file" ->
                /\ m.by # None
                /\ Exists(d, k.g)
                /\ m.by \in d.groups[k.g].members
                /\ ~Listed(d, k.g, k.f)
          [] k.op = "stop_share" ->
                /\ m.by # None
                /\ Listed(d, k.g, k.f)
                /\ d.groups[k.g].files[k.f].by = m.by
          [] k.op = "piece_completed" ->
                /\ m.by # None
                /\ Listed(d, k.g, k.f)
                /\ d.groups[k.g].files[k.f].seeders # {} \* the piece exists
                /\ m.at \notin d.groups[k.g].files[k.f].seeders

Serve(d, m) ==
    LET k == m.cmd
    IN  CASE k.op = "create_user" -> AddUser(d, k.u, k.p)
          [] k.op = "login" -> [d EXCEPT !.loggedIn = @ \cup {k.u}]
          [] k.op = "create_group" -> AddGroup(d, k.g, m.by)
          [] k.op = "join_group" -> AddRequest(d, k.g, m.by)
          [] k.op = "leave_group" -> RemoveUser(d, k.g, m.by)
          [] k.op = "accept_request" -> Accept(d, k.g, k.u)
          [] k.op = "upload_file" -> AddFile(d, k.g, k.f, m.by, {m.at})
          [] k.op = "stop_share" -> RemoveFile(d, k.g, k.f)
          [] k.op = "piece_completed" -> AddSeeder(d, k.g, k.f, m.at)

(* The sync message is taken in if it makes sense here; otherwise it is      *)
(* dropped.  LOGIN looks for its second token, the password, among the user  *)
(* ids; UPLOAD_FILE's first branch leaves the file without pieces, hence     *)
(* without seeders, and the branch that reads the seeder is never reached;   *)
(* PIECE_COMPLETED has no branch.                                            *)
Replayable(d, m) ==
    LET k == m.cmd
    IN  CASE k.op = "create_user" -> ~Known(d, k.u)
          [] k.op = "login" -> Known(d, k.p)
          [] k.op = "create_group" -> Known(d, m.by)
          [] k.op \in {"join_group", "leave_group"} ->
                Known(d, m.by) /\ Exists(d, k.g)
          [] k.op \in {"accept_request", "upload_file", "stop_share"} ->
                Exists(d, k.g)
          [] k.op = "piece_completed" -> FALSE

Replay(d, m) ==
    LET k == m.cmd
    IN  IF ~Replayable(d, m) THEN d
        ELSE CASE k.op = "create_user" -> AddUser(d, k.u, k.p)
               [] k.op = "login" -> [d EXCEPT !.loggedIn = @ \cup {k.p}]
               [] k.op = "create_group" -> AddGroup(d, k.g, m.by)
               [] k.op = "join_group" -> AddRequest(d, k.g, m.by)
               [] k.op = "leave_group" -> RemoveUser(d, k.g, m.by)
               [] k.op = "accept_request" -> Accept(d, k.g, k.u)
               [] k.op = "upload_file" -> AddFile(d, k.g, k.f, m.by, {})
               [] k.op = "stop_share" -> RemoveFile(d, k.g, k.f)

-----------------------------------------------------------------------------
(* The part of a directory that survives replication when all goes well:     *)
(* everything except who is logged in and who seeds what.                    *)
Unseeded(grp) ==
    [grp EXCEPT !.files = [f \in FileName |->
        IF grp.files[f] = None THEN None
        ELSE [grp.files[f] EXCEPT !.seeders = {}]]]

Durable(d) ==
    [users    |-> d.users,
     loggedIn |-> {},
     owners   |-> d.owners,
     groups   |-> [g \in GroupId |->
                     IF d.groups[g] = None THEN None ELSE Unseeded(d.groups[g])]]
=============================================================================
