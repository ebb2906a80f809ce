---------------------------- MODULE MCTrackerSync ----------------------------
(***************************************************************************)
(* Instances of TrackerSync for TLC: the commands of a run, and which      *)
(* trackers may crash.                                                     *)
(***************************************************************************)
EXTENDS TrackerSync, TLC

CONSTANTS u1, u2, pw, g1, g2, f1

K(op, u, p, g, f) == [op |-> op, u |-> u, p |-> p, g |-> g, f |-> f]

Create(u, p) == K("create_user", u, p, None, None)
LoginAs(u, p) == K("login", u, p, None, None)
InGroup(op) == K(op, None, None, g1, None)
AcceptUser(u) == K("accept_request", u, None, g1, None)
OnFile(op) == K(op, None, None, g1, f1)

(* One user and everything the handlers can be asked about one file of one  *)
(* group; the user may leave it, ask to be let in again, and accept that.    *)
SteadyCmds == {Create(u1, pw), LoginAs(u1, pw), InGroup("create_group"),
               InGroup("join_group"), InGroup("leave_group"),
               AcceptUser(u1), OnFile("upload_file"), OnFile("stop_share"),
               OnFile("piece_completed")}

(* A user joins a group that exists, lets itself in (whoever owns some group *)
(* may accept requests to any), and uploads to it.                           *)
JoinCmds == {LoginAs(u2, pw), InGroup("join_group"), AcceptUser(u2),
             OnFile("upload_file")}

(* One user who shares a file. *)
ShareCmds == {Create(u1, pw), LoginAs(u1, pw), InGroup("create_group"),
              OnFile("upload_file"), OnFile("piece_completed")}

(* Registrations alone, and nothing at all. *)
CreateCmds == {Create(u1, pw), Create(u2, u1)}
NoCmds == {}

(* Two registered users, each of whom has founded a group. *)
Founded == AddGroup(AddGroup(AddUser(AddUser(Empty, u1, pw), u2, pw),
                             g1, u1),
                    g2, u2)

NoCrash == [t \in Tracker |-> 0]
AnyCrash == [t \in Tracker |-> 1]
PrimaryCrash == [t \in Tracker |-> IF t = 0 THEN 1 ELSE 0]

(* Every attempt to connect may fail, or all but those to tracker 0. *)
AllFaulty == Tracker \X Tracker
OthersFaulty == Tracker \X (Tracker \ {0})
=============================================================================
