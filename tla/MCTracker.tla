------------------------------ MODULE MCTracker ------------------------------
(***************************************************************************)
(* Instances of Tracker for TLC.  Each run gives Cmd one of the command    *)
(* sets below, so that the interleavings of one subsystem are explored in  *)
(* full; the others are covered by the other runs.                         *)
(***************************************************************************)
EXTENDS Tracker, TLC, FiniteSets

CONSTANTS u1, u2, p1, p2, g1, f1

C(op, u, p, g, f, i) ==
    [op |-> op, u |-> u, p |-> p, g |-> g, f |-> f, i |-> i]

Create(u, p) == C("create_user", u, p, None, None, None)
LoginAs(u, p) == C("login", u, p, None, None, None)
InGroup(op, g) == C(op, None, None, g, None, None)
AcceptUser(g, u) == C("accept_request", u, None, g, None, None)
OnFile(op, g, f) == C(op, None, None, g, f, None)
Completed(g, f, i) == C("piece_completed", None, None, g, f, i)

(* Two users register under competing passwords and log in. *)
AccountCmds == {Create(u1, p1), Create(u1, p2), Create(u2, p1),
                LoginAs(u1, p1), LoginAs(u2, p2)}

(* One group id: created, perhaps once more while another thread holds the  *)
(* object it had; joined, accepted.                                          *)
GroupCmds == {Create(u1, p1), Create(u2, p1), LoginAs(u1, p1),
              LoginAs(u2, p1), InGroup("create_group", g1),
              InGroup("join_group", g1), AcceptUser(g1, u2)}

(* The same with a file that is uploaded and withdrawn. *)
ListingCmds == GroupCmds \cup {OnFile("upload_file", g1, f1),
                               OnFile("stop_share", g1, f1)}

(* The same with members that leave, and a file whose only piece others      *)
(* complete.                                                                 *)
SharingCmds == ListingCmds \cup {InGroup("leave_group", g1),
                                 Completed(g1, f1, 0)}

(* Bound: at most this many different changes are announced. *)
MaxChanges == 7
Bounded == Cardinality(outbox) <= MaxChanges

Symmetry == Permutations(Conn) \cup Permutations(GroupObj)
                               \cup Permutations(FileObj)
=============================================================================
