----------------------------- MODULE TrackerSync -----------------------------
(***************************************************************************)
(* The trackers together: replication of the directory by sync messages    *)
(* (syncMessageHelper, sendSyncInfo, syncHandler, messageFlusher), the     *)
(* health checks that make a tracker the primary (healthChecker), crashes  *)
(* and restarts, and the clients that walk down the list of trackers.      *)
(*                                                                         *)
(* A sync message travels on a connection of its own.  The receiver        *)
(* accepts connections in the order they were made and reads each to its   *)
(* end before the next, so connecting is what orders messages and inbox is *)
(* a queue.  The handlers of Directory are atomic here; what is not is the *)
(* announcement, which the connection thread makes afterwards.             *)
(*                                                                         *)
(* A tracker may die at any moment, of a null Group (UnknownGroup of       *)
(* Tracker), of SIGPIPE, or because someone stops it; it keeps nothing on  *)
(* disk.  An attempt to connect to a dead tracker fails.  One to a running *)
(* tracker succeeds, but between the pairs of Faulty it may fail as well:  *)
(* socket() gives no descriptor, connect gives up after two seconds, or    *)
(* the sync port of the other tracker could not be bound.                  *)
(***************************************************************************)
EXTENDS Directory, FiniteSets, SequencesExt

CONSTANTS
    N,          \* lines of tracker_info.txt
    Started,    \* trackers that run in the initial state
    Standing,   \* the directory those trackers agree on by then
    Cmd,        \* the commands clients send
    Faulty,     \* pairs <<t, r>>: t may fail to reach r although r runs
    MaxServed,  \* bound: commands served over all trackers
    MaxCrashes  \* bound: how often each tracker crashes, a function

Tracker == 0 .. N - 1

ASSUME SyncAssumption == /\ N \in Nat \ {0}
                         /\ Started \subseteq Tracker
                         /\ Standing \in DirectoryType
                         /\ Cmd \subseteq CommandType
                         /\ Faulty \subseteq Tracker \X Tracker
                         /\ MaxCrashes \in [Tracker -> Nat]

VARIABLES
    up,         \* the process runs
    dir,        \* its directory
    isPrimary,
    activeTrackers,
    probed,     \* healthChecker: trackers tried in this round
    actTrack,   \* healthChecker: those that answered
    pendingMessages,
    flushing,   \* messageFlusher holds queueLock
    temp,       \* messageFlusher: messages to keep
    inbox,      \* accepted and unread sync connections
    trackerIndex,   \* client: where it is on the list, N when it gave up
    connected,  \* client: it has a connection to that tracker
    clientName, \* of the thread that serves the client
    phase,      \* of that thread: recv, announce (about to call
                \* syncMessageHelper), send (in its loop)
    msg,        \* the message it announces
    to,         \* the trackers its loop has not reached
    served, crashes,    \* counters for the bounds
    issued      \* history: all commands that changed a directory

processVars == <<up, crashes>>
healthVars == <<isPrimary, activeTrackers, probed, actTrack>>
queueVars == <<pendingMessages, flushing, temp>>
clientVars == <<trackerIndex, connected>>
threadVars == <<clientName, phase, msg, to>>
vars == <<processVars, dir, healthVars, queueVars, inbox, clientVars,
          threadVars, served, issued>>

(* trackers, without the one at t, in the order of the file *)
Others(t) == [i \in 1 .. N - 1 |-> IF i <= t THEN i - 1 ELSE i]

NoMsg == [cmd |-> None, by |-> None, at |-> None]

Init ==
    /\ up = [t \in Tracker |-> t \in Started]
    /\ dir = [t \in Tracker |-> IF t \in Started THEN Standing
                                               ELSE Empty]
    /\ isPrimary = [t \in Tracker |-> t = 0]
    /\ activeTrackers = [t \in Tracker |-> <<>>]
    /\ probed = [t \in Tracker |-> 0]
    /\ actTrack = [t \in Tracker |-> <<>>]
    /\ pendingMessages = [t \in Tracker |-> <<>>]
    /\ flushing = [t \in Tracker |-> FALSE]
    /\ temp = [t \in Tracker |-> <<>>]
    /\ inbox = [t \in Tracker |-> <<>>]
    /\ trackerIndex = [s \in Session |-> 0]
    /\ connected = [s \in Session |-> FALSE]
    /\ clientName = [s \in Session |-> None]
    /\ phase = [s \in Session |-> "recv"]
    /\ msg = [s \in Session |-> NoMsg]
    /\ to = [s \in Session |-> <<>>]
    /\ served = 0
    /\ crashes = [t \in Tracker |-> 0]
    /\ issued = {}

-----------------------------------------------------------------------------
(* The tracker processes. *)

Start(t) ==
    /\ ~up[t]
    /\ up' = [up EXCEPT ![t] = TRUE]
    /\ UNCHANGED <<crashes, dir, healthVars, queueVars, inbox, clientVars,
                   threadVars, served, issued>>

(* Memory and unread connections are gone; what main sets up on a restart is *)
(* set already, for nothing looks at it before.  Clients see the connection  *)
(* close and move on to the next tracker of the list.                        *)
Crash(t) ==
    LET cut == {s \in Session : connected[s] /\ trackerIndex[s] = t}
        fresh(f, v) == [s \in Session |-> IF s \in cut THEN v ELSE f[s]]
    IN  /\ up[t]
        /\ crashes[t] < MaxCrashes[t]
        /\ crashes' = [crashes EXCEPT ![t] = @ + 1]
        /\ up' = [up EXCEPT ![t] = FALSE]
        /\ dir' = [dir EXCEPT ![t] = Empty]
        /\ isPrimary' = [isPrimary EXCEPT ![t] = t = 0]
        /\ activeTrackers' = [activeTrackers EXCEPT ![t] = <<>>]
        /\ probed' = [probed EXCEPT ![t] = 0]
        /\ actTrack' = [actTrack EXCEPT ![t] = <<>>]
        /\ pendingMessages' = [pendingMessages EXCEPT ![t] = <<>>]
        /\ flushing' = [flushing EXCEPT ![t] = FALSE]
        /\ temp' = [temp EXCEPT ![t] = <<>>]
        /\ inbox' = [inbox EXCEPT ![t] = <<>>]
        /\ connected' = fresh(connected, FALSE)
        /\ trackerIndex' = fresh(trackerIndex, t + 1)
        /\ clientName' = fresh(clientName, None)
        /\ phase' = fresh(phase, "recv")
        /\ msg' = fresh(msg, NoMsg)
        /\ to' = fresh(to, <<>>)
        /\ UNCHANGED <<served, issued>>

-----------------------------------------------------------------------------
(* Health checks. *)

(* An attempt of t to connect to the sync port of r can fail. *)
Misses(t, r) == ~up[r] \/ <<t, r>> \in Faulty

Probe(t) ==
    /\ up[t]
    /\ probed[t] < Len(Others(t))
    /\ LET r == Others(t)[probed[t] + 1]
       IN  \/ up[r] /\ actTrack' = [actTrack EXCEPT ![t] = Append(@, r)]
           \/ Misses(t, r) /\ UNCHANGED actTrack
    /\ probed' = [probed EXCEPT ![t] = @ + 1]
    /\ UNCHANGED <<processVars, dir, isPrimary, activeTrackers, queueVars,
                   inbox, clientVars, threadVars, served, issued>>

ContainsPrimary(trackers) == \E i \in DOMAIN trackers : trackers[i] = 0

(* Mutants: any silent tracker promotes; only complete silence does. *)
EndRoundAnySilent(t) ==
    /\ up[t]
    /\ probed[t] = Len(Others(t))
    /\ activeTrackers' = [activeTrackers EXCEPT ![t] = actTrack[t]]
    /\ isPrimary' = [isPrimary EXCEPT ![t] = @ \/ Len(actTrack[t]) < N - 1]
    /\ probed' = [probed EXCEPT ![t] = 0]
    /\ actTrack' = [actTrack EXCEPT ![t] = <<>>]
    /\ UNCHANGED <<processVars, dir, queueVars, inbox, clientVars, threadVars,
                   served, issued>>

EndRoundAllSilent(t) ==
    /\ up[t]
    /\ probed[t] = Len(Others(t))
    /\ activeTrackers' = [activeTrackers EXCEPT ![t] = actTrack[t]]
    /\ isPrimary' = [isPrimary EXCEPT ![t] = @ \/ actTrack[t] = <<>>]
    /\ probed' = [probed EXCEPT ![t] = 0]
    /\ actTrack' = [actTrack EXCEPT ![t] = <<>>]
    /\ UNCHANGED <<processVars, dir, queueVars, inbox, clientVars, threadVars,
                   served, issued>>

(* A primary never looks whether there is another one, and stays primary. *)
EndRound(t) ==
    /\ up[t]
    /\ probed[t] = Len(Others(t))
    /\ activeTrackers' = [activeTrackers EXCEPT ![t] = actTrack[t]]
    /\ isPrimary' = [isPrimary EXCEPT
                        ![t] = @ \/ ~ContainsPrimary(actTrack[t])]
    /\ probed' = [probed EXCEPT ![t] = 0]
    /\ actTrack' = [actTrack EXCEPT ![t] = <<>>]
    /\ UNCHANGED <<processVars, dir, queueVars, inbox, clientVars, threadVars,
                   served, issued>>

-----------------------------------------------------------------------------
(* Clients. *)

Connect(s) ==
    /\ ~connected[s]
    /\ trackerIndex[s] < N
    /\ IF up[trackerIndex[s]]
       THEN /\ connected' = [connected EXCEPT ![s] = TRUE]
            /\ UNCHANGED trackerIndex
       ELSE /\ trackerIndex' = [trackerIndex EXCEPT ![s] = @ + 1]
            /\ UNCHANGED connected
    /\ UNCHANGED <<processVars, dir, healthVars, queueVars, inbox, threadVars,
                   served, issued>>

(* The thread sees the end of the connection; the client process is gone. *)
Quit(s) ==
    LET t == trackerIndex[s]
    IN  /\ connected[s]
        /\ phase[s] = "recv"
        /\ dir' = [dir EXCEPT ![t].loggedIn = @ \ {clientName[s]}]
        /\ clientName' = [clientName EXCEPT ![s] = None]
        /\ connected' = [connected EXCEPT ![s] = FALSE]
        /\ trackerIndex' = [trackerIndex EXCEPT ![s] = N]
        /\ UNCHANGED <<processVars, healthVars, queueVars, inbox, phase, msg,
                       to, served, issued>>

(* A command that passes its handler's checks. *)
Command(s, k) ==
    LET t == trackerIndex[s]
        m == [cmd |-> k, by |-> clientName[s], at |-> s]
    IN  /\ connected[s]
        /\ phase[s] = "recv"
        /\ served < MaxServed
        /\ Allowed(dir[t], m)
        /\ dir' = [dir EXCEPT ![t] = Serve(@, m)]
        /\ clientName' = [clientName EXCEPT
                             ![s] = IF k.op = "login" THEN k.u ELSE @]
        /\ phase' = [phase EXCEPT ![s] = "announce"]
        /\ msg' = [msg EXCEPT ![s] = m]
        /\ served' = served + 1
        /\ issued' = issued \cup {m}
        /\ UNCHANGED <<processVars, healthVars, queueVars, inbox, clientVars,
                       to>>

-----------------------------------------------------------------------------
(* Sending. *)

Returns(s) ==
    /\ phase' = [phase EXCEPT ![s] = "recv"]
    /\ msg' = [msg EXCEPT ![s] = NoMsg]

(* syncMessageHelper: only a primary announces. *)
Announce(s) ==
    LET t == trackerIndex[s]
    IN  /\ phase[s] = "announce"
        /\ IF isPrimary[t] /\ N > 1
           THEN /\ phase' = [phase EXCEPT ![s] = "send"]
                /\ to' = [to EXCEPT ![s] = Others(t)]
                /\ UNCHANGED msg
           ELSE /\ Returns(s)
                /\ UNCHANGED to
        /\ UNCHANGED <<processVars, dir, healthVars, queueVars, inbox,
                       clientVars, clientName, served, issued>>

Deliver(r, m) == inbox' = [inbox EXCEPT ![r] = Append(@, m)]

(* Mutants: a message that cannot be sent is forgotten; the thread does not  *)
(* leave the loop.                                                           *)
SendSyncDrops(s) ==
    LET r == Head(to[s])
    IN  /\ phase[s] = "send"
        /\ IF up[r] THEN Deliver(r, msg[s]) ELSE UNCHANGED inbox
        /\ to' = [to EXCEPT ![s] = Tail(@)]
        /\ IF Tail(to[s]) = <<>> THEN Returns(s) ELSE UNCHANGED <<phase, msg>>
        /\ UNCHANGED <<processVars, dir, healthVars, queueVars, clientVars,
                       clientName, served, issued>>

SendSyncStays(s) ==
    LET r == Head(to[s])
    IN  /\ phase[s] = "send"
        /\ IF up[r] THEN Deliver(r, msg[s]) ELSE UNCHANGED inbox
        /\ to' = [to EXCEPT ![s] = Tail(@)]
        /\ UNCHANGED <<processVars, dir, healthVars, queueVars, clientVars,
                       clientName, phase, msg, served, issued>>

(* sendSyncInfo to the next tracker of the loop.  A message that cannot be   *)
(* sent is queued without its destination; when there is no socket to send   *)
(* it with, it is forgotten.                                                 *)
SendSync(s) ==
    LET t == trackerIndex[s]
        r == Head(to[s])
    IN  /\ phase[s] = "send"
        /\ \/ up[r] /\ Deliver(r, msg[s]) /\ UNCHANGED pendingMessages
           \/ /\ Misses(t, r)
              /\ ~flushing[t]
              /\ pendingMessages' = [pendingMessages EXCEPT
                                        ![t] = Append(@, msg[s])]
              /\ UNCHANGED inbox
           \/ <<t, r>> \in Faulty /\ UNCHANGED <<inbox, pendingMessages>>
        /\ to' = [to EXCEPT ![s] = Tail(@)]
        /\ IF Tail(to[s]) = <<>> THEN Returns(s) ELSE UNCHANGED <<phase, msg>>
        /\ UNCHANGED <<processVars, dir, healthVars, flushing, temp,
                       clientVars, clientName, served, issued>>

(* Mutant: the newest connection is read first. *)
HandleSyncNewest(r) ==
    /\ up[r]
    /\ inbox[r] # <<>>
    /\ dir' = [dir EXCEPT ![r] = Replay(@, inbox[r][Len(inbox[r])])]
    /\ inbox' = [inbox EXCEPT ![r] = Front(@)]
    /\ UNCHANGED <<processVars, healthVars, queueVars, clientVars, threadVars,
                   served, issued>>

(* syncHandler reads the oldest connection and processes its message. *)
HandleSync(r) ==
    /\ up[r]
    /\ inbox[r] # <<>>
    /\ dir' = [dir EXCEPT ![r] = Replay(@, Head(inbox[r]))]
    /\ inbox' = [inbox EXCEPT ![r] = Tail(@)]
    /\ UNCHANGED <<processVars, healthVars, queueVars, clientVars, threadVars,
                   served, issued>>

-----------------------------------------------------------------------------
(* The flusher: it takes queueLock, sends every queued message to the first  *)
(* active tracker, and puts back those it could not send.                    *)

FlushBegin(t) ==
    /\ up[t]
    /\ ~flushing[t]
    /\ pendingMessages[t] # <<>>
    /\ activeTrackers[t] # <<>>
    /\ flushing' = [flushing EXCEPT ![t] = TRUE]
    /\ UNCHANGED <<processVars, dir, healthVars, pendingMessages, temp, inbox,
                   clientVars, threadVars, served, issued>>

(* Where activeTrackers[0] leads: the health checker assigns the vector      *)
(* without a lock, and the storage of an emptied vector still names some     *)
(* other tracker.                                                            *)
FlushTargets(t) == IF activeTrackers[t] = <<>> THEN Tracker \ {t}
                                              ELSE {Head(activeTrackers[t])}

FlushOne(t) ==
    /\ up[t]
    /\ flushing[t]
    /\ pendingMessages[t] # <<>>
    /\ \E r \in FlushTargets(t) :
          \/ up[r] /\ Deliver(r, Head(pendingMessages[t])) /\ UNCHANGED temp
          \/ /\ Misses(t, r)
             /\ temp' = [temp EXCEPT ![t] = Append(@,
                                               Head(pendingMessages[t]))]
             /\ UNCHANGED inbox
    /\ pendingMessages' = [pendingMessages EXCEPT ![t] = Tail(@)]
    /\ UNCHANGED <<processVars, dir, healthVars, flushing, clientVars,
                   threadVars, served, issued>>

FlushEnd(t) ==
    /\ up[t]
    /\ flushing[t]
    /\ pendingMessages[t] = <<>>
    /\ pendingMessages' = [pendingMessages EXCEPT ![t] = temp[t]]
    /\ temp' = [temp EXCEPT ![t] = <<>>]
    /\ flushing' = [flushing EXCEPT ![t] = FALSE]
    /\ UNCHANGED <<processVars, dir, healthVars, inbox, clientVars, threadVars,
                   served, issued>>

-----------------------------------------------------------------------------
Next ==
    \/ \E t \in Tracker : \/ Start(t)
                          \/ Crash(t)
                          \/ Probe(t)
                          \/ EndRound(t)
                          \/ HandleSync(t)
                          \/ FlushBegin(t)
                          \/ FlushOne(t)
                          \/ FlushEnd(t)
    \/ \E s \in Session : \/ Connect(s)
                          \/ Quit(s)
                          \/ \E k \in Cmd : Command(s, k)
                          \/ Announce(s)
                          \/ SendSync(s)

Spec == Init /\ [][Next]_vars

(* The detached threads of a running tracker are scheduled: the health       *)
(* checker and the flusher wake every five seconds, the sync thread accepts, *)
(* a connection thread finishes its command.  Starting, crashing and what    *)
(* clients do is up to them.                                                 *)
Fairness ==
    /\ \A t \in Tracker : /\ WF_vars(Probe(t))
                          /\ WF_vars(EndRound(t))
                          /\ WF_vars(HandleSync(t))
                          /\ WF_vars(FlushBegin(t))
                          /\ WF_vars(FlushOne(t))
                          /\ WF_vars(FlushEnd(t))
    /\ \A s \in Session : WF_vars(Announce(s)) /\ WF_vars(SendSync(s))

FairSpec == Spec /\ Fairness

-----------------------------------------------------------------------------
Messages == [cmd : Cmd, by : Name \cup {None}, at : Session]

Typed ==
    /\ up \in [Tracker -> BOOLEAN]
    /\ dir \in [Tracker -> DirectoryType]
    /\ isPrimary \in [Tracker -> BOOLEAN]
    /\ activeTrackers \in [Tracker -> Seq(Tracker)]
    /\ probed \in [Tracker -> 0 .. N - 1]
    /\ actTrack \in [Tracker -> Seq(Tracker)]
    /\ pendingMessages \in [Tracker -> Seq(Messages)]
    /\ flushing \in [Tracker -> BOOLEAN]
    /\ temp \in [Tracker -> Seq(Messages)]
    /\ inbox \in [Tracker -> Seq(Messages)]
    /\ trackerIndex \in [Session -> 0 .. N]
    /\ connected \in [Session -> BOOLEAN]
    /\ clientName \in [Session -> Name \cup {None}]
    /\ phase \in [Session -> {"recv", "announce", "send"}]
    /\ msg \in [Session -> Messages \cup {NoMsg}]
    /\ to \in [Session -> Seq(Tracker)]

(* A connection leads to a tracker that runs; a thread announces for the     *)
(* client it serves, and its loop ends when it has reached every tracker.    *)
Coupled ==
    \A s \in Session :
        /\ connected[s] => trackerIndex[s] < N /\ up[trackerIndex[s]]
        /\ phase[s] # "recv" => connected[s]
        /\ (phase[s] = "send") <=> (to[s] # <<>>)

Bare == \A t \in Tracker : ~up[t] => inbox[t] = <<>> /\ dir[t] = Empty

(* Types, and what a tracker that is down or a thread that is idle holds. *)
TypeOK == Typed /\ Coupled /\ Bare

(* What is still on its way to tracker r: connections it has not read, and   *)
(* the message of a command whose thread has not reached r in its loop.      *)
Unsent(r) ==
    LET S == {s \in Session : \/ phase[s] = "announce"
                              \/ r \in ToSet(to[s])}
    IN  [i \in 1 .. Cardinality(S) |-> msg[SetToSeq(S)[i]]]

(* With one client and trackers that run together from the start and always  *)
(* reach each other, every replica is behind the primary by exactly the      *)
(* messages under way to it: replaying them in order yields the primary's    *)
(* directory (accounts, group owners, members, requests, listings).  Nothing *)
(* is lost, repeated, reordered or read differently from how it was written. *)
CatchingUp ==
    \A r \in Tracker \ {0} :
        Durable(FoldLeft(Replay, dir[r], inbox[r] \o Unsent(r)))
            = Durable(dir[0])

Redo(d, m) == Durable(Replay(d, m))

Copying == INSTANCE LaggingCopy WITH
    State <- DirectoryType,
    Write <- Messages,
    Apply <- Redo,
    Copy <- Tracker \ {0},
    original <- Durable(dir[0]),
    copy <- [r \in Tracker \ {0} |-> Durable(dir[r])],
    late <- [r \in Tracker \ {0} |-> inbox[r] \o Unsent(r)]

(* Under the same conditions the replicas are lagging copies of the primary: *)
(* every step of the system has the primary's directory take a command and   *)
(* puts that command behind what is under way to each replica, or takes one  *)
(* replica past the oldest of these, or changes no durable directory.  So a  *)
(* replica goes through the states of the primary one by one, in their       *)
(* order; at no time does it show users and groups as they never were.       *)
IsLaggingCopy == Copying!Spec

(* Some session asked under that name, and some session let it in, ... *)
Requested(g, u) == \E m \in issued : /\ m.cmd.op = "join_group"
                                    /\ m.cmd.g = g /\ m.by = u
Granted(g, u) == \E m \in issued : /\ m.cmd.op = "accept_request"
                                  /\ m.cmd.g = g /\ m.cmd.u = u
Shared(g, f, u) == \E m \in issued : /\ m.cmd.op = "upload_file"
                                    /\ m.cmd.g = g /\ m.cmd.f = f
                                    /\ m.by = u

(* Replication invents nothing.  Whatever was lost, delayed, overtaken by a  *)
(* later message or cut off by a crash, every member of a group on any       *)
(* tracker is its owner or asked to join it and was accepted, and every file *)
(* it lists was uploaded to it by its uploader.  A message that was queued   *)
(* arrives behind later ones, at a tracker that has seen those.              *)
Vouched ==
    \A t \in Tracker : \A g \in GroupId : Exists(dir[t], g) =>
        LET grp == dir[t].groups[g]
        IN  /\ \A u \in grp.members :
                  u = grp.owner \/ (Requested(g, u) /\ Granted(g, u))
            /\ \A f \in FileName :
                  Listed(dir[t], g, f) => Shared(g, f, grp.files[f].by)

(* Trackers other than 0 stay secondary as long as tracker 0 runs without    *)
(* interruption from the start and no attempt to connect to it fails,        *)
(* whichever of the others come and go, lose sight of each other, and        *)
(* however their health checks interleave with that.  One failed attempt is  *)
(* enough to make a second primary for good.                                 *)
ZeroReached == \A t \in Tracker : <<t, 0>> \notin Faulty

SolePrimary ==
    crashes[0] = 0 /\ 0 \in Started /\ ZeroReached =>
        \A t \in Tracker : isPrimary[t] => t = 0

-----------------------------------------------------------------------------
(* While some tracker runs, one that runs becomes the primary: the health    *)
(* checks notice a dead tracker 0, and a restarted one is primary again.     *)
SomePrimary ==
    [](  (\E t \in Tracker : up[t])
      => <>\/ \E t \in Tracker : up[t] /\ isPrimary[t]
           \/ \A t \in Tracker : ~up[t])

(* An account created while the other tracker was not running reaches it:    *)
(* once all trackers run for good, the queued messages drain and every       *)
(* replica knows the accounts of tracker 0.                                  *)
AccountsCatchUp ==
    (<>[]\A t \in Tracker : up[t]) =>
        <>[]\A t \in Tracker : dir[t].users = dir[0].users

-----------------------------------------------------------------------------
(* What the documentation says of replication. *)

(* "Based on the updated list, the primary tracker is selected" (README.md,  *)
(* line 46): there are never two.                                            *)
OnePrimary ==
    \A t, r \in Tracker :
        up[t] /\ up[r] /\ isPrimary[t] /\ isPrimary[r] => t = r

Quiet ==
    /\ \A s \in Session : phase[s] = "recv"
    /\ \A t \in Tracker : inbox[t] = <<>> /\ pendingMessages[t] = <<>>

(* "For every request, a sync message is sent to the secondary tracker. The  *)
(* respective data structures are updated." (README.md, line 57): when every *)
(* message has been handled, trackers that list a file know the same pieces  *)
(* and seeders of it.                                                        *)
SeedersReplicated ==
    Quiet => \A t \in Tracker : \A g \in GroupId : \A f \in FileName :
        Listed(dir[t], g, f) /\ Listed(dir[0], g, f) =>
            dir[t].groups[g].files[f].seeders = dir[0].groups[g].files[f].seeders
=============================================================================
