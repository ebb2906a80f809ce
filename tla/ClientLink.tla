------------------------------ MODULE ClientLink ------------------------------
(***************************************************************************)
(* The connection of one client to the trackers: the main loop that dials  *)
(* them in turn and copies the user's lines (client.cpp), the heartbeat    *)
(* thread that gives a connection up behind its back, the automatic login  *)
(* on the next tracker, a download thread that reports pieces on the same  *)
(* socket, and readLine at the other end (utils.h).                        *)
(*                                                                         *)
(* The heartbeat holds tracker_mutex from its look at trackerAlive until   *)
(* its probe has failed or succeeded, and a download thread from its look  *)
(* at trackerAlive until it has written.  main gives a connection up, and  *)
(* reads and writes trackerAlive and trackerIndex, without that lock as    *)
(* well; what it does under it nobody can come between, and is one step.   *)
(*                                                                         *)
(* A line is two halves, the newline at the end of the second: enough for  *)
(* a read to end inside it.  What the tracker answers is left out:         *)
(* Download has what follows from FILE_META, and nothing else does.        *)
(***************************************************************************)
EXTENDS Naturals, Sequences, SequencesExt

CONSTANTS
    N,          \* lines of tracker_info.txt
    NoHealth,   \* trackers whose health port is not served: it was in use
                \* when they started (synchronize.h:251)
    MaxCuts,    \* bound: reads of a tracker that end inside a line
    MaxLines,   \* bound: lines the user types and pieces that are reported
    MaxCrashes  \* bound: crashes of trackers

Tracker == 0..(N - 1)

ASSUME LinkAssumption == /\ N \in Nat \ {0} /\ NoHealth \subseteq Tracker
                         /\ {MaxCuts, MaxLines, MaxCrashes} \subseteq Nat

(* What a user types: a line handled by the client alone, a login, a command *)
(* of one word or of several, an upload (sent by other code), quit.          *)
Kind == {"local", "login", "short", "long", "upload", "quit"}

VARIABLES
    main,       \* where the main loop is
    mutex,      \* tracker_mutex: "free", with the heartbeat that is
                \* "looking" for the tracker to probe or "probing" it, or
                \* with the download thread that is "reporting"
    probed,     \* the tracker it probes; N: what is behind the last one
    trackerIndex, trackerAlive, loggedIn,
    sockfd,     \* what the number in sockfd stands for: nothing, the open
                \* connection, a closed one, or, the number having been given
                \* out again, the socket of another thread
    peer,       \* the tracker the last connection was made to
    line,       \* the line the user is typing, <<kind, number>>
    cuts, typed, reports, crashes, \* counters for the bounds
    up,         \* trackers that run
    link,       \* the connection with a tracker as TCP sees it: none yet,
                \* refused, up, lost at one end, reset
    wire,       \* halves of lines a tracker has not read
    partial,    \* readLine: what it has read of a line
    sent,       \* history: the halves put on the wire to a tracker
    handled,    \* history: what its thread has handled as a line, each as
                \* the sequence of halves that went into it
    owed,       \* history: connections made while loggedIn
    astray      \* history: what was done to another thread's socket

threads == <<main, mutex, probed>>
client == <<trackerIndex, trackerAlive, loggedIn, sockfd, peer, line, typed,
            reports>>
tracker == <<up, crashes, cuts, partial, handled>>
vars == <<threads, client, tracker, link, wire, sent, owed, astray>>

(* There is no line to handle. *)
Blank == <<"local", 0>>

Init ==
    /\ main = "dial" /\ mutex = "free" /\ probed = 0
    /\ trackerIndex = 0 /\ trackerAlive = FALSE /\ loggedIn = FALSE
    /\ sockfd = "none" /\ peer = 0
    /\ line = Blank /\ typed = 0 /\ reports = 0
    /\ up \in SUBSET Tracker /\ crashes = 0 /\ cuts = 0
    /\ link = [t \in Tracker |-> "none"]
    /\ wire = [t \in Tracker |-> <<>>]
    /\ partial = [t \in Tracker |-> <<>>]
    /\ sent = [t \in Tracker |-> <<>>]
    /\ handled = [t \in Tracker |-> <<>>]
    /\ owed = {}
    /\ astray = {}

Goto(from, to) == main = from /\ main' = to

MutexFree == mutex = "free"
Running == main \notin {"exit", "quit", "killed"}

(* write(sockfd): the first write after the tracker's end is gone succeeds   *)
(* and provokes a reset, the next one raises SIGPIPE, which nobody handles.  *)
Killed == sockfd = "open" /\ link[peer] = "reset"
WriteFails == sockfd \in {"none", "closed"}

Put(q, item) == Append(Append(q, <<item[1], item[2], "front">>),
                       <<item[1], item[2], "rest">>)

Write(item) ==
    /\ IF sockfd = "open" /\ link[peer] = "up"
       THEN /\ wire' = [wire EXCEPT ![peer] = Put(@, item)]
            /\ sent' = [sent EXCEPT ![peer] = Put(@, item)]
       ELSE UNCHANGED <<wire, sent>>
    /\ link' = IF sockfd = "open" /\ link[peer] = "lost"
               THEN [link EXCEPT ![peer] = "reset"] ELSE link
    /\ astray' = IF sockfd = "taken" THEN astray \cup {item[1]} ELSE astray

(* close(sockfd); the number stays in the variable. *)
CloseSocket ==
    /\ sockfd' = "closed"
    /\ astray' = IF sockfd = "taken" THEN astray \cup {"close"} ELSE astray

-----------------------------------------------------------------------------
(* The main loop: dialling. *)

(* Mutant: the new connection is published without tracker_mutex. *)
DialUnlocked ==
    /\ main = "dial" /\ trackerIndex \in up
    /\ main' = IF loggedIn THEN "greet" ELSE "top"
    /\ sockfd' = "open" /\ peer' = trackerIndex /\ trackerAlive' = TRUE
    /\ link' = [link EXCEPT ![trackerIndex] = "up"]
    /\ owed' = IF loggedIn THEN owed \cup {trackerIndex} ELSE owed
    /\ UNCHANGED <<mutex, probed, trackerIndex, loggedIn, line, typed, reports,
                   tracker, wire, sent, astray>>

(* Mutant: the login is left to the user. *)
DialUngreeted ==
    /\ Goto("dial", "top") /\ trackerIndex \in up /\ MutexFree
    /\ sockfd' = "open" /\ peer' = trackerIndex /\ trackerAlive' = TRUE
    /\ link' = [link EXCEPT ![trackerIndex] = "up"]
    /\ owed' = IF loggedIn THEN owed \cup {trackerIndex} ELSE owed
    /\ UNCHANGED <<mutex, probed, trackerIndex, loggedIn, line, typed, reports,
                   tracker, wire, sent, astray>>

Dial ==
    /\ main = "dial" /\ trackerIndex \in up /\ MutexFree
    /\ main' = IF loggedIn THEN "greet" ELSE "top"
    /\ sockfd' = "open" /\ peer' = trackerIndex /\ trackerAlive' = TRUE
    /\ link' = [link EXCEPT ![trackerIndex] = "up"]
    /\ owed' = IF loggedIn THEN owed \cup {trackerIndex} ELSE owed
    /\ UNCHANGED <<mutex, probed, trackerIndex, loggedIn, line, typed, reports,
                   tracker, wire, sent, astray>>

(* Mutant: a tracker that does not answer is passed over twice. *)
DialFailsTwice ==
    /\ main = "dial" /\ trackerIndex \in Tracker /\ MutexFree
    /\ sockfd' \in {"none", "closed"}
    /\ link' = [link EXCEPT ![trackerIndex] = "refused"]
    /\ trackerIndex' = IF trackerIndex + 2 > N THEN N ELSE trackerIndex + 2
    /\ UNCHANGED <<threads, trackerAlive, loggedIn, peer, line, typed,
                   reports, tracker, wire, sent, owed, astray>>

(* socket or connect fails; the first may with any tracker. *)
DialFails ==
    /\ main = "dial" /\ trackerIndex \in Tracker /\ MutexFree
    /\ sockfd' = "none" \/ (sockfd' = "closed" /\ trackerIndex \notin up)
    /\ link' = [link EXCEPT ![trackerIndex] = "refused"]
    /\ trackerIndex' = trackerIndex + 1
    /\ UNCHANGED <<threads, trackerAlive, loggedIn, peer, line, typed,
                   reports, tracker, wire, sent, owed, astray>>

(* "No more trackers available." *)
Exhausted ==
    /\ Goto("dial", "exit") /\ trackerIndex = N
    /\ UNCHANGED <<mutex, probed, client, tracker, link, wire, sent, owed, astray>>

(* autoRelogin, a second after connecting; its line has no newline.          *)
(* "Auto-relogin successful!" means that the write was.                      *)
Greet ==
    /\ main = "greet" /\ MutexFree
    /\ main' = IF trackerAlive /\ Killed THEN "killed" ELSE "top"
    /\ IF trackerAlive /\ ~ Killed THEN Write(<<"relogin", 0>>)
       ELSE UNCHANGED <<link, wire, sent, astray>>
    /\ loggedIn' = (trackerAlive /\ ~ WriteFails)
    /\ UNCHANGED <<mutex, probed, trackerIndex, trackerAlive, sockfd, peer, line,
                   typed, reports, tracker, owed>>

-----------------------------------------------------------------------------
(* The main loop: select, the tracker's socket first, then the console. *)

(* The heartbeat has closed the connection that select is watching.  select  *)
(* does not notice, the connection ends for the tracker only when select     *)
(* returns, and whether the tracker's end wakes it is up to the kernel.      *)
Deaf == main = "select" /\ sockfd # "open"

Top ==
    /\ main = "top"
    /\ main' = IF trackerAlive THEN "select" ELSE "next"
    /\ UNCHANGED <<mutex, probed, client, tracker, link, wire, sent, owed, astray>>

TypeLine == /\ typed + reports < MaxLines
            /\ typed' = typed + 1
            /\ line' \in Kind \X {typed'}

(* Mutant: the console is served while the end of the connection waits. *)
SelectConsoleFirst ==
    /\ Goto("select", "console")
    /\ TypeLine
    /\ UNCHANGED <<mutex, probed, trackerIndex, trackerAlive, loggedIn, sockfd,
                   peer, reports, tracker, link, wire, sent, owed, astray>>

(* Only the console is ready. *)
SelectConsole ==
    /\ Goto("select", "console")
    /\ link[peer] = "up" \/ Deaf
    /\ TypeLine
    /\ UNCHANGED <<mutex, probed, trackerIndex, trackerAlive, loggedIn, sockfd,
                   peer, reports, tracker, link, wire, sent, owed, astray>>

(* Mutant: the end of the connection counts on as well. *)
SelectEndCounts ==
    /\ main = "select"
    /\ link[peer] # "up"
    /\ trackerAlive' = FALSE
    /\ CloseSocket
    /\ main' = "check"
    /\ trackerIndex' = trackerIndex + 1
    /\ UNCHANGED <<mutex, probed, loggedIn, peer, line, typed, reports, tracker,
                   link, wire, sent, owed>>

(* Mutant: the loop that reads is left and nothing else done. *)
SelectEndIgnored ==
    /\ Goto("select", "check")
    /\ link[peer] # "up"
    /\ UNCHANGED <<mutex, probed, client, tracker, link, wire, sent, owed, astray>>

(* The connection has ended and read fails.  A number that was given out     *)
(* again is read from like the own one, and closed if that fails.            *)
SelectEnd ==
    /\ main = "select"
    /\ link[peer] # "up"
    /\ trackerAlive' = FALSE
    /\ CloseSocket \/ (sockfd = "taken" /\ UNCHANGED <<sockfd, astray>>)
    /\ \/ main' = "check" /\ UNCHANGED <<line, typed>>
       \/ main' = "console" /\ TypeLine
    /\ UNCHANGED <<mutex, probed, trackerIndex, loggedIn, peer, reports, tracker,
                   link, wire, sent, owed>>

Console(kinds) == main = "console" /\ line[1] \in kinds /\ line' = Blank

(* handleClientCommand returned true: continue.                              *)
LocalLine ==
    /\ Console({"local"})
    /\ main' = "top"
    /\ UNCHANGED <<mutex, probed, trackerIndex, trackerAlive, loggedIn, sockfd,
                   peer, typed, reports, tracker, link, wire, sent, owed,
                   astray>>

UploadLine ==
    /\ Console({"upload"})
    /\ main' = IF Killed THEN "killed" ELSE "top"
    /\ IF Killed THEN UNCHANGED <<link, wire, sent, astray>> ELSE Write(line)
    /\ UNCHANGED <<mutex, probed, trackerIndex, trackerAlive, loggedIn, sockfd,
                   peer, typed, reports, tracker, owed>>

(* Mutant: handleLogin writes without a look at trackerAlive. *)
LoginLineAnyway ==
    /\ Console({"login"}) /\ MutexFree
    /\ main' = IF Killed THEN "killed" ELSE "top"
    /\ IF Killed THEN UNCHANGED <<link, wire, sent, astray>> ELSE Write(line)
    /\ loggedIn' = (loggedIn \/ ~ WriteFails)
    /\ UNCHANGED <<mutex, probed, trackerIndex, trackerAlive, sockfd, peer,
                   typed, reports, tracker, owed>>

(* handleLogin: the password is remembered before the tracker has seen it. *)
LoginLine ==
    /\ Console({"login"}) /\ MutexFree
    /\ main' = IF trackerAlive /\ Killed THEN "killed" ELSE "top"
    /\ IF trackerAlive /\ ~ Killed THEN Write(line)
       ELSE UNCHANGED <<link, wire, sent, astray>>
    /\ loggedIn' = (loggedIn \/ (trackerAlive /\ ~ WriteFails))
    /\ UNCHANGED <<mutex, probed, trackerIndex, trackerAlive, sockfd, peer,
                   typed, reports, tracker, owed>>

(* Other lines are copied; a line that cannot be is lost. *)
CopyLine ==
    /\ Console({"short", "long"})
    /\ main' = IF Killed THEN "killed" ELSE "check"
    /\ IF Killed \/ WriteFails THEN UNCHANGED <<link, wire, sent, astray>>
                               ELSE Write(line)
    /\ IF WriteFails THEN trackerAlive' = FALSE /\ sockfd' = "closed"
                     ELSE UNCHANGED <<trackerAlive, sockfd>>
    /\ UNCHANGED <<mutex, probed, trackerIndex, loggedIn, peer, typed,
                   reports, tracker, owed>>

(* quit: "logout", which no tracker knows, and the end of the process. *)
QuitLine ==
    /\ Console({"quit"}) /\ MutexFree
    /\ main' = IF loggedIn /\ trackerAlive /\ Killed THEN "killed" ELSE "quit"
    /\ IF loggedIn /\ trackerAlive /\ ~ Killed THEN Write(line)
       ELSE UNCHANGED <<link, wire, sent, astray>>
    /\ sockfd' = "closed" /\ trackerAlive' = FALSE
    /\ UNCHANGED <<mutex, probed, trackerIndex, loggedIn, peer, typed,
                   reports, tracker, owed>>

Check ==
    /\ main = "check" /\ MutexFree
    /\ main' = IF trackerAlive THEN "top" ELSE "next"
    /\ UNCHANGED <<mutex, probed, client, tracker, link, wire, sent, owed, astray>>

(* trackerIndex++ takes no lock, and behind continue nothing has waited for  *)
(* the heartbeat either.                                                     *)
NextTracker ==
    /\ Goto("next", "dial")
    /\ trackerIndex' = trackerIndex + 1
    /\ UNCHANGED <<mutex, probed, trackerAlive, loggedIn, sockfd, peer, line,
                   typed, reports, tracker, link, wire, sent, owed, astray>>

-----------------------------------------------------------------------------
(* The other threads of the client. *)

HeartbeatBegin ==
    /\ Running /\ MutexFree /\ trackerAlive /\ sockfd # "none"
    /\ mutex' = "looking"
    /\ UNCHANGED <<main, probed, client, tracker, link, wire, sent, owed, astray>>

(* trackers[trackerIndex]: main may have counted on since. *)
HeartbeatRead ==
    /\ Running /\ mutex = "looking"
    /\ mutex' = "probing" /\ probed' = trackerIndex
    /\ UNCHANGED <<main, client, tracker, link, wire, sent, owed, astray>>

(* The probe succeeds, or the connection is given up: no answer, or no       *)
(* socket to ask with.  Behind the end of the vector there may be anything.  *)
HeartbeatEnd ==
    /\ Running /\ mutex = "probing"
    /\ mutex' = "free" /\ probed' = 0
    /\ \/ probed \in (up \ NoHealth) \cup {N}
          /\ UNCHANGED <<trackerAlive, sockfd, astray>>
       \/ trackerAlive' = FALSE
          /\ CloseSocket
    /\ UNCHANGED <<main, trackerIndex, loggedIn, peer, line, typed, reports,
                   tracker, link, wire, sent, owed>>

(* notifyTrackerPieceCompleted, by a download thread; nothing is done when   *)
(* trackerAlive is not set.                                                  *)
ReportBegin ==
    /\ Running /\ MutexFree /\ trackerAlive /\ sockfd # "none"
    /\ typed + reports < MaxLines
    /\ reports' = reports + 1
    /\ mutex' = "reporting"
    /\ UNCHANGED <<main, probed, trackerIndex, trackerAlive, loggedIn, sockfd, peer,
                   line, typed, tracker, link, wire, sent, owed, astray>>

(* main may have closed the connection in between. *)
ReportWrite ==
    /\ Running /\ mutex = "reporting"
    /\ mutex' = "free"
    /\ main' = IF Killed THEN "killed" ELSE main
    /\ IF Killed THEN UNCHANGED <<link, wire, sent, astray>>
                 ELSE Write(<<"report", reports>>)
    /\ UNCHANGED <<probed, client, tracker, owed>>

(* A socket that the download server or a worker opens gets the number. *)
TakeNumber ==
    /\ Running /\ sockfd = "closed"
    /\ sockfd' = "taken"
    /\ UNCHANGED <<threads, trackerIndex, trackerAlive, loggedIn, peer, line,
                   typed, reports, tracker, link, wire, sent, owed, astray>>

-----------------------------------------------------------------------------
(* The trackers. *)

Newline(half) == half[1] # "relogin" /\ half[3] = "rest"

(* The thread of the connection with t handles what readLine returns. *)
HandleLine(t, parts) == handled' = [handled EXCEPT ![t] = Append(@, parts)]

(* n halves are taken from the wire. *)
Consume(t, n) ==
    /\ wire' = [wire EXCEPT ![t] = SubSeq(@, n + 1, Len(@))]
    /\ cuts' = IF wire[t][n][3] = "front" THEN cuts + 1 ELSE cuts
    /\ cuts' <= MaxCuts

(* The m-th half of what is read has the first newline. *)
EndsAt(read, m) == Newline(read[m]) /\ \A i \in 1..(m - 1) : ~ Newline(read[i])

(* Mutant: readLine returns all it has read. *)
ReadLineAll(t) ==
    /\ t \in up /\ \E n \in 1..Len(wire[t]) :
       LET read == partial[t] \o SubSeq(wire[t], 1, n) IN
       /\ Consume(t, n)
       /\ IF \A i \in DOMAIN read : ~ Newline(read[i])
          THEN partial' = [partial EXCEPT ![t] = read] /\ UNCHANGED handled
          ELSE partial' = [partial EXCEPT ![t] = <<>>] /\ HandleLine(t, read)
    /\ UNCHANGED <<threads, client, up, crashes, link, sent, owed, astray>>

(* Mutant: what one read has left over is not joined to the next. *)
ReadLineForgets(t) ==
    /\ t \in up /\ \E n \in 1..Len(wire[t]) :
       LET read == SubSeq(wire[t], 1, n) IN
       /\ Consume(t, n)
       /\ UNCHANGED partial
       /\ \/ (\A i \in DOMAIN read : ~ Newline(read[i])) /\ UNCHANGED handled
          \/ \E m \in DOMAIN read :
                EndsAt(read, m) /\ HandleLine(t, SubSeq(read, 1, m))
    /\ UNCHANGED <<threads, client, up, crashes, link, sent, owed, astray>>

(* readLine returns what precedes the first newline; anything that arrived   *)
(* with it is dropped.  A read ends anywhere: with what has arrived, or with *)
(* its 1024 bytes.                                                           *)
ReadLine(t) ==
    /\ t \in up /\ \E n \in 1..Len(wire[t]) :
       LET read == partial[t] \o SubSeq(wire[t], 1, n) IN
       /\ Consume(t, n)
       /\ \/ /\ \A i \in DOMAIN read : ~ Newline(read[i])
             /\ partial' = [partial EXCEPT ![t] = read]
             /\ UNCHANGED handled
          \/ /\ partial' = [partial EXCEPT ![t] = <<>>]
             /\ \E m \in DOMAIN read :
                   EndsAt(read, m) /\ HandleLine(t, SubSeq(read, 1, m))
    /\ UNCHANGED <<threads, client, up, crashes, link, sent, owed, astray>>

(* The client's end is closed: a line without its newline counts. *)
ReadEnd(t) ==
    /\ t \in up /\ link[t] = "up" /\ wire[t] = <<>>
    /\ peer # t \/ (sockfd # "open" /\ ~ Deaf) \/ ~ Running
    /\ link' = [link EXCEPT ![t] = "lost"]
    /\ partial' = [partial EXCEPT ![t] = <<>>]
    /\ IF partial[t] # <<>> THEN HandleLine(t, partial[t])
                            ELSE UNCHANGED handled
    /\ UNCHANGED <<threads, client, up, crashes, cuts, wire, sent, owed, astray>>

(* Nothing the client does depends on the trackers once it has ended. *)
Crash(t) ==
    /\ t \in up /\ Running /\ crashes < MaxCrashes
    /\ up' = up \ {t} /\ crashes' = crashes + 1
    /\ link' = [link EXCEPT ![t] = IF @ = "up" THEN "lost" ELSE @]
    /\ wire' = [wire EXCEPT ![t] = <<>>]
    /\ partial' = [partial EXCEPT ![t] = <<>>]
    /\ UNCHANGED <<threads, client, cuts, handled, sent, owed, astray>>

(* One that the client has left does not matter to it any more. *)
Start(t) ==
    /\ t \in Tracker \ up /\ Running /\ t >= trackerIndex
    /\ up' = up \cup {t}
    /\ UNCHANGED <<threads, client, crashes, cuts, partial, handled, link, wire,
                   sent, owed, astray>>

-----------------------------------------------------------------------------
Main ==
    \/ Dial \/ DialFails \/ Exhausted \/ Greet \/ Top \/ SelectEnd
    \/ LocalLine \/ UploadLine \/ LoginLine \/ CopyLine \/ QuitLine
    \/ Check \/ NextTracker

Heartbeat == HeartbeatBegin \/ HeartbeatRead \/ HeartbeatEnd

Next ==
    \/ Main \/ SelectConsole \/ Heartbeat \/ ReportBegin \/ ReportWrite
    \/ TakeNumber
    \/ \E t \in Tracker : ReadLine(t) \/ ReadEnd(t) \/ Crash(t) \/ Start(t)

Spec == Init /\ [][Next]_vars

(* The threads are scheduled, and a mutex that is free again and again is    *)
(* had in the end.  Nothing is assumed of users, trackers and when pieces    *)
(* are reported, nor of select once its descriptor is closed.                *)
FairSpec == /\ Spec /\ SF_vars(~ Deaf /\ Main)
            /\ WF_vars(Heartbeat) /\ WF_vars(ReportWrite)

-----------------------------------------------------------------------------
Sort == {"relogin", "report", "login", "short", "long", "upload", "quit"}
Number == 0..MaxLines
Items == Sort \X Number
Halves == Sort \X Number \X {"front", "rest"}

(* Every variable keeps its type. *)
TypeOK ==
    /\ main \in {"dial", "greet", "top", "select", "console", "check", "next",
                 "exit", "quit", "killed"}
    /\ mutex \in {"free", "looking", "probing", "reporting"} /\ probed \in 0..N
    /\ trackerIndex \in 0..N /\ peer \in Tracker
    /\ trackerAlive \in BOOLEAN /\ loggedIn \in BOOLEAN
    /\ sockfd \in {"none", "open", "closed", "taken"}
    /\ line \in Kind \X Number
    /\ typed \in Number /\ reports \in Number /\ typed + reports \in Number
    /\ crashes \in 0..MaxCrashes /\ cuts \in 0..MaxCuts
    /\ up \subseteq Tracker /\ owed \subseteq Tracker
    /\ link \in [Tracker -> {"none", "refused", "up", "lost", "reset"}]
    /\ \A q \in {wire, partial, sent} : q \in [Tracker -> Seq(Halves)]
    /\ handled \in [Tracker -> Seq(Seq(Halves))]

(* The heartbeat closes no connection over the death of another tracker: as  *)
(* long as trackerAlive is set the tracker it probes is the one the client   *)
(* is connected to.  (main may count on when it has given the connection up; *)
(* then the probe is of another tracker, or of nothing behind the last one,  *)
(* and its verdict comes too late to matter.)                                *)
ProbesItsOwn ==
    mutex = "probing" /\ trackerAlive => probed = peer /\ sockfd = "open"

(* Passwords are not sent to strangers: a login, typed or automatic, and the *)
(* logout go to the tracker or nowhere.  The other writes, and close, may    *)
(* hit the socket of a peer that was given the number after the heartbeat    *)
(* has closed it; a report, under tracker_mutex, if main has.                *)
LoginsArrive == astray \cap {"login", "relogin", "quit"} = {}

(* A user who is logged in is logged in on the next tracker before anything  *)
(* else of theirs is sent; the download thread does not wait for that.       *)
GreetedFirst ==
    \A t \in owed : \A i \in DOMAIN sent[t] :
        sent[t][i][1] # "report" => \E j \in 1..i : sent[t][j][1] = "relogin"

(* What is handled begins with the automatic login. *)
Greets(parts) ==
    /\ Len(parts) > 1 /\ parts[1] = <<"relogin", 0, "front">>
    /\ parts[2] = <<"relogin", 0, "rest">>

(* It has three words: it is at the end of its connection, or a line of one  *)
(* word is glued to it.                                                      *)
LogsIn(parts) ==
    Greets(parts) /\ (Len(parts) = 2 \/ parts[3][1] \in {"short", "quit"})

(* The automatic login gets through to the handler of login, which takes it  *)
(* if the tracker knows the user, with these exceptions: it has no newline,  *)
(* so a line of several words that follows it is swallowed together with it; *)
(* and if a report is in front of it it may be dropped, or half of it.       *)
ReloginHeard ==
    \A t \in up :
        /\ link[t] = "up" /\ \E h \in ToSet(sent[t]) : h[1] = "relogin"
        /\ \A h \in ToSet(wire[t] \o partial[t]) : h[1] # "relogin"
        => \/ \E parts \in ToSet(handled[t]) :
                 \/ LogsIn(parts)
                 \/ /\ Greets(parts)
                    /\ parts[3][1] \in {"long", "upload", "login", "report"}
           \/ sent[t][1][1] = "report"

(* A tracker's thread handles what the client has sent it, each line at most *)
(* once and in their order, and none but the automatic login is joined to    *)
(* another, however they arrive: what it handles are stretches of what was   *)
(* sent, pos[i] halves in front of the i-th, that do not overlap, and each   *)
(* is one line to its end, with the login in front of it at most.  (Lines    *)
(* that are read behind another one are lost, and of one that is half read   *)
(* with another the second half is handled like a line.)                     *)
HandledInOrder ==
    \A t \in Tracker :
        \E pos \in [DOMAIN handled[t] -> 0..Len(sent[t])] :
            \A i \in DOMAIN handled[t] :
                LET parts == handled[t][i]
                    end == parts[Len(parts)]
                IN  /\ parts # <<>> /\ end[3] = "rest"
                    /\ \A k \in DOMAIN parts :
                          \/ parts[k][1] = "relogin"
                          \/ parts[k][1] = end[1] /\ parts[k][2] = end[2]
                    /\ pos[i] + Len(parts) <= Len(sent[t])
                    /\ \A k \in DOMAIN parts : parts[k] = sent[t][pos[i] + k]
                    /\ \A j \in DOMAIN handled[t] :
                          i < j => pos[i] + Len(parts) <= pos[j]

(* "No more trackers available": every one has refused a connection or was   *)
(* connected to.                                                             *)
ExitTried == main = "exit" => \A t \in Tracker : link[t] # "none"

(* A client that downloads nothing survives the death of its trackers: only  *)
(* a report that crosses with the end of the connection can be the write     *)
(* behind the first futile one, and raise SIGPIPE.                           *)
QuietSurvives == main = "killed" => reports > 0

(* A connection that has ended, or that the heartbeat has given up, is left  *)
(* for the next tracker, or the client ends; unless select sits deaf on the  *)
(* descriptor the heartbeat has closed, until the user types a line.         *)
GivenUp == /\ trackerIndex = peer /\ link[peer] \notin {"none", "refused"}
           /\ ~ trackerAlive \/ link[peer] # "up"
MovesOn == GivenUp ~> (trackerIndex # peer \/ Deaf \/ ~ Running)
=============================================================================
