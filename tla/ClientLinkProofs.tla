-------------------------- MODULE ClientLinkProofs --------------------------
(***************************************************************************)
(* Theorems about ClientLink for any number of trackers, lines, reports    *)
(* and crashes.                                                            *)
(***************************************************************************)
EXTENDS ClientLink, TLAPS, SequenceTheorems

(* trackerAlive stands for the open connection, which is with the tracker    *)
(* that is counted as current; main counts on only when there is none.  What *)
(* is reported has been counted.                                             *)
AliveIsOpen ==
    /\ trackerAlive <=> sockfd = "open"
    /\ trackerAlive => trackerIndex = peer
    /\ main \in {"dial", "next"} => ~ trackerAlive
    /\ mutex = "probing" /\ trackerAlive => probed = peer
    /\ mutex = "reporting" => reports > 0

(* All trackers before the current one have been dialled, and so has the     *)
(* current one when main is past dialling.                                   *)
DialledInTurn ==
    /\ \A t \in Tracker : t < trackerIndex => link[t] # "none"
    /\ main \notin {"dial", "exit"} =>
          /\ trackerIndex = peer /\ link[peer] # "none"
    /\ main = "exit" => trackerIndex = N

(* Without reports, main writes to no connection that it has written to      *)
(* since the other end was lost.                                             *)
NoSecondWrite ==
    reports = 0 /\ sockfd = "open" /\ main \in {"greet", "console"} =>
        link[peer] # "reset"

(* No tracker is dialled twice. *)
DialledOnce ==
    /\ \A t \in owed : t < trackerIndex \/ (t = trackerIndex /\ main # "dial")
    /\ \A t \in Tracker :
          t > trackerIndex \/ (t = trackerIndex /\ main = "dial") =>
              sent[t] = <<>>

(* As long as lines get through, the login has been the first. *)
PeerGreeted ==
    peer \in owed /\ sockfd = "open" /\ link[peer] = "up" /\ main # "greet" =>
        \E j \in DOMAIN sent[peer] : sent[peer][j][1] = "relogin"

Inv == /\ TypeOK /\ AliveIsOpen /\ DialledInTurn
       /\ DialledOnce /\ PeerGreeted /\ GreetedFirst
       /\ LoginsArrive /\ NoSecondWrite /\ QuietSurvives

-----------------------------------------------------------------------------
(* What write and close do. *)

LEMMA PutType ==
    ASSUME NEW q \in Seq(Halves), NEW item \in Items
    PROVE  Put(q, item) \in Seq(Halves)
<1>1. /\ <<item[1], item[2], "front">> \in Halves
      /\ <<item[1], item[2], "rest">> \in Halves
  BY DEF Items, Halves
<1> QED  BY <1>1 DEF Put

LEMMA WriteType ==
    ASSUME TypeOK, NEW item \in Items, Write(item)
    PROVE  /\ wire' \in [Tracker -> Seq(Halves)]
           /\ sent' \in [Tracker -> Seq(Halves)]
           /\ link' \in [Tracker -> {"none", "refused", "up", "lost", "reset"}]
<1>1. /\ wire \in [Tracker -> Seq(Halves)] /\ sent \in [Tracker -> Seq(Halves)]
      /\ link \in [Tracker -> {"none", "refused", "up", "lost", "reset"}]
      /\ peer \in Tracker
  BY DEF TypeOK
<1>2. CASE sockfd = "open" /\ link[peer] = "up"
  <2>1. /\ wire' = [wire EXCEPT ![peer] = Put(@, item)]
        /\ sent' = [sent EXCEPT ![peer] = Put(@, item)]
        /\ UNCHANGED link
    BY <1>2 DEF Write
  <2>2. /\ Put(wire[peer], item) \in Seq(Halves)
        /\ Put(sent[peer], item) \in Seq(Halves)
    BY <1>1, PutType
  <2> QED  BY <1>1, <2>1, <2>2
<1>3. CASE ~(sockfd = "open" /\ link[peer] = "up")
  <2>1. UNCHANGED <<wire, sent>>
    BY <1>3 DEF Write
  <2>2. link' = link \/ link' = [link EXCEPT ![peer] = "reset"]
    BY DEF Write
  <2> QED  BY <1>1, <2>1, <2>2
<1> QED  BY <1>2, <1>3

LEMMA WriteLinks ==
    ASSUME TypeOK, NEW item, Write(item)
    PROVE  /\ \A t \in Tracker : link[t] # "none" => link'[t] # "none"
           /\ astray' \subseteq astray \cup {item[1]}
           /\ sockfd = "open" => astray' = astray
BY DEF Write, TypeOK

(* Lines a user can have typed may be sent. *)
LEMMA LineItem ==
    ASSUME TypeOK, line[1] # "local"
    PROVE  line \in Items
BY LinkAssumption DEF TypeOK, Items, Sort, Kind

(* What tracker threads take from the wire. *)
LEMMA HandleLineType ==
    ASSUME TypeOK, NEW t \in Tracker, NEW parts \in Seq(Halves),
           HandleLine(t, parts)
    PROVE  handled' \in [Tracker -> Seq(Seq(Halves))]
<1>1. handled' = [handled EXCEPT ![t] = Append(@, parts)]
  BY DEF HandleLine
<1>2. handled \in [Tracker -> Seq(Seq(Halves))]
  BY DEF TypeOK
<1>3. Append(handled[t], parts) \in Seq(Seq(Halves))
  BY <1>2
<1> QED  BY <1>1, <1>2, <1>3

LEMMA ReadType ==
    ASSUME TypeOK, NEW t \in Tracker, ReadLine(t)
    PROVE  /\ wire' \in [Tracker -> Seq(Halves)]
           /\ partial' \in [Tracker -> Seq(Halves)]
           /\ handled' \in [Tracker -> Seq(Seq(Halves))]
           /\ cuts' \in 0..MaxCuts
<1>1. PICK n \in 1..Len(wire[t]) :
        LET read == partial[t] \o SubSeq(wire[t], 1, n) IN
        /\ Consume(t, n)
        /\ \/ /\ partial' = [partial EXCEPT ![t] = read]
              /\ UNCHANGED handled
           \/ /\ partial' = [partial EXCEPT ![t] = <<>>]
              /\ \E m \in DOMAIN read : HandleLine(t, SubSeq(read, 1, m))
  BY DEF ReadLine
<1> DEFINE read == partial[t] \o SubSeq(wire[t], 1, n)
<1>2. wire[t] \in Seq(Halves) /\ partial[t] \in Seq(Halves)
  BY DEF TypeOK
<1>3. /\ SubSeq(wire[t], 1, n) \in Seq(Halves)
      /\ SubSeq(wire[t], n + 1, Len(wire[t])) \in Seq(Halves)
  BY <1>2, SubSeqProperties
<1>4. read \in Seq(Halves)
  BY <1>2, <1>3
<1>5. wire' \in [Tracker -> Seq(Halves)] /\ cuts' \in 0..MaxCuts
  <2>1. wire' \in [Tracker -> Seq(Halves)]
    BY <1>1, <1>3 DEF TypeOK, Consume
  <2>2. cuts' \in {cuts, cuts + 1} /\ cuts' <= MaxCuts
    BY <1>1 DEF Consume
  <2>3. cuts \in 0..MaxCuts /\ MaxCuts \in Nat
    BY LinkAssumption DEF TypeOK
  <2> QED  BY <2>1, <2>2, <2>3
<1> HIDE DEF read
<1>6. CASE /\ partial' = [partial EXCEPT ![t] = read]
           /\ UNCHANGED handled
  BY <1>4, <1>5, <1>6 DEF TypeOK
<1>7. ASSUME partial' = [partial EXCEPT ![t] = <<>>],
             NEW m \in DOMAIN read, HandleLine(t, SubSeq(read, 1, m))
      PROVE  /\ partial' \in [Tracker -> Seq(Halves)]
             /\ handled' \in [Tracker -> Seq(Seq(Halves))]
  <2>1. SubSeq(read, 1, m) \in Seq(Halves)
    BY <1>4, SubSeqProperties
  <2>2. partial' \in [Tracker -> Seq(Halves)]
    BY <1>7 DEF TypeOK
  <2>3. handled' \in [Tracker -> Seq(Seq(Halves))]
    BY <1>7, <2>1, HandleLineType
  <2> QED  BY <2>2, <2>3
<1>8. \/ /\ partial' = [partial EXCEPT ![t] = read]
         /\ UNCHANGED handled
      \/ /\ partial' = [partial EXCEPT ![t] = <<>>]
         /\ \E m \in DOMAIN read : HandleLine(t, SubSeq(read, 1, m))
  BY <1>1 DEF read
<1> QED  BY <1>5, <1>6, <1>7, <1>8

LEMMA Written ==
    ASSUME TypeOK, NEW item \in Items,
           Write(item) \/ UNCHANGED <<link, wire, sent, astray>>
    PROVE  /\ wire' \in [Tracker -> Seq(Halves)]
           /\ sent' \in [Tracker -> Seq(Halves)]
           /\ link' \in [Tracker -> {"none", "refused", "up", "lost", "reset"}]
BY WriteType DEF TypeOK

LEMMA NextTypes == TypeOK /\ DialledInTurn /\ [Next]_vars => TypeOK'
<1> SUFFICES ASSUME TypeOK, DialledInTurn, [Next]_vars PROVE TypeOK'
  OBVIOUS
<1> USE LinkAssumption DEF threads, client, tracker
<1>1. CASE Dial
  BY <1>1 DEF Dial, TypeOK, Tracker
<1>2. CASE DialFails
  <2>1. trackerIndex + 1 \in 0..N
    BY <1>2 DEF DialFails, Tracker
  <2> QED  BY <1>2, <2>1 DEF DialFails, TypeOK
<1>3. CASE Exhausted \/ Top \/ Check
  BY <1>3 DEF Exhausted, Top, Check, Goto, TypeOK
<1>4. CASE Greet
  <2>1. <<"relogin", 0>> \in Items
    BY DEF Items, Sort, Number
  <2>2. /\ wire' \in [Tracker -> Seq(Halves)]
        /\ sent' \in [Tracker -> Seq(Halves)]
        /\ link' \in [Tracker -> {"none", "refused", "up", "lost", "reset"}]
    BY <1>4, <2>1, Written DEF Greet
  <2> QED  BY <1>4, <2>2 DEF Greet, TypeOK
<1>5. CASE SelectEnd
  <2>1. CASE UNCHANGED <<line, typed>>
    BY <1>5, <2>1 DEF SelectEnd, CloseSocket, TypeOK
  <2>2. CASE TypeLine
    <3>1. /\ typed' \in Number /\ line' \in Kind \X Number
          /\ typed' + reports \in Number
      BY <2>2 DEF TypeLine, TypeOK, Number
    <3> QED  BY <1>5, <3>1 DEF SelectEnd, CloseSocket, TypeOK
  <2> QED  BY <1>5, <2>1, <2>2 DEF SelectEnd
<1>6. CASE SelectConsole
  BY <1>6 DEF SelectConsole, Goto, TypeLine, TypeOK, Number
<1>7. Blank \in Kind \X Number
  BY DEF Blank, Kind, Number
<1>8. CASE LocalLine
  BY <1>7, <1>8 DEF LocalLine, Console, TypeOK
<1>9. CASE UploadLine \/ LoginLine \/ CopyLine \/ QuitLine
  <2>1. line[1] # "local"
    BY <1>9 DEF UploadLine, LoginLine, CopyLine, QuitLine, Console
  <2>2. line \in Items
    BY <2>1, LineItem
  <2>3. Write(line) \/ UNCHANGED <<link, wire, sent, astray>>
    BY <1>9 DEF UploadLine, LoginLine, CopyLine, QuitLine
  <2>4. /\ wire' \in [Tracker -> Seq(Halves)]
        /\ sent' \in [Tracker -> Seq(Halves)]
        /\ link' \in [Tracker -> {"none", "refused", "up", "lost", "reset"}]
    BY <2>2, <2>3, Written
  <2>5. CASE UploadLine \/ LoginLine
    BY <1>7, <2>4, <2>5 DEF UploadLine, LoginLine, Console, TypeOK
  <2>6. CASE CopyLine \/ QuitLine
    BY <1>7, <2>4, <2>6 DEF CopyLine, QuitLine, Console, TypeOK
  <2> QED  BY <1>9, <2>5, <2>6
<1>10. CASE NextTracker
  <2>1. trackerIndex + 1 \in 0..N
    BY <1>10 DEF NextTracker, Goto, DialledInTurn, TypeOK, Tracker
  <2> QED  BY <1>10, <2>1 DEF NextTracker, Goto, TypeOK
<1>11. CASE Heartbeat
  <2>1. CASE HeartbeatBegin \/ HeartbeatRead
    BY <2>1 DEF HeartbeatBegin, HeartbeatRead, TypeOK
  <2>2. CASE HeartbeatEnd
    <3>1. /\ trackerAlive' \in BOOLEAN
          /\ sockfd' \in {"none", "open", "closed", "taken"}
      BY <2>2 DEF HeartbeatEnd, CloseSocket, TypeOK
    <3>2. mutex' = "free" /\ probed' \in 0..N
      BY <2>2 DEF HeartbeatEnd
    <3> QED  BY <2>2, <3>1, <3>2 DEF HeartbeatEnd, TypeOK
  <2> QED  BY <1>11, <2>1, <2>2 DEF Heartbeat
<1>12. CASE ReportBegin
  BY <1>12 DEF ReportBegin, TypeOK, Number
<1>19. CASE ReportWrite
  <2>1. PICK item \in Items : item = <<"report", reports>>
    BY DEF Items, Sort, TypeOK
  <2>2. Write(item) \/ UNCHANGED <<link, wire, sent, astray>>
    BY <1>19, <2>1 DEF ReportWrite
  <2>3. /\ wire' \in [Tracker -> Seq(Halves)]
        /\ sent' \in [Tracker -> Seq(Halves)]
        /\ link' \in [Tracker -> {"none", "refused", "up", "lost", "reset"}]
    BY <2>1, <2>2, Written
  <2> QED  BY <1>19, <2>3 DEF ReportWrite, TypeOK
<1>13. CASE TakeNumber
  BY <1>13 DEF TakeNumber, TypeOK
<1>14. ASSUME NEW t \in Tracker, ReadLine(t) PROVE TypeOK'
  <2>1. UNCHANGED <<threads, client, up, crashes, link, sent, owed, astray>>
    BY <1>14 DEF ReadLine
  <2>2. /\ wire' \in [Tracker -> Seq(Halves)]
        /\ partial' \in [Tracker -> Seq(Halves)]
        /\ handled' \in [Tracker -> Seq(Seq(Halves))]
        /\ cuts' \in 0..MaxCuts
    BY <1>14, ReadType
  <2> QED  BY <2>1, <2>2 DEF TypeOK
<1>15. ASSUME NEW t \in Tracker, ReadEnd(t) PROVE TypeOK'
  <2>1. partial' \in [Tracker -> Seq(Halves)]
    BY <1>15 DEF ReadEnd, TypeOK
  <2>2. partial[t] \in Seq(Halves)
    BY DEF TypeOK
  <2>3. handled' \in [Tracker -> Seq(Seq(Halves))]
    <3>1. handled \in [Tracker -> Seq(Seq(Halves))]
      BY DEF TypeOK
    <3> QED  BY <1>15, <2>2, <3>1, HandleLineType DEF ReadEnd
  <2>4. UNCHANGED <<threads, client, up, crashes, cuts, wire, sent, owed, astray>>
    BY <1>15 DEF ReadEnd
  <2>5. link' \in [Tracker -> {"none", "refused", "up", "lost", "reset"}]
    BY <1>15 DEF ReadEnd, TypeOK
  <2> QED  BY <2>1, <2>3, <2>4, <2>5 DEF TypeOK
<1>16. ASSUME NEW t \in Tracker, Crash(t) PROVE TypeOK'
  <2>1. /\ wire' \in [Tracker -> Seq(Halves)]
        /\ partial' \in [Tracker -> Seq(Halves)]
        /\ link' \in [Tracker -> {"none", "refused", "up", "lost", "reset"}]
    <3>1. /\ wire \in [Tracker -> Seq(Halves)]
          /\ partial \in [Tracker -> Seq(Halves)]
          /\ link \in [Tracker -> {"none", "refused", "up", "lost", "reset"}]
      BY DEF TypeOK
    <3> QED  BY <1>16, <3>1 DEF Crash
  <2>2. up' \subseteq Tracker /\ crashes' \in 0..MaxCrashes
    <3>1. /\ up \subseteq Tracker
          /\ crashes \in 0..MaxCrashes /\ MaxCrashes \in Nat
      BY LinkAssumption DEF TypeOK
    <3> QED  BY <1>16, <3>1 DEF Crash
  <2>3. UNCHANGED <<threads, client, cuts, handled, sent, owed, astray>>
    BY <1>16 DEF Crash
  <2> QED  BY <2>1, <2>2, <2>3 DEF TypeOK
<1>17. ASSUME NEW t \in Tracker, Start(t) PROVE TypeOK'
  BY <1>17 DEF Start, TypeOK
<1>18. CASE UNCHANGED vars
  BY <1>18 DEF vars, TypeOK
<1> QED  BY <1>1, <1>2, <1>3, <1>4, <1>5, <1>6, <1>8, <1>9, <1>10, <1>11,
            <1>12, <1>13, <1>14, <1>15, <1>16, <1>17, <1>18, <1>19
         DEF Next, Main

-----------------------------------------------------------------------------
(* The connection. *)

LEMMA NextAlive == TypeOK /\ AliveIsOpen /\ [Next]_vars => AliveIsOpen'
<1> SUFFICES ASSUME TypeOK, AliveIsOpen, [Next]_vars PROVE AliveIsOpen'
  OBVIOUS
<1> USE DEF threads, client, tracker, AliveIsOpen
<1>1. CASE Dial \/ DialFails
  BY <1>1 DEF Dial, DialFails, MutexFree
<1>2. CASE Exhausted \/ Top \/ Check \/ NextTracker
  BY <1>2 DEF Exhausted, Top, Check, NextTracker, Goto
<1>3. CASE Greet \/ LocalLine \/ UploadLine \/ LoginLine
  BY <1>3 DEF Greet, LocalLine, UploadLine, LoginLine
<1>4. CASE CopyLine \/ QuitLine
  BY <1>4 DEF CopyLine, QuitLine, WriteFails
<1>5. CASE SelectEnd \/ SelectConsole
  BY <1>5 DEF SelectEnd, SelectConsole, CloseSocket, Goto
<1>6. CASE Heartbeat
  BY <1>6 DEF Heartbeat, HeartbeatBegin, HeartbeatRead, HeartbeatEnd,
              CloseSocket
<1>7. CASE ReportBegin \/ ReportWrite \/ TakeNumber
  BY <1>7 DEF ReportBegin, ReportWrite, TakeNumber, Running, TypeOK, Number
<1>8. ASSUME NEW t \in Tracker,
             ReadLine(t) \/ ReadEnd(t) \/ Crash(t) \/ Start(t)
      PROVE  AliveIsOpen'
  BY <1>8 DEF ReadLine, ReadEnd, Crash, Start
<1>9. CASE UNCHANGED vars
  BY <1>9 DEF vars
<1> QED  BY <1>1, <1>2, <1>3, <1>4, <1>5, <1>6, <1>7, <1>8, <1>9
         DEF Next, Main

-----------------------------------------------------------------------------
(* The walk down the list. *)

LEMMA LinkKept ==
    TypeOK /\ [Next]_vars =>
        \A t \in Tracker : link[t] # "none" => link'[t] # "none"
<1> SUFFICES ASSUME TypeOK, [Next]_vars,
                    NEW t \in Tracker, link[t] # "none"
             PROVE  link'[t] # "none"
  OBVIOUS
<1>1. CASE \/ UNCHANGED link \/ \E item : Write(item)
  BY <1>1, WriteLinks
<1>2. CASE Dial \/ DialFails
  BY <1>2 DEF Dial, DialFails, TypeOK
<1>3. ASSUME NEW u \in Tracker, ReadEnd(u) \/ Crash(u) PROVE link'[t] # "none"
  BY <1>3 DEF ReadEnd, Crash, TypeOK
<1>4. CASE Exhausted \/ Top \/ Check \/ NextTracker \/ SelectEnd \/ LocalLine
  BY <1>1, <1>4 DEF Exhausted, Top, Check, NextTracker, SelectEnd, LocalLine
<1>5. CASE Greet \/ UploadLine \/ LoginLine \/ CopyLine \/ QuitLine \/ ReportWrite
  BY <1>1, <1>5 DEF Greet, UploadLine, LoginLine, CopyLine, QuitLine, ReportWrite
<1>6. CASE SelectConsole \/ Heartbeat \/ ReportBegin \/ TakeNumber
  BY <1>1, <1>6 DEF SelectConsole, Heartbeat, HeartbeatBegin, HeartbeatRead,
                    HeartbeatEnd, ReportBegin, TakeNumber
<1>7. ASSUME NEW u \in Tracker, ReadLine(u) \/ Start(u) PROVE link'[t] # "none"
  BY <1>1, <1>7 DEF ReadLine, Start
<1>8. CASE UNCHANGED vars
  BY <1>1, <1>8 DEF vars
<1> QED  BY <1>2, <1>3, <1>4, <1>5, <1>6, <1>7, <1>8 DEF Next, Main

LEMMA NextDialled ==
    ASSUME TypeOK, AliveIsOpen, DialledInTurn, [Next]_vars
    PROVE  DialledInTurn'
<1> USE LinkAssumption DEF threads, client, tracker, DialledInTurn
<1>0. \A t \in Tracker : link[t] # "none" => link'[t] # "none"
  BY LinkKept
<1>1. ASSUME UNCHANGED <<trackerIndex, peer>>,
             main' = main \/ (main \notin {"dial", "exit"} /\ main' # "exit")
      PROVE  DialledInTurn'
  BY <1>0, <1>1 DEF TypeOK
<1>2. CASE Dial
  <2>1. trackerIndex \in Tracker
    BY <1>2 DEF Dial, TypeOK
  <2>2. link'[trackerIndex] = "up"
    BY <1>2, <2>1 DEF Dial, TypeOK
  <2> QED  BY <1>0, <1>2, <2>1, <2>2 DEF Dial
<1>3. CASE DialFails
  <2>1. link'[trackerIndex] # "none"
    BY <1>3 DEF DialFails, TypeOK
  <2>2. \A t \in Tracker : t < trackerIndex' =>
           t < trackerIndex \/ t = trackerIndex
    BY <1>3 DEF DialFails, TypeOK, Tracker
  <2> QED  BY <1>0, <1>3, <2>1, <2>2 DEF DialFails
<1>4. CASE NextTracker
  <2>1. trackerIndex = peer /\ link[peer] # "none" /\ peer \in Tracker
    BY <1>4 DEF NextTracker, Goto, TypeOK
  <2>2. \A t \in Tracker : t < trackerIndex' =>
           t < trackerIndex \/ t = trackerIndex
    BY <1>4, <2>1 DEF NextTracker, Tracker
  <2> QED  BY <1>0, <1>4, <2>1, <2>2 DEF NextTracker, Goto
<1>5. CASE Exhausted
  BY <1>0, <1>5 DEF Exhausted, Goto, TypeOK
<1>6. CASE Top \/ Check \/ SelectEnd \/ SelectConsole
  BY <1>1, <1>6 DEF Top, Check, SelectEnd, SelectConsole, Goto
<1>7. CASE Greet \/ LocalLine \/ UploadLine \/ LoginLine \/ CopyLine
           \/ QuitLine
  BY <1>1, <1>7 DEF Greet, LocalLine, UploadLine, LoginLine, CopyLine,
                    QuitLine, Console
<1>8. CASE Heartbeat \/ ReportBegin \/ TakeNumber
  BY <1>1, <1>8 DEF Heartbeat, HeartbeatBegin, HeartbeatRead, HeartbeatEnd,
                    ReportBegin, TakeNumber
<1>9. CASE ReportWrite
  <2>1. main' = main \/ (main \notin {"dial", "exit"} /\ main' = "killed")
    BY <1>9 DEF ReportWrite, Running, Killed, AliveIsOpen
  <2> QED  BY <1>1, <1>9, <2>1 DEF ReportWrite
<1>10. ASSUME NEW t \in Tracker,
             ReadLine(t) \/ ReadEnd(t) \/ Crash(t) \/ Start(t)
      PROVE  DialledInTurn'
  BY <1>1, <1>10 DEF ReadLine, ReadEnd, Crash, Start
<1>11. CASE UNCHANGED vars
  BY <1>1, <1>11 DEF vars
<1> QED  BY <1>2, <1>3, <1>4, <1>5, <1>6, <1>7, <1>8, <1>9, <1>10, <1>11
         DEF Next, Main

-----------------------------------------------------------------------------
(* Writes. *)

LEMMA NextArrive ==
    TypeOK /\ AliveIsOpen /\ LoginsArrive /\ [Next]_vars
        => LoginsArrive'
<1> SUFFICES ASSUME TypeOK, AliveIsOpen, LoginsArrive, [Next]_vars
             PROVE  LoginsArrive'
  OBVIOUS
<1> USE DEF threads, client, tracker, LoginsArrive
<1>1. CASE UNCHANGED astray \/ CloseSocket
  BY <1>1 DEF CloseSocket
<1>2. CASE Dial \/ DialFails \/ Exhausted \/ Top \/ Check \/ NextTracker
  BY <1>2 DEF Dial, DialFails, Exhausted, Top, Check, NextTracker
<1>3. CASE Greet \/ LoginLine \/ QuitLine
  <2>1. UNCHANGED astray \/ (trackerAlive /\ \E item : Write(item))
    BY <1>3 DEF Greet, LoginLine, QuitLine
  <2>2. UNCHANGED astray
    BY <2>1, WriteLinks DEF AliveIsOpen
  <2> QED  BY <2>2
<1>4. CASE UploadLine \/ CopyLine
  <2>1. line[1] \in {"upload", "short", "long"}
    BY <1>4 DEF UploadLine, CopyLine, Console
  <2>2. UNCHANGED astray \/ Write(line)
    BY <1>4 DEF UploadLine, CopyLine
  <2> QED  BY <2>1, <2>2, WriteLinks
<1>8. CASE ReportWrite
  <2>1. PICK item : item = <<"report", reports>>
    OBVIOUS
  <2>2. UNCHANGED astray \/ Write(item)
    BY <1>8, <2>1 DEF ReportWrite
  <2> QED  BY <2>1, <2>2, WriteLinks
<1>5. CASE SelectEnd \/ SelectConsole \/ LocalLine \/ Heartbeat \/ ReportBegin
           \/ TakeNumber
  BY <1>1, <1>5 DEF SelectEnd, SelectConsole, LocalLine, Heartbeat,
                    HeartbeatBegin, HeartbeatRead, HeartbeatEnd, ReportBegin,
                    TakeNumber
<1>6. ASSUME NEW t \in Tracker,
             ReadLine(t) \/ ReadEnd(t) \/ Crash(t) \/ Start(t)
      PROVE  LoginsArrive'
  BY <1>1, <1>6 DEF ReadLine, ReadEnd, Crash, Start
<1>7. CASE UNCHANGED vars
  BY <1>7 DEF vars
<1> QED  BY <1>2, <1>3, <1>4, <1>5, <1>6, <1>7, <1>8 DEF Next, Main

LEMMA NextQuiet ==
    ASSUME TypeOK, AliveIsOpen, NoSecondWrite, QuietSurvives, [Next]_vars
    PROVE  NoSecondWrite' /\ QuietSurvives'
<1> USE DEF threads, client, tracker, NoSecondWrite, QuietSurvives
<1>1. CASE main' \notin {"greet", "console", "killed"}
  BY <1>1
<1>2. CASE Dial \/ DialFails \/ Exhausted \/ Top \/ Check \/ NextTracker
  BY <1>1, <1>2 DEF Dial, DialFails, Exhausted, Top, Check, NextTracker, Goto,
                    TypeOK
<1>3. CASE Greet \/ UploadLine \/ LoginLine \/ CopyLine \/ QuitLine
  <2>1. main \in {"greet", "console"} /\ reports' = reports
    BY <1>3 DEF Greet, UploadLine, LoginLine, CopyLine, QuitLine, Console
  <2>2. main' = "killed" => Killed
    BY <1>3 DEF Greet, UploadLine, LoginLine, CopyLine, QuitLine
  <2>3. main' \notin {"greet", "console"}
    BY <1>3 DEF Greet, UploadLine, LoginLine, CopyLine, QuitLine
  <2>4. main' = "killed" => reports' > 0
    BY <2>1, <2>2 DEF Killed, TypeOK, Number
  <2> QED  BY <2>3, <2>4
<1>4. CASE SelectEnd
  BY <1>4 DEF SelectEnd, CloseSocket
<1>5. CASE SelectConsole
  BY <1>5 DEF SelectConsole, Goto, Deaf
<1>6. CASE LocalLine
  BY <1>1, <1>6 DEF LocalLine
<1>7. CASE Heartbeat \/ TakeNumber
  BY <1>7 DEF Heartbeat, HeartbeatBegin, HeartbeatRead, HeartbeatEnd,
              CloseSocket, TakeNumber
<1>8. CASE ReportBegin \/ ReportWrite
  BY <1>8 DEF ReportBegin, ReportWrite, AliveIsOpen, TypeOK, Number
<1>9. ASSUME NEW t \in Tracker, ReadLine(t) \/ Start(t)
      PROVE  NoSecondWrite' /\ QuietSurvives'
  BY <1>9 DEF ReadLine, Start
<1>10. ASSUME NEW t \in Tracker, ReadEnd(t) \/ Crash(t)
       PROVE  NoSecondWrite' /\ QuietSurvives'
  <2>1. link'[peer] = "reset" => link[peer] = "reset"
    BY <1>10 DEF ReadEnd, Crash, TypeOK
  <2>2. UNCHANGED <<main, reports, sockfd, peer>>
    BY <1>10 DEF ReadEnd, Crash
  <2> QED  BY <2>1, <2>2
<1>11. CASE UNCHANGED vars
  BY <1>11 DEF vars
<1> QED  BY <1>2, <1>3, <1>4, <1>5, <1>6, <1>7, <1>8, <1>9, <1>10, <1>11
         DEF Next, Main

-----------------------------------------------------------------------------
(* The automatic login. *)

LEMMA SentSteps ==
    ASSUME TypeOK, [Next]_vars
    PROVE  \/ UNCHANGED sent
           \/ \E item \in Items :
                 /\ Write(item)
                 /\ \/ item[1] = "report"
                    \/ main = "greet" /\ item[1] = "relogin"
                    \/ main = "console"
<1> USE DEF threads, client, tracker
<1>1. CASE Greet
  <2>0. <<"relogin", 0>> \in Items
    BY LinkAssumption DEF Items, Sort, Number
  <2>1. PICK item \in Items : item = <<"relogin", 0>>
    BY <2>0
  <2>2. UNCHANGED sent \/ Write(item)
    BY <1>1, <2>1 DEF Greet
  <2> QED  BY <1>1, <2>1, <2>2 DEF Greet
<1>2. CASE ReportWrite
  <2>1. PICK item \in Items : item = <<"report", reports>>
    BY DEF Items, Sort, TypeOK
  <2>2. UNCHANGED sent \/ Write(item)
    BY <1>2, <2>1 DEF ReportWrite
  <2> QED  BY <2>1, <2>2
<1>3. CASE UploadLine \/ LoginLine \/ CopyLine \/ QuitLine
  <2>1. line[1] # "local" /\ main = "console"
    BY <1>3 DEF UploadLine, LoginLine, CopyLine, QuitLine, Console
  <2>2. UNCHANGED sent \/ Write(line)
    BY <1>3 DEF UploadLine, LoginLine, CopyLine, QuitLine
  <2> QED  BY <2>1, <2>2, LineItem
<1>4. CASE Dial \/ DialFails \/ Exhausted \/ Top \/ Check \/ NextTracker
           \/ SelectEnd \/ SelectConsole \/ LocalLine
  BY <1>4 DEF Dial, DialFails, Exhausted, Top, Check, NextTracker, SelectEnd,
              SelectConsole, LocalLine
<1>5. CASE Heartbeat \/ ReportBegin \/ TakeNumber
  BY <1>5 DEF Heartbeat, HeartbeatBegin, HeartbeatRead, HeartbeatEnd,
              ReportBegin, TakeNumber
<1>6. ASSUME NEW t \in Tracker,
             ReadLine(t) \/ ReadEnd(t) \/ Crash(t) \/ Start(t)
      PROVE  UNCHANGED sent
  BY <1>6 DEF ReadLine, ReadEnd, Crash, Start
<1>7. CASE UNCHANGED vars
  BY <1>7 DEF vars
<1> QED  BY <1>1, <1>2, <1>3, <1>4, <1>5, <1>6, <1>7 DEF Next, Main

(* A write appends to the lines of the current tracker, or to none. *)
LEMMA WriteSends ==
    ASSUME TypeOK, NEW item \in Items, Write(item), NEW t \in Tracker
    PROVE  \/ sent'[t] = sent[t]
           \/ /\ t = peer /\ sockfd = "open" /\ link[peer] = "up"
              /\ sent'[t] = Put(sent[t], item)
BY DEF Write, TypeOK

(* The two halves of what is written follow what was there. *)
LEMMA PutIs ==
    ASSUME NEW q \in Seq(Halves), NEW item \in Items
    PROVE  /\ Len(q) \in Nat /\ Len(Put(q, item)) = Len(q) + 2
           /\ DOMAIN q = 1..Len(q) /\ DOMAIN Put(q, item) = 1..(Len(q) + 2)
           /\ \A k \in 1..Len(q) : Put(q, item)[k] = q[k]
           /\ Put(q, item)[Len(q) + 1] = <<item[1], item[2], "front">>
           /\ Put(q, item)[Len(q) + 2] = <<item[1], item[2], "rest">>
<1>1. PICK a \in Halves : a = <<item[1], item[2], "front">>
  BY DEF Items, Halves
<1>2. PICK b \in Halves : b = <<item[1], item[2], "rest">>
  BY DEF Items, Halves
<1>3. Put(q, item) = Append(Append(q, a), b)
  BY <1>1, <1>2 DEF Put
<1>4. /\ Len(q) \in Nat /\ DOMAIN q = 1..Len(q)
      /\ Append(q, a) \in Seq(Halves) /\ Len(Append(q, a)) = Len(q) + 1
      /\ \A k \in 1..Len(q) : Append(q, a)[k] = q[k]
      /\ Append(q, a)[Len(q) + 1] = a
  OBVIOUS
<1> DEFINE r == Append(q, a)
<1> HIDE DEF r
<1>5. /\ Len(Append(r, b)) = Len(r) + 1 /\ DOMAIN Append(r, b) = 1..(Len(r) + 1)
      /\ \A k \in 1..Len(r) : Append(r, b)[k] = r[k]
      /\ Append(r, b)[Len(r) + 1] = b
  BY <1>4 DEF r
<1>6. \A k \in 1..Len(q) : Append(r, b)[k] = q[k]
  BY <1>4, <1>5 DEF r
<1> QED  BY <1>1, <1>2, <1>3, <1>4, <1>5, <1>6 DEF r

LEMMA NextOnce ==
    ASSUME TypeOK, AliveIsOpen, DialledInTurn, DialledOnce, [Next]_vars
    PROVE  DialledOnce'
<1> USE LinkAssumption DEF threads, client, tracker, DialledOnce
<1>1. ASSUME NEW t \in Tracker
      PROVE  \/ sent'[t] = sent[t]
             \/ t = trackerIndex /\ main # "dial"
  BY SentSteps, WriteSends DEF AliveIsOpen
<1>2. CASE Dial
  BY <1>2 DEF Dial, TypeOK, Tracker
<1>3. CASE DialFails \/ NextTracker
  <2>1. trackerIndex' = trackerIndex + 1 /\ UNCHANGED <<sent, owed>>
    BY <1>3 DEF DialFails, NextTracker
  <2> QED  BY <2>1 DEF Tracker, TypeOK
<1>4. ASSUME UNCHANGED <<trackerIndex, owed>>, main' = "dial" => main = "dial"
      PROVE  DialledOnce'
  <2>1. ASSUME NEW t \in Tracker,
               t > trackerIndex \/ (t = trackerIndex /\ main' = "dial")
        PROVE  sent'[t] = <<>>
    BY <1>1, <1>4, <2>1 DEF Tracker, TypeOK
  <2> QED  BY <1>4, <2>1 DEF TypeOK
<1>5. CASE Exhausted \/ Top \/ Check \/ SelectEnd \/ SelectConsole
  BY <1>4, <1>5 DEF Exhausted, Top, Check, SelectEnd, SelectConsole, Goto
<1>6. CASE Greet \/ LocalLine \/ UploadLine \/ LoginLine \/ CopyLine
           \/ QuitLine
  BY <1>4, <1>6 DEF Greet, LocalLine, UploadLine, LoginLine, CopyLine,
                    QuitLine
<1>7. CASE Heartbeat \/ TakeNumber \/ ReportBegin \/ ReportWrite
  BY <1>4, <1>7 DEF Heartbeat, HeartbeatBegin, HeartbeatRead, HeartbeatEnd,
                    TakeNumber, ReportBegin, ReportWrite
<1>8. ASSUME NEW t \in Tracker,
             ReadLine(t) \/ ReadEnd(t) \/ Crash(t) \/ Start(t)
      PROVE  DialledOnce'
  BY <1>4, <1>8 DEF ReadLine, ReadEnd, Crash, Start
<1>9. CASE UNCHANGED vars
  BY <1>4, <1>9 DEF vars
<1> QED  BY <1>2, <1>3, <1>5, <1>6, <1>7, <1>8, <1>9 DEF Next, Main

LEMMA NextGreeted ==
    ASSUME TypeOK, AliveIsOpen, DialledOnce, GreetedFirst, [Next]_vars,
           PeerGreeted
    PROVE  GreetedFirst'
<1> USE DEF threads, client, tracker
<1>1. ASSUME NEW t \in owed' \ owed
      PROVE  /\ t \in Tracker /\ sent'[t] = <<>>
  <2>1. Dial
    BY <1>1 DEF Next, vars, Main, DialFails, Exhausted, Top, Check,
                NextTracker, SelectEnd, SelectConsole, LocalLine, Greet,
                UploadLine, LoginLine, CopyLine, QuitLine, Heartbeat,
                HeartbeatBegin, HeartbeatRead, HeartbeatEnd, TakeNumber,
                ReportBegin, ReportWrite, ReadLine, ReadEnd, Crash, Start
  <2> QED  BY <1>1, <2>1 DEF Dial, DialledOnce, TypeOK
<1>2. ASSUME NEW t \in owed, NEW i \in DOMAIN sent'[t],
             sent'[t][i][1] # "report"
      PROVE  \E j \in 1..i : sent'[t][j][1] = "relogin"
  <2>0. t \in Tracker /\ sent[t] \in Seq(Halves)
    BY DEF TypeOK
  <2>1. CASE sent'[t] = sent[t]
    BY <1>2, <2>1 DEF GreetedFirst
  <2>2. ASSUME NEW item \in Items, t = peer, sockfd = "open",
               link[peer] = "up", sent'[t] = Put(sent[t], item),
               \/ item[1] = "report"
               \/ main = "greet" /\ item[1] = "relogin"
               \/ main = "console"
        PROVE  \E j \in 1..i : sent'[t][j][1] = "relogin"
    <3>1. /\ \A j \in DOMAIN sent[t] : sent'[t][j] = sent[t][j]
          /\ sent'[t][Len(sent[t]) + 1][1] = item[1]
          /\ sent'[t][Len(sent[t]) + 2][1] = item[1]
          /\ DOMAIN sent'[t] = 1..(Len(sent[t]) + 2)
          /\ DOMAIN sent[t] = 1..Len(sent[t]) /\ Len(sent[t]) \in Nat
      BY <2>0, <2>2, PutIs
    <3>2. CASE i \in DOMAIN sent[t]
      <4>1. PICK j \in 1..i : sent[t][j][1] = "relogin"
        BY <1>2, <3>1, <3>2 DEF GreetedFirst
      <4>2. j \in DOMAIN sent[t]
        BY <3>1, <3>2, <4>1
      <4>3. sent'[t][j][1] = "relogin"
        BY <3>1, <4>1, <4>2
      <4> QED  BY <4>1, <4>3
    <3>3. CASE i \in {Len(sent[t]) + 1, Len(sent[t]) + 2}
      <4>1. CASE item[1] = "relogin"
        <5>1. Len(sent[t]) + 1 \in 1..i
          BY <3>1, <3>3
        <5> QED  BY <3>1, <4>1, <5>1
      <4>2. CASE main = "console"
        <5>1. PICK j \in DOMAIN sent[t] : sent[t][j][1] = "relogin"
          BY <2>2, <4>2 DEF PeerGreeted
        <5>2. j \in 1..i
          BY <3>1, <3>3, <5>1
        <5> QED  BY <3>1, <5>1, <5>2
      <4>3. sent'[t][i][1] = item[1]
        BY <3>1, <3>3
      <4> QED  BY <1>2, <2>2, <4>1, <4>2, <4>3
    <3> QED  BY <3>1, <3>2, <3>3
  <2> QED  BY <2>0, <2>1, <2>2, SentSteps, WriteSends
<1> QED  BY <1>1, <1>2 DEF GreetedFirst

LEMMA NextPeer ==
    ASSUME TypeOK, AliveIsOpen, DialledOnce, PeerGreeted, [Next]_vars
    PROVE  PeerGreeted'
<1> USE DEF threads, client, tracker
<1>0. ASSUME UNCHANGED <<peer, owed>>,
             link'[peer] = "up" => link[peer] = "up",
             sockfd' = "open" => sockfd = "open",
             main' # "greet" => main # "greet"
      PROVE  PeerGreeted'
  <2>1. ASSUME NEW j \in DOMAIN sent[peer], sent[peer][j][1] = "relogin"
        PROVE  j \in DOMAIN sent'[peer] /\ sent'[peer][j] = sent[peer][j]
    <3>1. sent[peer] \in Seq(Halves) /\ peer \in Tracker
      BY DEF TypeOK
    <3>2. \/ sent'[peer] = sent[peer]
          \/ \E item \in Items : sent'[peer] = Put(sent[peer], item)
      BY <3>1, SentSteps, WriteSends
    <3> QED  BY <2>1, <3>1, <3>2, PutIs
  <2> QED  BY <1>0, <2>1 DEF PeerGreeted
<1>1. CASE Dial
  <2>1. trackerIndex \notin owed
    BY <1>1 DEF Dial, DialledOnce, TypeOK
  <2> QED  BY <1>1, <2>1 DEF Dial, PeerGreeted
<1>2. CASE DialFails
  BY <1>2 DEF DialFails, PeerGreeted
<1>3. CASE Greet
  <2>1. CASE trackerAlive /\ ~Killed
    <3>0. <<"relogin", 0>> \in Items
      BY LinkAssumption DEF Items, Sort, Number
    <3>1. PICK item \in Items : item = <<"relogin", 0>>
      BY <3>0
    <3>2. Write(item)
      BY <1>3, <2>1, <3>1 DEF Greet
    <3>3. UNCHANGED <<peer, owed, sockfd>>
      BY <1>3 DEF Greet
    <3>4. CASE sockfd = "open" /\ link[peer] = "up"
      <4>1. sent'[peer] = Put(sent[peer], item)
        BY <3>2, <3>4 DEF Write, TypeOK
      <4>2. sent[peer] \in Seq(Halves)
        BY DEF TypeOK
      <4>3. /\ Len(sent[peer]) + 1 \in DOMAIN sent'[peer]
            /\ sent'[peer][Len(sent[peer]) + 1][1] = item[1]
        BY <4>1, <4>2, PutIs
      <4> QED  BY <3>1, <3>3, <4>3 DEF PeerGreeted
    <3>5. CASE ~(sockfd = "open" /\ link[peer] = "up")
      BY <3>2, <3>3, <3>5 DEF PeerGreeted, Write, TypeOK
    <3> QED  BY <3>4, <3>5
  <2>2. CASE ~(trackerAlive /\ ~Killed)
    BY <1>3, <2>2 DEF Greet, PeerGreeted, Killed, AliveIsOpen
  <2> QED  BY <2>1, <2>2
<1>4. CASE Exhausted \/ Top \/ Check \/ SelectEnd \/ SelectConsole
           \/ NextTracker \/ LocalLine
  BY <1>0, <1>4 DEF Exhausted, Top, Check, SelectEnd, SelectConsole, Goto,
                    CloseSocket, NextTracker, LocalLine, Console
<1>5. CASE UploadLine \/ LoginLine \/ CopyLine \/ QuitLine \/ ReportWrite
  <2>1. UNCHANGED link \/ \E item : Write(item)
    BY <1>5 DEF UploadLine, LoginLine, CopyLine, QuitLine, ReportWrite
  <2>2. link'[peer] = "up" => link[peer] = "up"
    BY <2>1 DEF Write, TypeOK
  <2>3. /\ UNCHANGED <<peer, owed>>
        /\ sockfd' = "open" => sockfd = "open"
        /\ UploadLine \/ LoginLine \/ CopyLine \/ QuitLine => main = "console"
    BY <1>5 DEF UploadLine, LoginLine, CopyLine, QuitLine, ReportWrite, Console
  <2>4. CASE ReportWrite
    <3>1. CASE main' = main
      BY <1>0, <2>2, <2>3, <3>1
    <3>2. CASE Killed
      BY <2>2, <2>3, <2>4, <3>2 DEF PeerGreeted, Killed, ReportWrite
    <3> QED  BY <2>4, <3>1, <3>2 DEF ReportWrite
  <2> QED  BY <1>0, <1>5, <2>2, <2>3, <2>4
<1>6. CASE Heartbeat \/ ReportBegin \/ TakeNumber
  BY <1>0, <1>6 DEF Heartbeat, HeartbeatBegin, HeartbeatRead, HeartbeatEnd,
                    CloseSocket, ReportBegin, TakeNumber
<1>7. ASSUME NEW t \in Tracker,
             ReadLine(t) \/ ReadEnd(t) \/ Crash(t) \/ Start(t)
      PROVE  PeerGreeted'
  BY <1>0, <1>7 DEF ReadLine, ReadEnd, Crash, Start, TypeOK
<1>8. CASE UNCHANGED vars
  BY <1>0, <1>8 DEF vars
<1> QED  BY <1>1, <1>2, <1>3, <1>4, <1>5, <1>6, <1>7, <1>8 DEF Next, Main

-----------------------------------------------------------------------------

LEMMA InitInv == Init => Inv
<1> SUFFICES ASSUME Init PROVE Inv
  OBVIOUS
<1> USE LinkAssumption DEF Init
<1>1. TypeOK
  <2>1. /\ \A q \in {wire, partial, sent} : q \in [Tracker -> Seq(Halves)]
        /\ handled \in [Tracker -> Seq(Seq(Halves))]
    OBVIOUS
  <2>2. peer \in Tracker /\ trackerIndex \in 0..N /\ probed \in 0..N
    BY DEF Tracker
  <2>3. line \in Kind \X Number
    BY DEF Blank, Kind, Number
  <2>4. /\ typed \in Number /\ reports \in Number /\ typed + reports \in Number
        /\ crashes \in 0..MaxCrashes /\ cuts \in 0..MaxCuts
    BY DEF Number
  <2> QED  BY <2>1, <2>2, <2>3, <2>4 DEF TypeOK
<1>2. AliveIsOpen /\ DialledInTurn
  BY DEF AliveIsOpen, DialledInTurn, Tracker
<1>3. LoginsArrive /\ NoSecondWrite /\ QuietSurvives
  BY DEF LoginsArrive, NoSecondWrite, QuietSurvives
<1>4. DialledOnce /\ PeerGreeted /\ GreetedFirst
  BY DEF DialledOnce, PeerGreeted, GreetedFirst
<1> QED  BY <1>1, <1>2, <1>3, <1>4 DEF Inv

LEMMA NextInv == Inv /\ [Next]_vars => Inv'
BY NextTypes, NextAlive, NextDialled, NextArrive, NextQuiet, NextOnce,
   NextGreeted, NextPeer
   DEF Inv

(* Every variable keeps its type; no tracker behind the last one is dialled. *)
THEOREM TypeCorrect == Spec => []TypeOK
<1>1. Inv => TypeOK
  BY DEF Inv
<1> QED  BY InitInv, NextInv, <1>1, PTL DEF Spec

(* ProbesItsOwn for any number of trackers: the heartbeat, which reads       *)
(* trackerIndex under the lock that main changes it without, gives up no     *)
(* connection over the death of a tracker other than its own.                *)
THEOREM HeartbeatProbesItsOwn == Spec => []ProbesItsOwn
<1>1. Inv => ProbesItsOwn
  BY DEF Inv, AliveIsOpen, ProbesItsOwn
<1> QED  BY InitInv, NextInv, <1>1, PTL DEF Spec

(* LoginsArrive likewise: trackerAlive, read under the lock by the one       *)
(* thread that clears it without, stands for the open connection, so no      *)
(* login goes to a socket that another thread was given the number of.       *)
THEOREM LoginsAreSafe == Spec => []LoginsArrive
<1>1. Inv => LoginsArrive
  BY DEF Inv
<1> QED  BY InitInv, NextInv, <1>1, PTL DEF Spec

(* GreetedFirst likewise: on a tracker that a logged-in user is moved to,     *)
(* nothing but reports of pieces precedes the automatic login.               *)
THEOREM LoginComesFirst == Spec => []GreetedFirst
<1>1. Inv => GreetedFirst
  BY DEF Inv
<1> QED  BY InitInv, NextInv, <1>1, PTL DEF Spec

(* ExitTried likewise: main passes over no tracker before it gives up.       *)
THEOREM AllAreTried == Spec => []ExitTried
<1>1. Inv => ExitTried
  BY LinkAssumption DEF Inv, DialledInTurn, ExitTried, Tracker
<1> QED  BY InitInv, NextInv, <1>1, PTL DEF Spec

(* QuietSurvives likewise: main alone never writes twice to a connection     *)
(* whose other end is gone, so only a report can bring the SIGPIPE about.    *)
THEOREM OnlyReportsKill == Spec => []QuietSurvives
<1>1. Inv => QuietSurvives
  BY DEF Inv
<1> QED  BY InitInv, NextInv, <1>1, PTL DEF Spec
=============================================================================
