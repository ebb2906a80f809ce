-------------------------- MODULE ClientLinesProofs --------------------------
(***************************************************************************)
(* Theorems about what becomes of the lines a client of ClientLink sends,  *)
(* for any number of trackers, lines, reports and crashes and any way the  *)
(* lines are cut into reads: none is handled twice, out of order or joined *)
(* to another, and the automatic login gets through, but for what its      *)
(* missing newline costs.                                                  *)
(***************************************************************************)
EXTENDS ClientLinkProofs

(* q is the end of s, what follows its first Len(s) - Len(q) members. *)
IsRest(q, s) == /\ Len(q) <= Len(s)
                /\ \A k \in 1..Len(q) : q[k] = s[Len(s) - Len(q) + k]

(* The end of one line, with the automatic login in front of it at most. *)
Shape(parts) ==
    /\ parts # <<>> /\ parts[Len(parts)][3] = "rest"
    /\ \A k \in 1..Len(parts) :
          \/ parts[k][1] = "relogin"
          \/ /\ parts[k][1] = parts[Len(parts)][1]
             /\ parts[k][2] = parts[Len(parts)][2]

(* What is sent are the two halves of each line. *)
Paired(s) ==
    \A a \in 1..Len(s) :
        /\ s[a][3] = "front" =>
              a < Len(s) /\ s[a + 1] = <<s[a][1], s[a][2], "rest">>
        /\ s[a][3] = "rest" =>
              a > 1 /\ s[a - 1] = <<s[a][1], s[a][2], "front">>

(* h are pieces of the first c members of s, pos[i] members in front of the  *)
(* i-th, that do not overlap.                                                *)
Fits(h, s, c, pos) ==
    /\ pos \in [1..Len(h) -> Nat]
    /\ \A i \in 1..Len(h) :
          /\ Shape(h[i])
          /\ pos[i] + Len(h[i]) <= c
          /\ \A k \in 1..Len(h[i]) : h[i][k] = s[pos[i] + k]
          /\ \A j \in 1..Len(h) : i < j => pos[i] + Len(h[i]) <= pos[j]

LEMMA RestAppend ==
    ASSUME NEW S, NEW q \in Seq(S), NEW s \in Seq(S), NEW x \in S, IsRest(q, s)
    PROVE  /\ IsRest(Append(q, x), Append(s, x))
           /\ Len(Append(s, x)) - Len(Append(q, x)) = Len(s) - Len(q)
<1>1. /\ Len(Append(q, x)) = Len(q) + 1 /\ Len(Append(s, x)) = Len(s) + 1
      /\ Len(q) \in Nat /\ Len(s) \in Nat
      /\ \A k \in 1..Len(q) : Append(q, x)[k] = q[k]
      /\ \A k \in 1..Len(s) : Append(s, x)[k] = s[k]
      /\ Append(q, x)[Len(q) + 1] = x /\ Append(s, x)[Len(s) + 1] = x
  OBVIOUS
<1> QED  BY <1>1 DEF IsRest

LEMMA RestDrop ==
    ASSUME NEW S, NEW q \in Seq(S), NEW s \in Seq(S), NEW m \in 0..Len(q),
           IsRest(q, s)
    PROVE  /\ IsRest(SubSeq(q, m + 1, Len(q)), s)
           /\ Len(SubSeq(q, m + 1, Len(q))) = Len(q) - m
<1>1. /\ Len(SubSeq(q, m + 1, Len(q))) = Len(q) - m
      /\ \A k \in 1..(Len(q) - m) : SubSeq(q, m + 1, Len(q))[k] = q[m + k]
      /\ Len(q) \in Nat /\ Len(s) \in Nat /\ m \in Nat
  OBVIOUS
<1> DEFINE r == SubSeq(q, m + 1, Len(q))
<1> HIDE DEF r
<1>2. ASSUME NEW k \in 1..(Len(q) - m)
      PROVE  r[k] = s[Len(s) - (Len(q) - m) + k]
  <2>1. m + k \in 1..Len(q)
    BY <1>1
  <2>2. Len(s) - Len(q) + (m + k) = Len(s) - (Len(q) - m) + k
    BY <1>1
  <2>3. q[m + k] = s[Len(s) - Len(q) + (m + k)]
    BY <2>1 DEF IsRest
  <2> QED  BY <1>1, <2>2, <2>3 DEF r
<1>3. Len(r) = Len(q) - m /\ Len(q) - m <= Len(s)
  BY <1>1 DEF IsRest, r
<1> QED  BY <1>2, <1>3 DEF IsRest, r

(* More may be read and more may be sent. *)
LEMMA FitsMore ==
    ASSUME NEW S, NEW s \in Seq(S), NEW h \in Seq(Seq(S)), NEW c \in Nat,
           NEW pos, Fits(h, s, c, pos), NEW e \in Nat, c <= e
    PROVE  Fits(h, s, e, pos)
<1>0. \A i \in 1..Len(h) : Len(h[i]) \in Nat
  OBVIOUS
<1>1. \A i \in 1..Len(h) :
         Len(h[i]) \in Nat /\ pos[i] \in Nat /\ pos[i] + Len(h[i]) <= c
  BY <1>0 DEF Fits
<1>2. \A i \in 1..Len(h) : pos[i] + Len(h[i]) <= e
  BY <1>1
<1> QED  BY <1>2 DEF Fits

LEMMA FitsGrow ==
    ASSUME NEW S, NEW s \in Seq(S), NEW h \in Seq(Seq(S)), NEW c \in 0..Len(s),
           NEW pos, Fits(h, s, c, pos), NEW x \in S
    PROVE  Fits(h, Append(s, x), c, pos)
<1>1. /\ Len(s) \in Nat /\ \A k \in 1..Len(s) : Append(s, x)[k] = s[k]
      /\ Len(h) \in Nat /\ \A i \in 1..Len(h) : Len(h[i]) \in Nat
  OBVIOUS
<1>2. \A i \in 1..Len(h) : pos[i] \in Nat /\ pos[i] + Len(h[i]) <= c
  BY DEF Fits
<1>3. ASSUME NEW i \in 1..Len(h), NEW k \in 1..Len(h[i])
      PROVE  Append(s, x)[pos[i] + k] = s[pos[i] + k]
  <2>1. pos[i] + k \in 1..Len(s)
    BY <1>1, <1>2, SMTT(30)
  <2> QED  BY <1>1, <2>1
<1> QED  BY <1>1, <1>3 DEF Fits

(* The next piece, taken from behind the first c members. *)
LEMMA FitsNext ==
    ASSUME NEW S, NEW s \in Seq(S), NEW h \in Seq(Seq(S)), NEW c \in Nat,
           NEW pos, Fits(h, s, c, pos), NEW parts \in Seq(S), Shape(parts),
           NEW e \in Nat, c + Len(parts) <= e,
           \A k \in 1..Len(parts) : parts[k] = s[c + k]
    PROVE  \E p : Fits(Append(h, parts), s, e, p)
<1> DEFINE n == Len(h) + 1
           p == [i \in 1..n |-> IF i = n THEN c ELSE pos[i]]
           g == Append(h, parts)
<1>1. /\ Len(h) \in Nat /\ Len(parts) \in Nat /\ Len(g) = n /\ g[n] = parts
      /\ \A i \in 1..Len(h) : g[i] = h[i] /\ Len(h[i]) \in Nat
  OBVIOUS
<1>2. /\ p \in [1..n -> Nat] /\ p[n] = c
      /\ \A i \in 1..Len(h) : p[i] = pos[i]
  BY <1>1 DEF Fits
<1>3. \A i \in 1..n : i = n \/ i \in 1..Len(h)
  BY <1>1
<1> HIDE DEF p, g
<1>4. ASSUME NEW i \in 1..n
      PROVE  /\ Shape(g[i]) /\ p[i] + Len(g[i]) <= e
             /\ \A k \in 1..Len(g[i]) : g[i][k] = s[p[i] + k]
             /\ \A j \in 1..n : i < j => p[i] + Len(g[i]) <= p[j]
  <2>1. CASE i = n
    BY <1>1, <1>2, <2>1
  <2>2. CASE i \in 1..Len(h)
    <3>1. g[i] = h[i] /\ p[i] = pos[i]
      BY <1>1, <1>2, <2>2
    <3>2. Shape(h[i]) /\ pos[i] + Len(h[i]) <= c /\ pos[i] \in Nat
      BY <2>2 DEF Fits
    <3>3. \A k \in 1..Len(h[i]) : h[i][k] = s[pos[i] + k]
      BY <2>2 DEF Fits
    <3>4. \A j \in 1..Len(h) : i < j => pos[i] + Len(h[i]) <= pos[j]
      BY <2>2 DEF Fits
    <3>5. \A j \in 1..n : i < j => p[i] + Len(g[i]) <= p[j]
      BY <1>2, <1>3, <3>1, <3>2, <3>4
    <3>6. p[i] + Len(g[i]) <= e
      BY <1>1, <2>2, <3>1, <3>2
    <3> QED  BY <3>1, <3>2, <3>3, <3>5, <3>6
  <2> QED  BY <1>3, <2>1, <2>2
<1>5. Fits(g, s, e, p)
  BY <1>1, <1>2, <1>4 DEF Fits
<1> QED  BY <1>5 DEF g

-----------------------------------------------------------------------------
(* The lines of a tracker. *)

Login == <<"relogin", 0>>

Pending(t) == partial[t] \o wire[t]
Passed(t) == Len(sent[t]) - Len(Pending(t))

(* What a tracker has not read is the end of what it was sent; of the line   *)
(* it is reading it has no newline; what it has handled lies in front.       *)
Lines(t) ==
    /\ IsRest(Pending(t), sent[t]) /\ Paired(sent[t])
    /\ \A k \in 1..Len(partial[t]) : ~ Newline(partial[t][k])
    /\ \E pos : Fits(handled[t], sent[t], Passed(t), pos)

(* One automatic login is sent to a tracker at most, on a connection made    *)
(* while loggedIn.                                                           *)
OneLogin ==
    /\ \A t \in Tracker : \A a \in 1..Len(sent[t]) :
          sent[t][a][1] = "relogin" =>
             /\ sent[t][a][2] = 0 /\ t \in owed
             /\ \A b \in 1..Len(sent[t]) :
                   sent[t][b][1] = "relogin" /\ sent[t][a][3] = sent[t][b][3]
                       => a = b
    /\ main = "greet" => /\ peer \in owed
                         /\ \A a \in 1..Len(sent[peer]) :
                               sent[peer][a][1] # "relogin"

Swallowed(parts) ==
    Greets(parts) /\ parts[3][1] \in {"long", "upload", "login", "report"}

(* A login in front of all other lines has not been read, or was heard, or   *)
(* swallowed.                                                                *)
Heard(t) ==
    link[t] = "up" /\ sent[t] # <<>> /\ sent[t][1][1] = "relogin" =>
        \/ Passed(t) = 0
        \/ \E i \in 1..Len(handled[t]) :
              LogsIn(handled[t][i]) \/ Swallowed(handled[t][i])

LinesInv == /\ Inv /\ OneLogin
            /\ \A t \in Tracker : Lines(t) /\ Heard(t)

LEMMA LinesType ==
    ASSUME TypeOK, NEW t \in Tracker
    PROVE  /\ wire[t] \in Seq(Halves) /\ partial[t] \in Seq(Halves)
           /\ sent[t] \in Seq(Halves) /\ Pending(t) \in Seq(Halves)
           /\ handled[t] \in Seq(Seq(Halves))
<1>1. /\ wire[t] \in Seq(Halves) /\ partial[t] \in Seq(Halves)
      /\ sent[t] \in Seq(Halves) /\ handled[t] \in Seq(Seq(Halves))
  BY DEF TypeOK
<1> QED  BY <1>1 DEF Pending

(* Who does what to them. *)
LEMMA LineSteps ==
    ASSUME TypeOK, [Next]_vars
    PROVE  \/ UNCHANGED <<wire, partial, sent, handled>>
           \/ /\ UNCHANGED <<partial, handled>>
              /\ \E item \in Items :
                    /\ Write(item)
                    /\ \/ item[1] # "relogin"
                       \/ main = "greet" /\ main' = "top" /\ item = Login
           \/ \E t \in Tracker : ReadLine(t) \/ ReadEnd(t) \/ Crash(t)
<1> USE DEF threads, client, tracker
<1>1. CASE Greet
  <2>0. Login \in Items
    BY LinkAssumption DEF Items, Sort, Number, Login
  <2>1. PICK item \in Items : item = Login
    BY <2>0
  <2>2. \/ UNCHANGED <<wire, sent>>
        \/ Write(item) /\ main = "greet" /\ main' = "top"
    BY <1>1, <2>1 DEF Greet, Login
  <2> QED  BY <1>1, <2>1, <2>2 DEF Greet
<1>2. CASE ReportWrite
  <2>1. PICK item \in Items : item = <<"report", reports>>
    BY DEF Items, Sort, TypeOK
  <2>2. UNCHANGED <<wire, sent>> \/ Write(item)
    BY <1>2, <2>1 DEF ReportWrite
  <2> QED  BY <1>2, <2>1, <2>2 DEF ReportWrite
<1>3. CASE UploadLine \/ LoginLine \/ CopyLine \/ QuitLine
  <2>1. line[1] # "local"
    BY <1>3 DEF UploadLine, LoginLine, CopyLine, QuitLine, Console
  <2>2. line[1] # "relogin"
    BY DEF TypeOK, Kind
  <2>3. UNCHANGED <<wire, sent>> \/ Write(line)
    BY <1>3 DEF UploadLine, LoginLine, CopyLine, QuitLine
  <2>4. UNCHANGED <<partial, handled>>
    BY <1>3 DEF UploadLine, LoginLine, CopyLine, QuitLine
  <2> QED  BY <2>1, <2>2, <2>3, <2>4, LineItem
<1>4. CASE Dial \/ DialFails \/ Exhausted \/ Top \/ Check \/ NextTracker
           \/ SelectEnd \/ SelectConsole \/ LocalLine
  BY <1>4 DEF Dial, DialFails, Exhausted, Top, Check, NextTracker, SelectEnd,
              SelectConsole, LocalLine
<1>5. CASE Heartbeat \/ ReportBegin \/ TakeNumber
  BY <1>5 DEF Heartbeat, HeartbeatBegin, HeartbeatRead, HeartbeatEnd,
              ReportBegin, TakeNumber
<1>6. ASSUME NEW t \in Tracker, Start(t)
      PROVE  UNCHANGED <<wire, partial, sent, handled>>
  BY <1>6 DEF Start
<1>7. CASE UNCHANGED vars
  BY <1>7 DEF vars
<1> QED  BY <1>1, <1>2, <1>3, <1>4, <1>5, <1>6, <1>7 DEF Next, Main

(* A connection that is up was, or has just been made and carried nothing.   *)
LEMMA LinkSteps ==
    ASSUME TypeOK, DialledOnce, [Next]_vars, NEW t \in Tracker, link'[t] = "up"
    PROVE  link[t] = "up" \/ sent'[t] = <<>>
<1> USE DEF threads, client, tracker
<1>1. CASE UNCHANGED link \/ \E item : Write(item)
  BY <1>1 DEF Write, TypeOK
<1>2. CASE Dial
  BY <1>2 DEF Dial, DialledOnce, TypeOK
<1>3. CASE DialFails \/ \E r \in Tracker : ReadEnd(r) \/ Crash(r)
  <2>1. \/ link' = [link EXCEPT ![trackerIndex] = "refused"]
        \/ \E r \in Tracker : link' = [link EXCEPT ![r] = "lost"]
        \/ \E r \in Tracker :
              link' = [link EXCEPT ![r] = IF @ = "up" THEN "lost" ELSE @]
    BY <1>3 DEF DialFails, ReadEnd, Crash
  <2>2. link \in [Tracker -> {"none", "refused", "up", "lost", "reset"}]
    BY DEF TypeOK
  <2> QED  BY <2>1, <2>2
<1>4. UNCHANGED link \/ (\E item : Write(item)) \/ Dial \/ DialFails
      \/ \E r \in Tracker : ReadEnd(r) \/ Crash(r)
  BY DEF Next, vars, Main, Exhausted, Top, Check, NextTracker, SelectEnd,
         SelectConsole, LocalLine, Greet, UploadLine, LoginLine, CopyLine,
         QuitLine, Heartbeat, HeartbeatBegin, HeartbeatRead, HeartbeatEnd,
         TakeNumber, ReportBegin, ReportWrite, ReadLine, Start
<1> QED  BY <1>1, <1>2, <1>3, <1>4

LEMMA NextOneLogin ==
    ASSUME Inv, OneLogin, [Next]_vars
    PROVE  OneLogin'
<1> USE DEF threads, client, tracker
<1>0. TypeOK /\ AliveIsOpen /\ DialledOnce
  BY DEF Inv
<1>1. owed \subseteq owed'
  BY DEF Next, vars, Main, Dial, DialFails, Exhausted, Top, Check,
         NextTracker, SelectEnd, SelectConsole, LocalLine, Greet, UploadLine,
         LoginLine, CopyLine, QuitLine, Heartbeat, HeartbeatBegin,
         HeartbeatRead, HeartbeatEnd, TakeNumber, ReportBegin, ReportWrite, ReadLine, ReadEnd,
         Crash, Start
<1>2. \/ Dial
      \/ UNCHANGED peer /\ (main' = "greet" => main = "greet")
  BY DEF Next, vars, Main, DialFails, Exhausted, Top, Check, Goto,
         NextTracker, SelectEnd, SelectConsole, LocalLine, Greet, UploadLine,
         LoginLine, CopyLine, QuitLine, Heartbeat, HeartbeatBegin,
         HeartbeatRead, HeartbeatEnd, TakeNumber, ReportBegin, ReportWrite, ReadLine, ReadEnd,
         Crash, Start
<1>3. CASE UNCHANGED sent
  <2>1. CASE Dial
    <3>1. main' = "greet" => peer' \in owed' /\ peer' \in Tracker /\ sent[peer'] = <<>>
      BY <1>0, <2>1 DEF Dial, DialledOnce, TypeOK
    <3>2. Len(<<>>) = 0
      OBVIOUS
    <3>3. main' = "greet" => /\ peer' \in owed'
                             /\ \A a \in 1..Len(sent'[peer']) :
                                   sent'[peer'][a][1] # "relogin"
      BY <1>3, <3>1, <3>2
    <3> QED  BY <1>1, <1>3, <3>3 DEF OneLogin
  <2>2. CASE UNCHANGED peer /\ (main' = "greet" => main = "greet")
    BY <1>1, <1>3, <2>2 DEF OneLogin
  <2> QED  BY <1>2, <2>1, <2>2
<1>4. ASSUME NEW item \in Items, Write(item), main' = "greet" => main = "greet",
             UNCHANGED peer,
             \/ item[1] # "relogin"
             \/ main = "greet" /\ main' = "top" /\ item = Login
      PROVE  OneLogin'
  <2>1. peer \in Tracker /\ \A t \in Tracker : sent[t] \in Seq(Halves)
    BY <1>0 DEF TypeOK
  <2>2. \A t \in Tracker : \/ sent'[t] = sent[t]
                           \/ t = peer /\ sent'[t] = Put(sent[t], item)
    BY <1>0, <1>4, WriteSends
  <2>3. ASSUME NEW t \in Tracker, NEW a \in 1..Len(sent'[t])
        PROVE  \/ a \in 1..Len(sent[t]) /\ sent'[t][a] = sent[t][a]
               \/ /\ t = peer /\ a = Len(sent[t]) + 1
                  /\ sent'[t][a] = <<item[1], item[2], "front">>
               \/ /\ t = peer /\ a = Len(sent[t]) + 2
                  /\ sent'[t][a] = <<item[1], item[2], "rest">>
    <3>1. CASE sent'[t] = sent[t]
      BY <2>3, <3>1
    <3>2. CASE t = peer /\ sent'[t] = Put(sent[t], item)
      <4>1. sent[t] \in Seq(Halves)
        BY <2>1
      <4>2. /\ Len(Put(sent[t], item)) = Len(sent[t]) + 2
            /\ Len(sent[t]) \in Nat
            /\ Put(sent[t], item)[Len(sent[t]) + 1]
                  = <<item[1], item[2], "front">>
            /\ Put(sent[t], item)[Len(sent[t]) + 2]
                  = <<item[1], item[2], "rest">>
            /\ \A b \in 1..Len(sent[t]) : Put(sent[t], item)[b] = sent[t][b]
        BY <4>1, PutIs
      <4> QED  BY <2>3, <3>2, <4>2
    <3> QED  BY <2>2, <3>1, <3>2
  <2>4. ASSUME NEW t \in Tracker, NEW a \in 1..Len(sent'[t]),
               sent'[t][a][1] = "relogin"
        PROVE  /\ sent'[t][a][2] = 0 /\ t \in owed'
               /\ \A b \in 1..Len(sent'[t]) :
                     sent'[t][b][1] = "relogin" /\ sent'[t][a][3] = sent'[t][b][3]
                         => a = b
    <3>1. CASE item[1] # "relogin"
      <4>1. \A b \in 1..Len(sent'[t]) : sent'[t][b][1] = "relogin" =>
               b \in 1..Len(sent[t]) /\ sent'[t][b] = sent[t][b]
        BY <2>3, <3>1
      <4>2. a \in 1..Len(sent[t]) /\ sent'[t][a] = sent[t][a]
        BY <2>4, <4>1
      <4>3. /\ sent[t][a][2] = 0 /\ t \in owed
            /\ \A b \in 1..Len(sent[t]) :
                  sent[t][b][1] = "relogin" /\ sent[t][a][3] = sent[t][b][3]
                      => a = b
        BY <2>4, <4>2 DEF OneLogin
      <4> QED  BY <1>1, <4>1, <4>2, <4>3
    <3>2. CASE main = "greet" /\ item = Login /\ t # peer
      <4>1. \A b \in 1..Len(sent'[t]) :
               b \in 1..Len(sent[t]) /\ sent'[t][b] = sent[t][b]
        BY <2>3, <3>2
      <4> QED  BY <1>1, <2>4, <4>1 DEF OneLogin
    <3>3. CASE main = "greet" /\ item = Login /\ t = peer
      <4>1. \A b \in 1..Len(sent[t]) : sent[t][b][1] # "relogin"
        BY <3>3 DEF OneLogin
      <4>2. peer \in owed
        BY <3>3 DEF OneLogin
      <4>3. \A b \in 1..Len(sent'[t]) : sent'[t][b][1] = "relogin" =>
               \/ b = Len(sent[t]) + 1 /\ sent'[t][b] = <<"relogin", 0, "front">>
               \/ b = Len(sent[t]) + 2 /\ sent'[t][b] = <<"relogin", 0, "rest">>
        BY <2>3, <3>3, <4>1 DEF Login
      <4> QED  BY <1>1, <2>4, <3>3, <4>2, <4>3
    <3> QED  BY <1>4, <3>1, <3>2, <3>3
  <2>5. ASSUME main' = "greet"
        PROVE  /\ peer' \in owed'
               /\ \A a \in 1..Len(sent'[peer']) : sent'[peer'][a][1] # "relogin"
    <3>1. item[1] # "relogin" /\ main = "greet"
      BY <1>4, <2>5
    <3>2. /\ peer \in owed
          /\ \A a \in 1..Len(sent[peer]) : sent[peer][a][1] # "relogin"
      BY <3>1 DEF OneLogin
    <3> QED  BY <1>1, <1>4, <2>1, <2>3, <3>1, <3>2
  <2> QED  BY <2>4, <2>5 DEF OneLogin
<1>5. CASE Dial
  BY <1>3, <1>5 DEF Dial
<1>6. ASSUME NEW t \in Tracker, ReadLine(t) \/ ReadEnd(t) \/ Crash(t)
      PROVE  UNCHANGED sent
  BY <1>6 DEF ReadLine, ReadEnd, Crash
<1> QED  BY <1>0, <1>2, <1>3, <1>4, <1>5, <1>6, LineSteps

-----------------------------------------------------------------------------
(* Reading. *)

LEMMA ConcatIs ==
    ASSUME NEW S, NEW x \in Seq(S), NEW y \in Seq(S)
    PROVE  /\ x \o y \in Seq(S) /\ Len(x \o y) = Len(x) + Len(y)
           /\ \A k \in 1..Len(x) : (x \o y)[k] = x[k]
           /\ \A k \in 1..Len(y) : (x \o y)[Len(x) + k] = y[k]
<1>1. /\ x \o y \in Seq(S) /\ Len(x \o y) = Len(x) + Len(y)
      /\ \A k \in 1..(Len(x) + Len(y)) :
            (x \o y)[k] = IF k <= Len(x) THEN x[k] ELSE y[k - Len(x)]
  BY ConcatProperties
<1>2. Len(x) \in Nat /\ Len(y) \in Nat
  OBVIOUS
<1>3. ASSUME NEW k \in 1..Len(y) PROVE (x \o y)[Len(x) + k] = y[k]
  <2>0. Len(x) + k \in 1..(Len(x) + Len(y))
    BY <1>2
  <2>1. PICK j \in 1..(Len(x) + Len(y)) : j = Len(x) + k
    BY <2>0
  <2>2. ~ (j <= Len(x)) /\ j - Len(x) = k
    BY <1>2, <2>1
  <2> QED  BY <1>1, <2>1, <2>2
<1> QED  BY <1>1, <1>2, <1>3

LEMMA FirstOf ==
    ASSUME NEW S, NEW p \in Seq(S), NEW w \in Seq(S), 1 \in 1..Len(p \o w)
    PROVE  (p \o w)[1] \in ToSet(w \o p)
<1>0. ASSUME NEW x \in Seq(S), NEW y \in Seq(S)
      PROVE  /\ x \o y \in Seq(S) /\ Len(x \o y) = Len(x) + Len(y)
             /\ \A k \in 1..Len(x) : (x \o y)[k] = x[k]
             /\ \A k \in 1..Len(y) : (x \o y)[Len(x) + k] = y[k]
  BY ConcatIs
<1> DEFINE a == p \o w
           b == w \o p
<1>1. /\ Len(a) = Len(p) + Len(w) /\ Len(p) \in Nat /\ Len(w) \in Nat
      /\ \A k \in 1..Len(p) : a[k] = p[k]
      /\ \A k \in 1..Len(w) : a[Len(p) + k] = w[k]
  BY <1>0
<1>2. /\ b \in Seq(S) /\ Len(b) = Len(w) + Len(p)
      /\ \A k \in 1..Len(w) : b[k] = w[k]
      /\ \A k \in 1..Len(p) : b[Len(w) + k] = p[k]
  BY <1>0
<1>3. 1 \in 1..Len(a)
  OBVIOUS
<1> HIDE DEF a, b
<1>4. \E k \in 1..Len(b) : b[k] = a[1]
  <2>1. CASE Len(p) = 0
    <3>1. 1 \in 1..Len(w) /\ Len(p) + 1 = 1
      BY <1>1, <1>3, <2>1
    <3>2. a[1] = w[1] /\ b[1] = w[1] /\ 1 \in 1..Len(b)
      BY <1>1, <1>2, <3>1
    <3> QED  BY <3>2
  <2>2. CASE Len(p) # 0
    <3>1. 1 \in 1..Len(p) /\ Len(w) + 1 \in 1..Len(b)
      BY <1>1, <1>2, <2>2
    <3> QED  BY <1>1, <1>2, <3>1
  <2> QED  BY <2>1, <2>2
<1>5. DOMAIN b = 1..Len(b)
  BY <1>2
<1> QED  BY <1>4, <1>5 DEF ToSet, a, b

(* a and left are the first n lines of w and the others. *)
Cut(w, n, a, left) ==
    /\ Len(a) = n /\ \A k \in 1..n : a[k] = w[k]
    /\ Len(left) = Len(w) - n
    /\ \A k \in 1..(Len(w) - n) : left[k] = w[n + k]

(* q is read and left. *)
Joined(q, read, left) ==
    /\ Len(read) \in 1..Len(q) /\ \A k \in 1..Len(read) : read[k] = q[k]
    /\ read \o left = q /\ left = SubSeq(q, Len(read) + 1, Len(q))

LEMMA JoinRead ==
    ASSUME NEW S, NEW p \in Seq(S), NEW w \in Seq(S), NEW a \in Seq(S),
           NEW left \in Seq(S), NEW n \in 1..Len(w), Cut(w, n, a, left)
    PROVE  Joined(p \o w, p \o a, left)
<1>0. ASSUME NEW x \in Seq(S), NEW y \in Seq(S)
      PROVE  /\ x \o y \in Seq(S) /\ Len(x \o y) = Len(x) + Len(y)
             /\ \A k \in 1..Len(x) : (x \o y)[k] = x[k]
             /\ \A k \in 1..Len(y) : (x \o y)[Len(x) + k] = y[k]
  BY ConcatIs
<1>c. Cut(w, n, a, left)
  OBVIOUS
<1> DEFINE read == p \o a
           q == p \o w
<1>1. /\ Len(w) \in Nat /\ Len(p) \in Nat /\ n \in Nat
      /\ Len(a) = n /\ \A k \in 1..n : a[k] = w[k]
      /\ Len(left) = Len(w) - n
      /\ \A k \in 1..(Len(w) - n) : left[k] = w[n + k]
  BY <1>c DEF Cut
<1>2. /\ read \in Seq(S) /\ Len(read) = Len(p) + n
      /\ \A k \in 1..Len(p) : read[k] = p[k]
      /\ \A k \in 1..n : read[Len(p) + k] = a[k]
  <2>1. /\ read \in Seq(S) /\ Len(read) = Len(p) + Len(a)
        /\ \A k \in 1..Len(p) : read[k] = p[k]
        /\ \A k \in 1..Len(a) : read[Len(p) + k] = a[k]
    BY <1>0, Zenon
  <2> HIDE DEF read
  <2> QED  BY <1>1, <2>1
<1>3. /\ q \in Seq(S) /\ Len(q) = Len(p) + Len(w)
      /\ \A k \in 1..Len(p) : q[k] = p[k]
      /\ \A k \in 1..Len(w) : q[Len(p) + k] = w[k]
  BY <1>0
<1> HIDE DEF read, q
<1>4. Len(read) \in 1..Len(q)
  BY <1>1, <1>2, <1>3
<1>5. ASSUME NEW k \in 1..Len(read) PROVE read[k] = q[k]
  <2>1. CASE k \in 1..Len(p)
    BY <1>2, <1>3, <2>1
  <2>2. CASE k \notin 1..Len(p)
    <3>1. PICK j \in 1..n : k = Len(p) + j
      <4>1. k - Len(p) \in 1..n /\ k = Len(p) + (k - Len(p))
        BY <1>1, <1>2, <2>2
      <4> QED  BY <4>1
    <3>2. j \in 1..Len(w)
      BY <1>1
    <3> QED  BY <1>1, <1>2, <1>3, <3>1, <3>2
  <2> QED  BY <2>1, <2>2
<1>6. left = SubSeq(q, Len(read) + 1, Len(q))
  <2> DEFINE b == SubSeq(q, Len(read) + 1, Len(q))
  <2>1. /\ b \in Seq(S) /\ Len(b) = Len(q) - Len(read)
        /\ \A k \in 1..(Len(q) - Len(read)) : b[k] = q[Len(read) + k]
    BY <1>3, <1>4, SMTT(30)
  <2> HIDE DEF b
  <2>2. Len(b) = Len(left)
    BY <1>1, <1>2, <1>3, <2>1
  <2>3. ASSUME NEW k \in 1..Len(left) PROVE b[k] = left[k]
    <3>1. /\ k \in 1..(Len(w) - n) /\ k \in 1..(Len(q) - Len(read))
          /\ n + k \in 1..Len(w) /\ Len(read) + k = Len(p) + (n + k)
      BY <1>1, <1>2, <1>3
    <3> QED  BY <1>1, <1>3, <2>1, <3>1
  <2> QED  BY <1>1, <2>1, <2>2, <2>3, SeqEqual DEF b
<1>7. read \o left = q
  <2> DEFINE b == read \o left
  <2>1. /\ b \in Seq(S) /\ Len(b) = Len(read) + Len(left)
        /\ \A k \in 1..Len(read) : b[k] = read[k]
        /\ \A k \in 1..Len(left) : b[Len(read) + k] = left[k]
    <3>1. read \in Seq(S) /\ left \in Seq(S)
      BY <1>1, <1>2
    <3> QED  BY <3>1, <1>0, Zenon
  <2> HIDE DEF b
  <2>2. Len(b) = Len(q)
    BY <1>1, <1>2, <1>3, <2>1
  <2>3. ASSUME NEW k \in 1..Len(q) PROVE b[k] = q[k]
    <3>1. CASE k \in 1..Len(read)
      BY <1>5, <2>1, <3>1
    <3>2. CASE k \notin 1..Len(read)
      <4>1. PICK j \in 1..(Len(w) - n) : j = k - Len(read)
        <5>1. k - Len(read) \in 1..(Len(w) - n)
          BY <1>1, <1>2, <1>3, <3>2, SMTT(30)
        <5> QED  BY <5>1
      <4>2. /\ k = Len(read) + j /\ k = Len(p) + (n + j) /\ n + j \in 1..Len(w)
            /\ j \in 1..Len(left)
        BY <1>1, <1>2, <1>3, <4>1
      <4>3. b[k] = left[j] /\ left[j] = w[n + j]
        BY <1>1, <2>1, <4>2
      <4>4. q[k] = w[n + j]
        BY <1>3, <4>2
      <4> QED  BY <4>3, <4>4
    <3> QED  BY <3>1, <3>2
  <2> QED  BY <1>3, <2>1, <2>2, <2>3, SeqEqual DEF b
<1> QED  BY <1>4, <1>5, <1>6, <1>7 DEF Joined, read, q

(* A read keeps what it has for the next one, or takes the first e pending   *)
(* halves, of which it handles those up to the first newline.                *)
Keeps(t) ==
    /\ Pending(t)' = Pending(t) /\ handled'[t] = handled[t]
    /\ \A k \in 1..Len(partial'[t]) : ~ Newline(partial'[t][k])

Takes(t, e, parts) ==
    /\ partial'[t] = <<>>
    /\ Pending(t)' = SubSeq(Pending(t), e + 1, Len(Pending(t)))
    /\ Len(parts) \in 1..e
    /\ \A k \in 1..Len(parts) : parts[k] = Pending(t)[k]
    /\ Newline(parts[Len(parts)])
    /\ \A k \in 1..(Len(parts) - 1) : ~ Newline(parts[k])
    /\ handled'[t] = Append(handled[t], parts)

LEMMA ReadEffect ==
    ASSUME TypeOK, NEW t \in Tracker, ReadLine(t)
    PROVE  \/ Keeps(t)
           \/ \E e \in 1..Len(Pending(t)) : \E parts \in Seq(Halves) :
                 Takes(t, e, parts)
<1> DEFINE q == Pending(t)
<1>1. /\ wire \in [Tracker -> Seq(Halves)] /\ partial \in [Tracker -> Seq(Halves)]
      /\ handled \in [Tracker -> Seq(Seq(Halves))]
  BY DEF TypeOK
<1>2. PICK n \in 1..Len(wire[t]) :
        LET read == partial[t] \o SubSeq(wire[t], 1, n) IN
        /\ wire' = [wire EXCEPT ![t] = SubSeq(@, n + 1, Len(@))]
        /\ \/ /\ \A i \in DOMAIN read : ~ Newline(read[i])
              /\ partial' = [partial EXCEPT ![t] = read]
              /\ UNCHANGED handled
           \/ /\ partial' = [partial EXCEPT ![t] = <<>>]
              /\ \E m \in DOMAIN read :
                    EndsAt(read, m) /\ HandleLine(t, SubSeq(read, 1, m))
  BY DEF ReadLine, Consume
<1>3. PICK a : a = SubSeq(wire[t], 1, n)
  OBVIOUS
<1>4. PICK left : left = SubSeq(wire[t], n + 1, Len(wire[t]))
  OBVIOUS
<1>r. PICK read : read = partial[t] \o a
  OBVIOUS
<1>5. /\ read \in Seq(Halves) /\ left \in Seq(Halves) /\ q \in Seq(Halves)
      /\ Len(read) \in 1..Len(q) /\ \A k \in 1..Len(read) : read[k] = q[k]
      /\ read \o left = q /\ left = SubSeq(q, Len(read) + 1, Len(q))
  <2>1. PICK w \in Seq(Halves) : w = wire[t]
    BY <1>1
  <2>2. PICK p \in Seq(Halves) : p = partial[t]
    BY <1>1
  <2>3. n \in 1..Len(w)
    BY <2>1
  <2>4. a \in Seq(Halves) /\ Len(a) = n /\ \A k \in 1..n : a[k] = w[k]
    BY <1>3, <2>1, <2>3
  <2>5. /\ left \in Seq(Halves) /\ Len(left) = Len(w) - n
        /\ \A k \in 1..(Len(w) - n) : left[k] = w[n + k]
    BY <1>4, <2>1, <2>3
  <2>6. q = p \o w
    BY <2>1, <2>2 DEF Pending
  <2>7. read = p \o a
    BY <1>r, <2>2
  <2> HIDE DEF q
  <2>8. Cut(w, n, a, left)
    BY <2>4, <2>5 DEF Cut
  <2>9. Joined(p \o w, p \o a, left)
    BY <2>3, <2>4, <2>5, <2>8, JoinRead, Zenon
  <2>10. read \in Seq(Halves) /\ q \in Seq(Halves)
    BY <2>1, <2>2, <2>4, <2>6, <2>7
  <2> QED  BY <2>5, <2>6, <2>7, <2>9, <2>10, Zenon DEF Joined
<1>6. wire'[t] = left
  BY <1>1, <1>2, <1>4
<1>d. DOMAIN read = 1..Len(read)
  BY <1>5
<1> HIDE DEF q
<1>7. CASE /\ \A i \in DOMAIN read : ~ Newline(read[i])
           /\ partial' = [partial EXCEPT ![t] = read]
           /\ UNCHANGED handled
  <2>1. partial'[t] = read
    BY <1>1, <1>7
  <2>2. Pending(t)' = q
    BY <1>5, <1>6, <2>1 DEF Pending
  <2> QED  BY <1>7, <1>d, <2>1, <2>2 DEF q, Keeps
<1>8. ASSUME partial' = [partial EXCEPT ![t] = <<>>],
             NEW m \in DOMAIN read, EndsAt(read, m),
             HandleLine(t, SubSeq(read, 1, m))
      PROVE  \E e \in 1..Len(Pending(t)) : \E parts \in Seq(Halves) :
                Takes(t, e, parts)
  <2>1. PICK parts : parts = SubSeq(read, 1, m)
    OBVIOUS
  <2>2. m \in 1..Len(read)
    BY <1>8, <1>d
  <2>3. /\ parts \in Seq(Halves) /\ Len(parts) = m
        /\ \A k \in 1..m : parts[k] = read[k]
    BY <1>5, <2>1, <2>2, SMTT(30)
  <2>4. partial'[t] = <<>> /\ Pending(t)' = left
    <3>1. partial'[t] = <<>>
      BY <1>1, <1>8
    <3>2. <<>> \o left = left
      BY <1>5
    <3> QED  BY <1>6, <3>1, <3>2 DEF Pending
  <2>5. \A k \in 1..m : k \in 1..Len(read)
    BY <1>5, <2>2
  <2>6. Newline(parts[m]) /\ \A k \in 1..(m - 1) : ~ Newline(parts[k])
    <3>1. m \in 1..m /\ \A k \in 1..(m - 1) : k \in 1..m
      BY <1>5, <2>2
    <3> QED  BY <1>8, <2>3, <3>1 DEF EndsAt
  <2>7. handled'[t] = Append(handled[t], parts)
    BY <1>1, <1>8, <2>1 DEF HandleLine
  <2>9. Len(read) \in 1..Len(q)
    BY <1>5
  <2>10. Takes(t, Len(read), parts)
    BY <1>5, <2>2, <2>3, <2>4, <2>5, <2>6, <2>7 DEF q, Takes
  <2> QED  BY <2>3, <2>9, <2>10 DEF q
<1>9. \/ /\ \A i \in DOMAIN read : ~ Newline(read[i])
         /\ partial' = [partial EXCEPT ![t] = read]
         /\ UNCHANGED handled
      \/ /\ partial' = [partial EXCEPT ![t] = <<>>]
         /\ \E m \in DOMAIN read :
               EndsAt(read, m) /\ HandleLine(t, SubSeq(read, 1, m))
  BY <1>2, <1>3, <1>r
<1> QED  BY <1>7, <1>8, <1>9 DEF q

(* What is read to its first newline, or to the end of the connection, is    *)
(* one line and logins: the other half of a line that is no login has one.   *)
LEMMA ShapeOf ==
    ASSUME TypeOK, NEW t \in Tracker, Lines(t), NEW parts \in Seq(Halves),
           Len(parts) \in 1..Len(Pending(t)),
           \A k \in 1..Len(parts) : parts[k] = Pending(t)[k],
           Newline(parts[Len(parts)]) \/ Len(parts) = Len(Pending(t)),
           \A k \in 1..(Len(parts) - 1) : ~ Newline(parts[k])
    PROVE  Shape(parts)
<1> DEFINE m == Len(parts)
<1>1. PICK c \in Nat :
        /\ Len(sent[t]) = c + Len(Pending(t))
        /\ \A k \in 1..Len(Pending(t)) : Pending(t)[k] = sent[t][c + k]
  <2>1. Len(Pending(t)) \in Nat /\ Len(sent[t]) \in Nat
    BY LinesType
  <2>2. Len(Pending(t)) <= Len(sent[t])
    BY DEF Lines, IsRest
  <2>3. Len(sent[t]) - Len(Pending(t)) \in Nat
    BY <2>1, <2>2
  <2>4. PICK d \in Nat : d = Len(sent[t]) - Len(Pending(t))
    BY <2>3
  <2>5. /\ Len(sent[t]) = d + Len(Pending(t))
        /\ \A k \in 1..Len(Pending(t)) : Pending(t)[k] = sent[t][d + k]
    BY <2>1, <2>4 DEF Lines, IsRest
  <2> QED  BY <2>5
<1>2. /\ m \in Nat \ {0} /\ Len(Pending(t)) \in Nat
      /\ \A k \in 1..m : parts[k] \in Halves /\ parts[k] = sent[t][c + k]
  <2>1. Len(Pending(t)) \in Nat /\ m \in 1..Len(Pending(t))
    BY LinesType
  <2> QED  BY <1>1, <2>1
<1> HIDE DEF m
<1>3. ASSUME NEW k \in 1..m, parts[k][3] = "front"
      PROVE  /\ c + k < Len(sent[t])
             /\ sent[t][c + k + 1] = <<parts[k][1], parts[k][2], "rest">>
  <2>1. c + k \in 1..Len(sent[t]) /\ sent[t][c + k] = parts[k]
    BY <1>1, <1>2 DEF m
  <2> QED  BY <1>3, <2>1 DEF Lines, Paired
<1>4. \A k \in 1..m : parts[k][3] \in {"front", "rest"}
  BY <1>2 DEF Halves
<1>5. parts[m][3] = "rest"
  <2>1. CASE Newline(parts[m])
    BY <2>1 DEF Newline
  <2>2. CASE m = Len(Pending(t))
    <3>1. c + m = Len(sent[t]) /\ m \in 1..m
      BY <1>1, <1>2, <2>2
    <3>2. ASSUME parts[m][3] = "front" PROVE FALSE
      <4>1. c + m < Len(sent[t])
        BY <1>3, <3>1, <3>2
      <4> QED  BY <1>1, <1>2, <3>1, <4>1
    <3> QED  BY <1>4, <3>1, <3>2
  <2> QED  BY <2>1, <2>2 DEF m
<1>6. ASSUME NEW k \in 1..m, parts[k][1] # "relogin"
      PROVE  parts[k][1] = parts[m][1] /\ parts[k][2] = parts[m][2]
  <2>1. CASE k = m
    BY <2>1
  <2>2. CASE k # m
    <3>1. k \in 1..(m - 1) /\ k + 1 \in 1..m
      BY <1>2, <2>2
    <3>2. parts[k][3] = "front"
      BY <1>4, <1>6, <3>1 DEF Newline, m
    <3>3. parts[k + 1] = <<parts[k][1], parts[k][2], "rest">>
      <4>1. c + (k + 1) = c + k + 1
        BY <1>2
      <4> QED  BY <1>2, <1>3, <3>1, <3>2, <4>1
    <3>4. Newline(parts[k + 1])
      BY <1>6, <3>3 DEF Newline
    <3>5. k + 1 = m
      BY <1>2, <3>1, <3>4 DEF m
    <3> QED  BY <3>3, <3>5
  <2> QED  BY <2>1, <2>2
<1>7. parts # <<>>
  BY <1>2 DEF m
<1> QED  BY <1>5, <1>6, <1>7 DEF Shape, m

(* Reading to behind the first e pending lines, the first of which are       *)
(* handled together, keeps Lines.                                            *)
LEMMA LinesTake ==
    ASSUME TypeOK, NEW t \in Tracker, Lines(t), NEW e \in 0..Len(Pending(t)),
           NEW parts \in Seq(Halves), Shape(parts), Len(parts) <= e,
           \A k \in 1..Len(parts) : parts[k] = Pending(t)[k],
           sent'[t] = sent[t], partial'[t] = <<>>,
           Pending(t)' = SubSeq(Pending(t), e + 1, Len(Pending(t))),
           handled'[t] = Append(handled[t], parts)
    PROVE  Lines(t)'
<1>1. /\ sent[t] \in Seq(Halves) /\ Pending(t) \in Seq(Halves)
      /\ handled[t] \in Seq(Seq(Halves))
      /\ Len(Pending(t)) \in Nat /\ Len(sent[t]) \in Nat /\ Len(parts) \in Nat
  BY LinesType
<1>2. PICK c : c = Passed(t)
  OBVIOUS
<1>3. /\ c \in Nat /\ Len(sent[t]) = c + Len(Pending(t))
      /\ \A k \in 1..Len(Pending(t)) : Pending(t)[k] = sent[t][c + k]
  BY <1>1, <1>2 DEF Lines, IsRest, Passed
<1>4. IsRest(Pending(t)', sent[t]) /\ Len(Pending(t)') = Len(Pending(t)) - e
  BY <1>1, RestDrop DEF Lines
<1>5. Passed(t)' = c + e
  <2>1. Passed(t)' = Len(sent[t]) - (Len(Pending(t)) - e)
    BY <1>4 DEF Passed
  <2> QED  BY <1>1, <1>3, <2>1
<1>6. PICK pos : Fits(handled[t], sent[t], c, pos)
  BY <1>2 DEF Lines
<1>7. \A k \in 1..Len(parts) : parts[k] = sent[t][c + k]
  BY <1>1, <1>3
<1>8. c + e \in Nat /\ c + Len(parts) <= c + e
  BY <1>1, <1>3
<1>9. \E p : Fits(Append(handled[t], parts), sent[t], c + e, p)
  BY <1>1, <1>3, <1>6, <1>7, <1>8, FitsNext
<1>10. Len(<<>>) = 0
  OBVIOUS
<1>11. Paired(sent[t])
  BY DEF Lines
<1> QED  BY <1>4, <1>5, <1>9, <1>10, <1>11 DEF Lines

LEMMA AppendConcat ==
    ASSUME NEW S, NEW p \in Seq(S), NEW w \in Seq(S), NEW x \in S
    PROVE  p \o Append(w, x) = Append(p \o w, x)
<1> DEFINE a == p \o Append(w, x)
           b == Append(p \o w, x)
<1>1. /\ a \in Seq(S) /\ Len(a) = Len(p) + Len(w) + 1
      /\ b \in Seq(S) /\ Len(b) = Len(p) + Len(w) + 1
      /\ Len(p) \in Nat /\ Len(w) \in Nat
  OBVIOUS
<1>2. ASSUME NEW k \in 1..Len(a) PROVE a[k] = b[k]
  BY <1>1, <1>2
<1> HIDE DEF a, b
<1>3. a = b
  BY <1>1, <1>2, SeqEqual
<1> QED  BY <1>3 DEF a, b

LEMMA LinesKeep ==
    ASSUME NEW t \in Tracker, Lines(t), wire'[t] = wire[t],
           partial'[t] = partial[t], sent'[t] = sent[t], handled'[t] = handled[t]
    PROVE  Lines(t)' /\ Passed(t)' = Passed(t)
<1>1. Pending(t)' = Pending(t)
  BY DEF Pending
<1>2. Passed(t)' = Passed(t)
  BY <1>1 DEF Passed
<1> QED  BY <1>1, <1>2 DEF Lines

LEMMA PutMore ==
    ASSUME NEW q \in Seq(Halves), NEW s \in Seq(Halves), NEW item \in Items,
           IsRest(q, s), NEW h \in Seq(Seq(Halves)), NEW c \in 0..Len(s),
           NEW pos, Fits(h, s, c, pos)
    PROVE  /\ IsRest(Put(q, item), Put(s, item))
           /\ Len(Put(s, item)) - Len(Put(q, item)) = Len(s) - Len(q)
           /\ Fits(h, Put(s, item), c, pos)
<1>1. PICK a \in Halves : a = <<item[1], item[2], "front">>
  BY DEF Items, Halves
<1>2. PICK b \in Halves : b = <<item[1], item[2], "rest">>
  BY DEF Items, Halves
<1>0. Append(s, a) \in Seq(Halves) /\ Append(q, a) \in Seq(Halves)
  OBVIOUS
<1>3. PICK r \in Seq(Halves) : r = Append(s, a)
  BY <1>0
<1>4. PICK p \in Seq(Halves) : p = Append(q, a)
  BY <1>0
<1>5. Put(q, item) = Append(p, b) /\ Put(s, item) = Append(r, b)
  BY <1>1, <1>2, <1>3, <1>4 DEF Put
<1>6. IsRest(p, r) /\ Len(r) - Len(p) = Len(s) - Len(q)
  BY <1>3, <1>4, RestAppend
<1>7. /\ IsRest(Append(p, b), Append(r, b))
      /\ Len(Append(r, b)) - Len(Append(p, b)) = Len(r) - Len(p)
  BY <1>6, RestAppend
<1>8. Fits(h, r, c, pos) /\ c \in 0..Len(r)
  <2>1. Fits(h, r, c, pos)
    BY <1>3, FitsGrow
  <2>2. Len(r) = Len(s) + 1 /\ Len(s) \in Nat
    BY <1>3
  <2> QED  BY <2>1, <2>2
<1>9. Fits(h, Append(r, b), c, pos)
  BY <1>8, FitsGrow
<1> QED  BY <1>5, <1>6, <1>7, <1>9

LEMMA PutPaired ==
    ASSUME NEW s \in Seq(Halves), NEW item \in Items, Paired(s)
    PROVE  Paired(Put(s, item))
<1>1. /\ Len(s) \in Nat /\ Len(Put(s, item)) = Len(s) + 2
      /\ \A k \in 1..Len(s) : Put(s, item)[k] = s[k]
      /\ Put(s, item)[Len(s) + 1] = <<item[1], item[2], "front">>
      /\ Put(s, item)[Len(s) + 2] = <<item[1], item[2], "rest">>
  BY PutIs
<1> DEFINE r == Put(s, item)
<1> HIDE DEF r
<1>2. ASSUME NEW a \in 1..Len(r)
      PROVE  /\ r[a][3] = "front" =>
                   a < Len(r) /\ r[a + 1] = <<r[a][1], r[a][2], "rest">>
             /\ r[a][3] = "rest" =>
                   a > 1 /\ r[a - 1] = <<r[a][1], r[a][2], "front">>
  <2>1. CASE a \in 1..Len(s)
    <3>1. /\ r[a] = s[a]
          /\ a < Len(s) => r[a + 1] = s[a + 1]
          /\ a > 1 => r[a - 1] = s[a - 1]
      BY <1>1, <2>1 DEF r
    <3> QED  BY <1>1, <2>1, <3>1 DEF Paired, r
  <2>2. CASE a = Len(s) + 1
    BY <1>1, <2>2 DEF r
  <2>3. CASE a = Len(s) + 2
    BY <1>1, <2>3 DEF r
  <2> QED  BY <1>1, <2>1, <2>2, <2>3 DEF r
<1> QED  BY <1>2 DEF Paired, r

LEMMA LinesWrite ==
    ASSUME TypeOK, NEW t \in Tracker, Lines(t), NEW item \in Items,
           wire'[t] = Put(wire[t], item), partial'[t] = partial[t],
           sent'[t] = Put(sent[t], item), handled'[t] = handled[t]
    PROVE  Lines(t)' /\ Passed(t)' = Passed(t)
<1>1. /\ wire[t] \in Seq(Halves) /\ partial[t] \in Seq(Halves)
      /\ sent[t] \in Seq(Halves) /\ Pending(t) \in Seq(Halves)
      /\ handled[t] \in Seq(Seq(Halves))
  BY LinesType
<1>2. Pending(t)' = Put(Pending(t), item)
  <2>1. PICK p \in Seq(Halves) : p = partial[t]
    BY <1>1
  <2>2. PICK w \in Seq(Halves) : w = wire[t]
    BY <1>1
  <2>3. PICK a \in Halves : a = <<item[1], item[2], "front">>
    BY DEF Items, Halves
  <2>4. PICK b \in Halves : b = <<item[1], item[2], "rest">>
    BY DEF Items, Halves
  <2>0. Append(w, a) \in Seq(Halves)
    OBVIOUS
  <2>5. PICK v \in Seq(Halves) : v = Append(w, a)
    BY <2>0
  <2>6. p \o v = Append(p \o w, a)
    BY <2>5, AppendConcat
  <2>7. p \o Append(v, b) = Append(p \o v, b)
    BY AppendConcat
  <2>8. Put(w, item) = Append(v, b)
    BY <2>3, <2>4, <2>5, Zenon DEF Put
  <2>9. Put(p \o w, item) = Append(Append(p \o w, a), b)
    BY <2>3, <2>4, Zenon DEF Put
  <2>10. p \o Put(w, item) = Put(p \o w, item)
    BY <2>6, <2>7, <2>8, <2>9, Zenon
  <2> QED  BY <2>1, <2>2, <2>10, Zenon DEF Pending
<1>3. IsRest(Pending(t), sent[t]) /\ Paired(sent[t])
  BY DEF Lines
<1>4. Passed(t) \in 0..Len(sent[t])
  BY <1>1, <1>3 DEF Passed, IsRest
<1>5. PICK pos : Fits(handled[t], sent[t], Passed(t), pos)
  BY DEF Lines
<1>6. /\ IsRest(Put(Pending(t), item), Put(sent[t], item))
      /\ Len(Put(sent[t], item)) - Len(Put(Pending(t), item))
            = Len(sent[t]) - Len(Pending(t))
      /\ Fits(handled[t], Put(sent[t], item), Passed(t), pos)
  BY <1>1, <1>3, <1>4, <1>5, PutMore
<1>7. Passed(t)' = Passed(t)
  BY <1>2, <1>6 DEF Passed
<1>8. Paired(Put(sent[t], item))
  BY <1>1, <1>3, PutPaired
<1> QED  BY <1>2, <1>6, <1>7, <1>8 DEF Lines

(* What a tracker had not read is lost with it. *)
LEMMA LinesCrash ==
    ASSUME TypeOK, NEW t \in Tracker, Lines(t), wire'[t] = <<>>,
           partial'[t] = <<>>, sent'[t] = sent[t], handled'[t] = handled[t]
    PROVE  Lines(t)'
<1>1. /\ sent[t] \in Seq(Halves) /\ Pending(t) \in Seq(Halves)
      /\ handled[t] \in Seq(Seq(Halves))
      /\ Len(sent[t]) \in Nat /\ Len(Pending(t)) \in Nat
  BY LinesType
<1>2. Pending(t)' = <<>> /\ Len(<<>>) = 0
  BY DEF Pending
<1>3. Passed(t)' = Len(sent[t]) /\ IsRest(Pending(t)', sent[t])
  BY <1>1, <1>2 DEF Passed, IsRest
<1>4. PICK c \in 0..Len(sent[t]) : c = Passed(t)
  BY <1>1 DEF Lines, Passed, IsRest
<1>5. PICK pos : Fits(handled[t], sent[t], c, pos)
  BY <1>4 DEF Lines
<1>6. Fits(handled[t], sent[t], Len(sent[t]), pos)
  BY <1>1, <1>4, <1>5, FitsMore
<1>7. Paired(sent[t])
  BY DEF Lines
<1> QED  BY <1>2, <1>3, <1>6, <1>7 DEF Lines

(* The client's end is closed behind a login without its newline, or behind  *)
(* the newline of the last line.                                             *)
LEMMA LinesEnd ==
    ASSUME TypeOK, NEW t \in Tracker, Lines(t), ReadEnd(t)
    PROVE  Lines(t)'
<1>1. /\ partial \in [Tracker -> Seq(Halves)]
      /\ handled \in [Tracker -> Seq(Seq(Halves))] /\ partial[t] \in Seq(Halves)
  BY DEF TypeOK
<1>2. /\ wire[t] = <<>> /\ UNCHANGED <<wire, sent>>
      /\ partial' = [partial EXCEPT ![t] = <<>>]
  BY DEF ReadEnd
<1>3. partial'[t] = <<>>
  BY <1>1, <1>2
<1>4. Pending(t) = partial[t]
  BY <1>1, <1>2 DEF Pending
<1>5. CASE partial[t] = <<>>
  <2>1. handled' = handled
    BY <1>5 DEF ReadEnd
  <2> QED  BY <1>2, <1>3, <1>5, <2>1, LinesKeep
<1>6. CASE partial[t] # <<>>
  <2>1. PICK parts \in Seq(Halves) : parts = partial[t]
    BY <1>1
  <2>2. /\ Len(parts) \in Nat \ {0} /\ Len(parts) = Len(Pending(t))
        /\ \A k \in 1..Len(parts) : parts[k] = Pending(t)[k]
    BY <1>4, <1>6, <2>1
  <2>3. \A k \in 1..(Len(parts) - 1) : ~ Newline(parts[k])
    BY <2>1, <2>2 DEF Lines
  <2>4. Len(parts) \in 1..Len(Pending(t)) /\ Len(parts) \in 0..Len(Pending(t))
    BY <2>2
  <2>5. Shape(parts)
    BY <2>2, <2>3, <2>4, ShapeOf
  <2>6. handled'[t] = Append(handled[t], parts)
    BY <1>1, <1>6, <2>1 DEF ReadEnd, HandleLine
  <2>7. Pending(t)' = SubSeq(Pending(t), Len(parts) + 1, Len(Pending(t)))
    <3>1. Pending(t)' = <<>>
      BY <1>2, <1>3 DEF Pending
    <3>2. SubSeq(parts, Len(parts) + 1, Len(parts)) = <<>>
      OBVIOUS
    <3> QED  BY <1>4, <2>1, <3>1, <3>2
  <2>8. sent'[t] = sent[t] /\ Len(parts) <= Len(parts)
    BY <1>2, <2>2
  <2> QED  BY <1>3, <2>2, <2>4, <2>5, <2>6, <2>7, <2>8, LinesTake
<1> QED  BY <1>5, <1>6

-----------------------------------------------------------------------------

LEMMA LinesRead ==
    ASSUME TypeOK, NEW t \in Tracker, Lines(t), ReadLine(t)
    PROVE  Lines(t)'
<1>1. Len(Pending(t)) \in Nat /\ sent'[t] = sent[t]
  BY LinesType DEF ReadLine
<1>2. CASE Keeps(t)
  <2>1. Pending(t)' = Pending(t)
    BY <1>2 DEF Keeps
  <2>2. Passed(t)' = Passed(t)
    BY <1>1, <2>1 DEF Passed
  <2> QED  BY <1>1, <1>2, <2>1, <2>2 DEF Lines, Keeps
<1>3. ASSUME NEW e \in 1..Len(Pending(t)), NEW parts \in Seq(Halves),
             Takes(t, e, parts)
      PROVE  Lines(t)'
  <2>1. /\ Len(parts) <= e /\ Len(parts) \in 1..Len(Pending(t))
        /\ e \in 0..Len(Pending(t))
    BY <1>1, <1>3 DEF Takes
  <2>2. /\ \A k \in 1..Len(parts) : parts[k] = Pending(t)[k]
        /\ Newline(parts[Len(parts)])
        /\ \A k \in 1..(Len(parts) - 1) : ~ Newline(parts[k])
        /\ partial'[t] = <<>> /\ handled'[t] = Append(handled[t], parts)
        /\ Pending(t)' = SubSeq(Pending(t), e + 1, Len(Pending(t)))
    BY <1>3 DEF Takes
  <2>3. Shape(parts)
    BY <2>1, <2>2, ShapeOf
  <2> QED  BY <1>1, <2>1, <2>2, <2>3, LinesTake
<1> QED  BY <1>2, <1>3, ReadEffect

LEMMA ReadsItsOwn ==
    ASSUME TypeOK, NEW r \in Tracker, NEW t \in Tracker, r # t,
           ReadLine(r) \/ ReadEnd(r) \/ Crash(r)
    PROVE  /\ wire'[t] = wire[t] /\ partial'[t] = partial[t]
           /\ sent'[t] = sent[t] /\ handled'[t] = handled[t]
<1>1. /\ handled \in [Tracker -> Seq(Seq(Halves))]
      /\ wire \in [Tracker -> Seq(Halves)] /\ partial \in [Tracker -> Seq(Halves)]
  BY DEF TypeOK
<1>2. \/ UNCHANGED handled
      \/ \E x : handled' = [handled EXCEPT ![r] = x]
  BY DEF ReadLine, ReadEnd, Crash, HandleLine
<1>4. /\ UNCHANGED sent
      /\ UNCHANGED wire \/ \E x : wire' = [wire EXCEPT ![r] = x]
      /\ \E x : partial' = [partial EXCEPT ![r] = x]
  BY DEF ReadLine, ReadEnd, Crash, Consume
<1> QED  BY <1>1, <1>2, <1>4

LEMMA NextLines ==
    ASSUME Inv, NEW t \in Tracker, Lines(t), [Next]_vars
    PROVE  Lines(t)'
<1>0. TypeOK
  BY DEF Inv
<1>1. CASE UNCHANGED <<wire, partial, sent, handled>>
  BY <1>1, LinesKeep
<1>2. ASSUME NEW item \in Items, Write(item),
             UNCHANGED <<partial, handled>>
      PROVE  Lines(t)'
  <2>1. \/ sent'[t] = sent[t] /\ wire'[t] = wire[t]
        \/ /\ sent'[t] = Put(sent[t], item)
           /\ wire'[t] = Put(wire[t], item)
    BY <1>0, <1>2 DEF Write, TypeOK
  <2> QED  BY <1>0, <1>2, <2>1, LinesKeep, LinesWrite
<1>3. ASSUME NEW r \in Tracker, ReadLine(r) \/ ReadEnd(r) \/ Crash(r)
      PROVE  Lines(t)'
  <2>1. CASE r # t
    <3>1. /\ wire'[t] = wire[t] /\ partial'[t] = partial[t]
          /\ sent'[t] = sent[t] /\ handled'[t] = handled[t]
      BY <1>0, <1>3, <2>1, ReadsItsOwn
    <3> QED  BY <3>1, LinesKeep
  <2>2. CASE r = t /\ Crash(t)
    <3>1. /\ wire'[t] = <<>> /\ partial'[t] = <<>>
          /\ sent'[t] = sent[t] /\ handled'[t] = handled[t]
      BY <1>0, <2>2 DEF Crash, TypeOK
    <3> QED  BY <1>0, <3>1, LinesCrash
  <2> QED  BY <1>0, <1>3, <2>1, <2>2, LinesRead, LinesEnd
<1> QED  BY <1>0, <1>1, <1>2, <1>3, LineSteps

-----------------------------------------------------------------------------
(* The automatic login. *)

LEMMA HeardKeep ==
    ASSUME NEW t \in Tracker, Heard(t),
           link'[t] = "up" => link[t] = "up" \/ sent'[t] = <<>>,
           sent'[t] = sent[t], Passed(t)' = Passed(t),
           handled'[t] = handled[t]
    PROVE  Heard(t)'
BY DEF Heard

LEMMA HeardWrite ==
    ASSUME TypeOK, NEW t \in Tracker, Lines(t), Heard(t), NEW item \in Items,
           link'[t] = "up" => link[t] = "up" \/ sent'[t] = <<>>,
           sent'[t] = Put(sent[t], item), Passed(t)' = Passed(t),
           handled'[t] = handled[t]
    PROVE  Heard(t)'
<1>1. /\ sent[t] \in Seq(Halves) /\ Len(sent[t]) \in Nat
      /\ Len(Pending(t)) \in Nat
  BY LinesType
<1>2. CASE sent[t] = <<>>
  <2>1. Len(sent[t]) = 0
    BY <1>2
  <2>2. Passed(t) = 0
    BY <1>1, <2>1 DEF Passed, Lines, IsRest
  <2> QED  BY <2>2 DEF Heard
<1>3. CASE sent[t] # <<>>
  <2>1. sent'[t][1] = sent[t][1] /\ sent'[t] # <<>>
    <3>1. 1 \in 1..Len(sent[t])
      BY <1>1, <1>3
    <3>2. sent'[t][1] = sent[t][1] /\ Len(sent'[t]) = Len(sent[t]) + 2
      BY <1>1, <3>1, PutIs
    <3> QED  BY <1>1, <3>2
  <2> QED  BY <1>3, <2>1 DEF Heard
<1> QED  BY <1>2, <1>3

LEMMA HeardRead ==
    ASSUME TypeOK, OneLogin, NEW t \in Tracker, Lines(t), Heard(t), ReadLine(t)
    PROVE  Heard(t)'
<1>1. /\ sent[t] \in Seq(Halves) /\ Pending(t) \in Seq(Halves)
      /\ handled[t] \in Seq(Seq(Halves))
      /\ Len(Pending(t)) \in Nat /\ Len(sent[t]) \in Nat
  BY LinesType
<1>2. UNCHANGED <<sent, link>>
  BY DEF ReadLine
<1>3. CASE Keeps(t)
  <2>1. Passed(t)' = Passed(t)
    BY <1>2, <1>3 DEF Keeps, Passed
  <2> QED  BY <1>2, <1>3, <2>1, HeardKeep DEF Keeps
<1>4. ASSUME NEW e \in 1..Len(Pending(t)), NEW parts \in Seq(Halves),
             Takes(t, e, parts)
      PROVE  Heard(t)'
  <2> DEFINE Through(p) == LogsIn(p) \/ Swallowed(p)
  <2> SUFFICES ASSUME link[t] = "up", sent[t] # <<>>, sent[t][1][1] = "relogin"
               PROVE  \E i \in 1..Len(handled'[t]) : Through(handled'[t][i])
    BY <1>2 DEF Heard
  <2> HIDE DEF Through
  <2>1. /\ Len(handled'[t]) = Len(handled[t]) + 1 /\ Len(handled[t]) \in Nat
        /\ handled'[t][Len(handled[t]) + 1] = parts
        /\ \A i \in 1..Len(handled[t]) : handled'[t][i] = handled[t][i]
    <3>1. handled'[t] = Append(handled[t], parts)
      BY <1>4 DEF Takes
    <3> QED  BY <1>1, <3>1
  <2>2. CASE Passed(t) # 0
    <3>1. PICK i \in 1..Len(handled[t]) : Through(handled[t][i])
      BY <2>2 DEF Heard, Through
    <3>2. i \in 1..Len(handled'[t]) /\ handled'[t][i] = handled[t][i]
      BY <2>1
    <3> QED  BY <3>1, <3>2
  <2>3. CASE Passed(t) = 0
    <3>1. Len(Pending(t)) = Len(sent[t])
      BY <1>1, <2>3 DEF Passed
    <3>2. \A k \in 1..Len(Pending(t)) : Pending(t)[k] = sent[t][k]
      BY <1>1, <3>1 DEF Lines, IsRest
    <3> DEFINE m == Len(parts)
    <3>3. /\ m \in 1..Len(sent[t]) /\ m \in Nat \ {0}
          /\ \A k \in 1..m : parts[k] = sent[t][k] /\ parts[k] \in Halves
          /\ Newline(parts[m])
      BY <1>1, <1>4, <3>1, <3>2 DEF Takes
    <3> HIDE DEF m
    <3>4. sent[t][1] = <<"relogin", 0, "front">>
      <4>1. 1 \in 1..Len(sent[t]) /\ sent[t][1] \in Halves
        BY <1>1, <3>3
      <4>2. sent[t][1][3] # "rest"
        BY <4>1 DEF Lines, Paired
      <4>3. sent[t][1][2] = 0
        BY <4>1 DEF OneLogin
      <4> QED  BY <4>1, <4>2, <4>3 DEF Halves
    <3>5. Len(sent[t]) > 1 /\ sent[t][2] = <<"relogin", 0, "rest">>
      <4>1. 1 \in 1..Len(sent[t]) /\ 1 + 1 = 2
        BY <1>1, <3>3
      <4> QED  BY <3>4, <4>1 DEF Lines, Paired
    <3>6. m > 2
      <4>1. m # 1 /\ m # 2
        BY <3>3, <3>4, <3>5 DEF Newline
      <4> QED  BY <3>3, <4>1
    <3>7. Greets(parts)
      <4>1. 1 \in 1..m /\ 2 \in 1..m
        BY <3>3, <3>6
      <4> QED  BY <3>3, <3>4, <3>5, <3>6, <4>1 DEF Greets, m
    <3>8. parts[3] \in Halves /\ parts[3][1] # "relogin"
      <4>1. /\ 3 \in 1..m /\ 1 \in 1..Len(sent[t]) /\ 2 \in 1..Len(sent[t])
            /\ 3 \in 1..Len(sent[t])
        BY <1>1, <3>3, <3>6
      <4>2. parts[3] \in Halves /\ parts[3] = sent[t][3]
        BY <3>3, <4>1
      <4>3. sent[t][3][3] \in {"front", "rest"}
        BY <4>2 DEF Halves
      <4>4. ASSUME sent[t][3][1] = "relogin" PROVE FALSE
        <5>1. sent[t][3][3] = sent[t][1][3] => 3 = 1
          BY <4>1, <4>4 DEF OneLogin
        <5>2. sent[t][3][3] = sent[t][2][3] => 3 = 2
          BY <3>5, <4>1, <4>4 DEF OneLogin
        <5> QED  BY <3>4, <3>5, <4>3, <5>1, <5>2
      <4> QED  BY <4>2, <4>4
    <3>9. parts[3][1] \in {"report", "login", "short", "long", "upload", "quit"}
      BY <3>8 DEF Halves, Sort
    <3>10. Through(parts)
      BY <3>7, <3>9 DEF Through, LogsIn, Swallowed
    <3>11. Len(handled[t]) + 1 \in 1..Len(handled'[t])
      BY <2>1
    <3> QED  BY <2>1, <3>10, <3>11
  <2> QED  BY <2>2, <2>3
<1> QED  BY <1>3, <1>4, ReadEffect

LEMMA NextHeard ==
    ASSUME Inv, OneLogin, NEW t \in Tracker, Lines(t), Heard(t), [Next]_vars
    PROVE  Heard(t)'
<1>0. TypeOK /\ DialledOnce
  BY DEF Inv
<1>l. link'[t] = "up" => link[t] = "up" \/ sent'[t] = <<>>
  BY <1>0, LinkSteps
<1>1. CASE UNCHANGED <<wire, partial, sent, handled>>
  BY <1>l, <1>1, LinesKeep, HeardKeep
<1>2. ASSUME NEW item \in Items, Write(item),
             UNCHANGED <<partial, handled>>
      PROVE  Heard(t)'
  <2>1. \/ sent'[t] = sent[t] /\ wire'[t] = wire[t]
        \/ /\ sent'[t] = Put(sent[t], item)
           /\ wire'[t] = Put(wire[t], item)
    BY <1>0, <1>2 DEF Write, TypeOK
  <2>2. Passed(t)' = Passed(t)
    BY <1>0, <1>2, <2>1, LinesKeep, LinesWrite
  <2> QED  BY <1>0, <1>l, <1>2, <2>1, <2>2, HeardKeep, HeardWrite
<1>3. ASSUME NEW r \in Tracker, ReadLine(r) \/ ReadEnd(r) \/ Crash(r)
      PROVE  Heard(t)'
  <2>1. CASE r # t
    <3>1. /\ wire'[t] = wire[t] /\ partial'[t] = partial[t]
          /\ sent'[t] = sent[t] /\ handled'[t] = handled[t]
      BY <1>0, <1>3, <2>1, ReadsItsOwn
    <3> QED  BY <1>l, <3>1, LinesKeep, HeardKeep
  <2>2. CASE r = t /\ (ReadEnd(t) \/ Crash(t))
    <3>1. link'[t] # "up"
      BY <1>0, <2>2 DEF ReadEnd, Crash, TypeOK
    <3> QED  BY <3>1 DEF Heard
  <2> QED  BY <1>0, <1>3, <2>1, <2>2, HeardRead
<1> QED  BY <1>0, <1>1, <1>2, <1>3, LineSteps

-----------------------------------------------------------------------------

LEMMA InitLines == Init => LinesInv
<1> SUFFICES ASSUME Init PROVE LinesInv
  OBVIOUS
<1>1. Inv
  BY InitInv
<1>2. Len(<<>>) = 0
  OBVIOUS
<1>3. OneLogin
  BY <1>2 DEF Init, OneLogin
<1>4. ASSUME NEW t \in Tracker PROVE Lines(t) /\ Heard(t)
  <2>1. /\ sent[t] = <<>> /\ handled[t] = <<>> /\ partial[t] = <<>>
        /\ wire[t] = <<>>
    BY DEF Init
  <2>2. Pending(t) = <<>>
    BY <2>1 DEF Pending
  <2>3. Passed(t) = 0
    BY <1>2, <2>1, <2>2 DEF Passed
  <2>4. IsRest(Pending(t), sent[t])
    BY <1>2, <2>1, <2>2 DEF IsRest
  <2>5. Fits(handled[t], sent[t], 0, [i \in 1..0 |-> 0])
    BY <1>2, <2>1 DEF Fits
  <2>6. Paired(sent[t])
    BY <1>2, <2>1 DEF Paired
  <2> QED  BY <1>2, <2>1, <2>3, <2>4, <2>5, <2>6 DEF Lines, Heard
<1> QED  BY <1>1, <1>3, <1>4 DEF LinesInv

LEMMA NextLinesInv == LinesInv /\ [Next]_vars => LinesInv'
BY NextInv, NextOneLogin, NextLines, NextHeard DEF LinesInv

(* HandledInOrder for any number of trackers, lines, reports and crashes and *)
(* for any way in which reads cut the lines: a tracker's thread handles them *)
(* in their order, each at most once, and joins none to another but the      *)
(* automatic login, which has no newline, to the next.                       *)
THEOREM LinesInOrder == Spec => []HandledInOrder
<1>1. ASSUME LinesInv PROVE HandledInOrder
  <2> SUFFICES ASSUME NEW t \in Tracker
               PROVE  \E pos \in [DOMAIN handled[t] -> 0..Len(sent[t])] :
                        \A i \in DOMAIN handled[t] :
                           /\ handled[t][i] # <<>>
                           /\ handled[t][i][Len(handled[t][i])][3] = "rest"
                           /\ \A k \in DOMAIN handled[t][i] :
                                 \/ handled[t][i][k][1] = "relogin"
                                 \/ /\ handled[t][i][k][1]
                                          = handled[t][i][Len(handled[t][i])][1]
                                    /\ handled[t][i][k][2]
                                          = handled[t][i][Len(handled[t][i])][2]
                           /\ pos[i] + Len(handled[t][i]) <= Len(sent[t])
                           /\ \A k \in DOMAIN handled[t][i] :
                                 handled[t][i][k] = sent[t][pos[i] + k]
                           /\ \A j \in DOMAIN handled[t] :
                                 i < j => pos[i] + Len(handled[t][i]) <= pos[j]
    BY DEF HandledInOrder
  <2>1. /\ sent[t] \in Seq(Halves) /\ Pending(t) \in Seq(Halves)
        /\ handled[t] \in Seq(Seq(Halves))
        /\ Len(sent[t]) \in Nat /\ Len(Pending(t)) \in Nat
    BY <1>1, LinesType DEF LinesInv, Inv
  <2>2. PICK pos : Fits(handled[t], sent[t], Passed(t), pos)
    BY <1>1 DEF LinesInv, Lines
  <2>3. Passed(t) \in Nat /\ Passed(t) <= Len(sent[t])
    BY <1>1, <2>1 DEF LinesInv, Lines, IsRest, Passed
  <2>4. Fits(handled[t], sent[t], Len(sent[t]), pos)
    BY <2>1, <2>2, <2>3, FitsMore
  <2>5. /\ DOMAIN handled[t] = 1..Len(handled[t])
        /\ \A i \in 1..Len(handled[t]) :
              /\ DOMAIN handled[t][i] = 1..Len(handled[t][i])
              /\ Len(handled[t][i]) \in Nat
    BY <2>1
  <2>6. pos \in [1..Len(handled[t]) -> 0..Len(sent[t])]
    <3>1. \A i \in 1..Len(handled[t]) :
            pos[i] \in Nat /\ pos[i] + Len(handled[t][i]) <= Len(sent[t])
      BY <2>4 DEF Fits
    <3>2. \A i \in 1..Len(handled[t]) : pos[i] \in 0..Len(sent[t])
      <4>1. /\ Len(sent[t]) \in Nat
            /\ \A i \in 1..Len(handled[t]) : Len(handled[t][i]) \in Nat
        BY <2>1, <2>5
      <4> QED  BY <3>1, <4>1
    <3> QED  BY <2>4, <3>2 DEF Fits
  <2>7. \A i \in 1..Len(handled[t]) :
           /\ Shape(handled[t][i])
           /\ pos[i] + Len(handled[t][i]) <= Len(sent[t])
           /\ \A k \in 1..Len(handled[t][i]) :
                 handled[t][i][k] = sent[t][pos[i] + k]
           /\ \A j \in 1..Len(handled[t]) :
                 i < j => pos[i] + Len(handled[t][i]) <= pos[j]
    BY <2>4 DEF Fits
  <2>8. \A i \in 1..Len(handled[t]) :
           /\ handled[t][i] # <<>>
           /\ handled[t][i][Len(handled[t][i])][3] = "rest"
           /\ \A k \in 1..Len(handled[t][i]) :
                 \/ handled[t][i][k][1] = "relogin"
                 \/ /\ handled[t][i][k][1]
                          = handled[t][i][Len(handled[t][i])][1]
                    /\ handled[t][i][k][2]
                          = handled[t][i][Len(handled[t][i])][2]
    BY <2>7, Zenon DEF Shape
  <2>9. \A i \in DOMAIN handled[t] :
           /\ handled[t][i] # <<>>
           /\ handled[t][i][Len(handled[t][i])][3] = "rest"
           /\ \A k \in DOMAIN handled[t][i] :
                 \/ handled[t][i][k][1] = "relogin"
                 \/ /\ handled[t][i][k][1]
                          = handled[t][i][Len(handled[t][i])][1]
                    /\ handled[t][i][k][2]
                          = handled[t][i][Len(handled[t][i])][2]
           /\ pos[i] + Len(handled[t][i]) <= Len(sent[t])
           /\ \A k \in DOMAIN handled[t][i] :
                 handled[t][i][k] = sent[t][pos[i] + k]
           /\ \A j \in DOMAIN handled[t] :
                 i < j => pos[i] + Len(handled[t][i]) <= pos[j]
    <3>1. ASSUME NEW i \in DOMAIN handled[t]
          PROVE  /\ i \in 1..Len(handled[t])
                 /\ DOMAIN handled[t][i] = 1..Len(handled[t][i])
      BY <2>5, <3>1
    <3> QED  BY <2>5, <2>7, <2>8, <3>1, Zenon
  <2>10. pos \in [DOMAIN handled[t] -> 0..Len(sent[t])]
    BY <2>5, <2>6
  <2> QED  BY <2>9, <2>10, Zenon
<1> QED  BY InitLines, NextLinesInv, <1>1, PTL DEF Spec

(* ReloginHeard likewise: the automatic login is lost behind a report, is    *)
(* swallowed with the line of several words it was joined to, or gets        *)
(* through to the handler of login.                                          *)
THEOREM LoginIsHeard == Spec => []ReloginHeard
<1>1. ASSUME LinesInv PROVE ReloginHeard
  <2> SUFFICES ASSUME NEW t \in up, link[t] = "up",
                      NEW h \in ToSet(sent[t]), h[1] = "relogin",
                      \A g \in ToSet(wire[t] \o partial[t]) : g[1] # "relogin",
                      sent[t][1][1] # "report"
               PROVE  \E parts \in ToSet(handled[t]) :
                         LogsIn(parts) \/ Swallowed(parts)
    BY DEF ReloginHeard, Swallowed
  <2>1. t \in Tracker /\ TypeOK
    BY <1>1 DEF LinesInv, Inv, TypeOK
  <2>2. /\ wire[t] \in Seq(Halves) /\ partial[t] \in Seq(Halves)
        /\ sent[t] \in Seq(Halves) /\ Pending(t) \in Seq(Halves)
        /\ handled[t] \in Seq(Seq(Halves))
        /\ Len(sent[t]) \in Nat /\ Len(Pending(t)) \in Nat
    BY <2>1, LinesType
  <2>3. PICK a \in 1..Len(sent[t]) : sent[t][a][1] = "relogin"
    <3>1. PICK b \in DOMAIN sent[t] : h = sent[t][b]
      BY DEF ToSet
    <3>2. b \in 1..Len(sent[t]) /\ sent[t][b][1] = "relogin"
      <4>1. DOMAIN sent[t] = 1..Len(sent[t])
        BY <2>2
      <4>2. h[1] = "relogin"
        OBVIOUS
      <4> QED  BY <3>1, <4>1, <4>2, Zenon
    <3> QED  BY <3>2
  <2>4. t \in owed /\ 1 \in 1..Len(sent[t]) /\ sent[t] # <<>>
    <3>1. a \in 1..Len(sent[t]) /\ Len(sent[t]) \in Nat
      BY <2>2, <2>3
    <3>2. t \in owed
      BY <1>1, <2>1, <2>3, <3>1 DEF LinesInv, OneLogin
    <3>3. Len(<<>>) = 0
      OBVIOUS
    <3> QED  BY <3>1, <3>2, <3>3
  <2>5. sent[t][1][1] = "relogin"
    BY <1>1, <2>2, <2>4 DEF LinesInv, Inv, GreetedFirst
  <2>7. Passed(t) # 0
    <3> SUFFICES ASSUME Passed(t) = 0 PROVE FALSE
      OBVIOUS
    <3>1. Len(Pending(t)) = Len(sent[t])
      BY <2>2 DEF Passed
    <3>2. Pending(t)[1] = sent[t][1] /\ 1 \in 1..Len(Pending(t))
      BY <1>1, <2>1, <2>2, <2>4, <3>1 DEF LinesInv, Lines, IsRest
    <3>3. PICK p \in Seq(Halves) : p = partial[t]
      BY <2>2
    <3>4. PICK w \in Seq(Halves) : w = wire[t]
      BY <2>2
    <3>5. Pending(t) = p \o w
      BY <3>3, <3>4 DEF Pending
    <3>6. 1 \in 1..Len(p \o w) /\ (p \o w)[1] = sent[t][1]
      BY <3>2, <3>5, Zenon
    <3>7. (p \o w)[1] \in ToSet(w \o p)
      BY <3>6, FirstOf, Zenon
    <3> QED  BY <2>5, <3>3, <3>4, <3>6, <3>7, Zenon
  <2>8. \E i \in 1..Len(handled[t]) :
           LogsIn(handled[t][i]) \/ Swallowed(handled[t][i])
    BY <1>1, <2>1, <2>4, <2>5, <2>7 DEF LinesInv, Heard
  <2> QED  BY <2>2, <2>8 DEF ToSet
<1> QED  BY InitLines, NextLinesInv, <1>1, PTL DEF Spec

=============================================================================
