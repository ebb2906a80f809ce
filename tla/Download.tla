------------------------------- MODULE Download -------------------------------
(***************************************************************************)
(* The downloading side of a client (download.h): one detached             *)
(* downloadWorker thread per FILE_META line the tracker sends, all sharing *)
(* activeDownloads, seedingFiles and the file system.                      *)
(*                                                                         *)
(* activeDownloads is keyed by file name alone.  A worker looks its own    *)
(* DownloadInfo up there once, at its start, and again by name whenever it *)
(* saves a piece and when it merges; a later download of the same name     *)
(* has by then taken the entry over.  The steps below are the stretches    *)
(* between those look-ups.                                                 *)
(*                                                                         *)
(* The peers are the environment: Answers says what each may do when asked *)
(* for a piece.  A piece is written <<file, index>>: its SHA-1 is taken to *)
(* identify it.  Files are whole numbers of pieces.                        *)
(*                                                                         *)
(* No write to a file is checked, neither of a .part file nor of the       *)
(* merged one, and a .part file is truncated before it is written.         *)
(***************************************************************************)
EXTENDS Integers, Sequences

CONSTANTS
    Job,        \* FILE_META lines received, and the worker of each
    Name, Dest, File, Peer,
    NameOf,     \* the file name a job asks for
    DestOf,     \* where the user wants the file
    FileOf,     \* the file shared under that name in that group
    Size,       \* number of pieces of a file
    Listed,     \* number of pieces the tracker listed for a job
    Seeders,    \* the peers it listed, in order, for each piece
    Answers,    \* what a peer may do when asked for a piece
    Healthy,    \* destinations at which every file can be opened, read and
                \* written in full; at others (a full disk, a directory, no
                \* descriptors left) any of that may fail at any time
    MaxPieces,  \* bound on Size
    None

Answer == {"refuse",    \* no connection, no answer in time, or ERROR|...
           "stall",     \* header, then nothing for 10 seconds
           "truncate",  \* header, then the connection is closed too early
           "wrong",     \* a full piece with other bytes
           "good"}

Index == 0..(MaxPieces - 1)
Content == File \X Index
Junk == <<None, 0>>     \* bytes that are not the expected piece, or too few

ASSUME JobAssumption ==
    /\ MaxPieces \in Nat
    /\ NameOf \in [Job -> Name] /\ DestOf \in [Job -> Dest]
    /\ FileOf \in [Job -> File]
    /\ Size \in [File -> 0..MaxPieces]
    /\ Listed \in [Job -> 0..MaxPieces]
    /\ Seeders \in [Job -> [Index -> Seq(Peer)]]
    /\ Answers \in [Peer -> (SUBSET Answer) \ {{}}]
    /\ Healthy \subseteq Dest

ASSUME NoneAssumption == None \notin Job \cup Dest \cup File \cup Content

VARIABLES
    pc,         \* where the worker of a job is; "new" before its FILE_META
    active,     \* activeDownloads: the job last started for a name, or None
    own,        \* the job whose DownloadInfo the worker holds
    downloaded, \* DownloadInfo::downloadedPieces, the indices that are true
    complete,   \* DownloadInfo::isComplete
    at,         \* the worker's position in its loop over pieces
    nth,        \* its position in the loop over seeders
    got,        \* the bytes in pieceData
    path,       \* its local destPath
    total,      \* its local totalPieces while it merges
    part,       \* destPath.part<i> files: their content, or None
    final,      \* destPath: the piece at every position, Junk where a merge
                \* has passed and left something else, or None
    linked,     \* the .part file a worker has open still has its name
    out,        \* where its stream to destPath stands, in pieces: behind at
                \* once a part was short, -1 once a write has failed
    seeding,    \* seedingFiles: the path of a SeedInfo, or None
    notified,   \* <<job, piece>> the tracker has been told about
    sockets     \* connections a worker has opened and not closed, by the piece
                \* and the position in its seeder list they were made for

local == <<at, nth, got, path, total>>
disk == <<part, final, linked, out>>
vars == <<pc, active, own, downloaded, complete, local, disk, seeding,
          notified, sockets>>

Init ==
    /\ pc = [j \in Job |-> "new"]
    /\ active = [n \in Name |-> None]
    /\ own = [j \in Job |-> j]
    /\ downloaded = [j \in Job |-> {}]
    /\ complete = [j \in Job |-> FALSE]
    /\ at = [j \in Job |-> 0]
    /\ nth = [j \in Job |-> 1]
    /\ got = [j \in Job |-> Junk]
    /\ path = [j \in Job |-> DestOf[j]]
    /\ total = [j \in Job |-> 0]
    /\ part = [d \in Dest |-> [i \in Index |-> None]]
    /\ final = [d \in Dest |-> [i \in Index |-> None]]
    /\ linked = [j \in Job |-> FALSE]
    /\ out = [j \in Job |-> 0]
    /\ seeding = [n \in Name |-> None]
    /\ notified = {}
    /\ sockets = [j \in Job |-> {}]

Goto(j, from, to) == pc[j] = from /\ pc' = [pc EXCEPT ![j] = to]

(* The DownloadInfo the name leads to at this moment. *)
Current(j) == active[NameOf[j]]

Expected(j) == <<FileOf[own[j]], at[j]>>

(* The seeders of the piece the worker is at, and its place among them. *)
Sources(j) == Seeders[own[j]][at[j]]
Here(j) == <<at[j], nth[j]>>

-----------------------------------------------------------------------------
(* handleFileMetadata and the start of downloadWorker. *)

(* Mutant: the worker starts although the map has no entry for it. *)
ReceiveUnlisted(j) ==
    /\ Goto(j, "new", "lookup")
    /\ UNCHANGED <<active, own, downloaded, complete, local, disk, seeding,
                   notified, sockets>>

Receive(j) ==
    /\ Goto(j, "new", "lookup")
    /\ active' = [active EXCEPT ![NameOf[j]] = j]
    /\ UNCHANGED <<own, downloaded, complete, local, disk, seeding, notified,
                   sockets>>

Lookup(j) ==
    /\ Goto(j, "lookup", "pieces")
    /\ own' = [own EXCEPT ![j] = Current(j)]
    /\ UNCHANGED <<active, downloaded, complete, local, disk, seeding,
                   notified, sockets>>

-----------------------------------------------------------------------------
(* The loop over pieces and, within it, over the seeders of a piece. *)

SkipPiece(j) ==
    /\ pc[j] = "pieces"
    /\ at[j] < Listed[own[j]]
    /\ at[j] \in downloaded[own[j]]
    /\ at' = [at EXCEPT ![j] = @ + 1]
    /\ UNCHANGED <<pc, active, own, downloaded, complete, nth, got, path,
                   total, disk, seeding, notified, sockets>>

StartPiece(j) ==
    /\ Goto(j, "pieces", "ask")
    /\ at[j] < Listed[own[j]]
    /\ at[j] \notin downloaded[own[j]]
    /\ nth' = [nth EXCEPT ![j] = 1]
    /\ UNCHANGED <<active, own, downloaded, complete, at, got, path, total,
                   disk, seeding, notified, sockets>>

(* "Failed to download piece": the worker goes on with the next one. *)
GiveUpPiece(j) ==
    /\ Goto(j, "ask", "pieces")
    /\ nth[j] > Len(Sources(j))
    /\ at' = [at EXCEPT ![j] = @ + 1]
    /\ UNCHANGED <<active, own, downloaded, complete, nth, got, path, total,
                   disk, seeding, notified, sockets>>

MayAnswer(j, answer) ==
    /\ nth[j] <= Len(Sources(j))
    /\ answer \in Answers[Sources(j)[nth[j]]]

(* Mutant: the first failure ends the loop over seeders. *)
RefusedGivesUp(j) ==
    /\ pc[j] = "ask"
    /\ MayAnswer(j, "refuse")
    /\ nth' = [nth EXCEPT ![j] = Len(Sources(j)) + 1]
    /\ UNCHANGED <<pc, active, own, downloaded, complete, at, got, path,
                   total, disk, seeding, notified, sockets>>

(* downloadPieceFromPeer fails before the data: its socket is closed again. *)
Refused(j) ==
    /\ pc[j] = "ask"
    /\ MayAnswer(j, "refuse")
    /\ nth' = [nth EXCEPT ![j] = @ + 1]
    /\ UNCHANGED <<pc, active, own, downloaded, complete, at, got, path,
                   total, disk, seeding, notified, sockets>>

Header(j) ==
    /\ Goto(j, "ask", "read")
    /\ nth[j] <= Len(Sources(j))
    /\ Answers[Sources(j)[nth[j]]] # {"refuse"}
    /\ sockets' = [sockets EXCEPT ![j] = @ \cup {Here(j)}]
    /\ UNCHANGED <<active, own, downloaded, complete, local, disk, seeding,
                   notified>>

(* Mutant: the socket stays open. *)
StalledOpen(j) ==
    /\ Goto(j, "read", "ask")
    /\ MayAnswer(j, "stall")
    /\ nth' = [nth EXCEPT ![j] = @ + 1]
    /\ UNCHANGED <<active, own, downloaded, complete, at, got, path, total,
                   disk, seeding, notified, sockets>>

(* read fails or times out. *)
Stalled(j) ==
    /\ Goto(j, "read", "ask")
    /\ MayAnswer(j, "stall")
    /\ nth' = [nth EXCEPT ![j] = @ + 1]
    /\ sockets' = [sockets EXCEPT ![j] = @ \ {Here(j)}]
    /\ UNCHANGED <<active, own, downloaded, complete, at, got, path, total,
                   disk, seeding, notified>>

(* read returns 0 and will for ever: usleep, continue. *)
Truncated(j) ==
    /\ Goto(j, "read", "starved")
    /\ MayAnswer(j, "truncate")
    /\ UNCHANGED <<active, own, downloaded, complete, local, disk, seeding,
                   notified, sockets>>

ReadAll(j) ==
    /\ Goto(j, "read", "verify")
    /\ \/ MayAnswer(j, "good") /\ got' = [got EXCEPT ![j] = Expected(j)]
       \/ MayAnswer(j, "wrong") /\ got' = [got EXCEPT ![j] = Junk]
    /\ UNCHANGED <<active, own, downloaded, complete, at, nth, path, total,
                   disk, seeding, notified, sockets>>

(* Mutant: the socket is closed and the same seeder asked again. *)
HashMismatchAgain(j) ==
    /\ Goto(j, "verify", "ask")
    /\ got[j] # Expected(j)
    /\ sockets' = [sockets EXCEPT ![j] = @ \ {Here(j)}]
    /\ UNCHANGED <<active, own, downloaded, complete, local, disk, seeding,
                   notified>>

(* The hash comparison.  On a mismatch the function returns without closing  *)
(* its socket.                                                               *)
HashMismatch(j) ==
    /\ Goto(j, "verify", "ask")
    /\ got[j] # Expected(j)
    /\ nth' = [nth EXCEPT ![j] = @ + 1]
    /\ UNCHANGED <<active, own, downloaded, complete, at, got, path, total,
                   disk, seeding, notified, sockets>>

(* Mutant: the hash is computed and not compared. *)
HashIgnored(j) ==
    /\ Goto(j, "verify", "save")
    /\ path' = [path EXCEPT ![j] = DestOf[Current(j)]]
    /\ UNCHANGED <<active, own, downloaded, complete, at, nth, got, total,
                   disk, seeding, notified, sockets>>

HashMatch(j) ==
    /\ Goto(j, "verify", "save")
    /\ got[j] = Expected(j)
    /\ path' = [path EXCEPT ![j] = DestOf[Current(j)]]
    /\ UNCHANGED <<active, own, downloaded, complete, at, nth, got, total,
                   disk, seeding, notified, sockets>>

(* The .part file is created, or truncated if it is there.                   *)
OpenPart(j) ==
    /\ Goto(j, "save", "write")
    /\ part' = [part EXCEPT ![path[j]][at[j]] = Junk]
    /\ linked' = [linked EXCEPT ![j] = TRUE]
    /\ UNCHANGED <<active, own, downloaded, complete, local, final, out,
                   seeding, notified, sockets>>

(* If it cannot be created the socket is not closed either. *)
OpenPartFails(j) ==
    /\ Goto(j, "save", "ask")
    /\ path[j] \notin Healthy
    /\ nth' = [nth EXCEPT ![j] = @ + 1]
    /\ UNCHANGED <<active, own, downloaded, complete, at, got, path, total,
                   disk, seeding, notified, sockets>>

(* The bytes go to the file that was opened, which a merge may have unlinked *)
(* meanwhile.                                                                *)
WritePart(j) ==
    /\ Goto(j, "write", "record")
    /\ \/ /\ linked[j]
          /\ part' = [part EXCEPT ![path[j]][at[j]] = got[j]]
       \/ (~linked[j] \/ path[j] \notin Healthy) /\ UNCHANGED part
    /\ linked' = [linked EXCEPT ![j] = FALSE]
    /\ sockets' = [sockets EXCEPT ![j] = @ \ {Here(j)}]
    /\ UNCHANGED <<active, own, downloaded, complete, local, final, out,
                   seeding, notified>>

Record(j) ==
    /\ Goto(j, "record", "notify")
    /\ downloaded' = [downloaded EXCEPT ![own[j]] = @ \cup {at[j]}]
    /\ UNCHANGED <<active, own, complete, local, disk, seeding, notified,
                   sockets>>

(* notifyTrackerPieceCompleted: nothing is sent while no tracker is alive,   *)
(* and nothing is sent again later.                                          *)
Notify(j) ==
    /\ Goto(j, "notify", "pieces")
    /\ \/ notified' = notified \cup {<<own[j], at[j]>>}
       \/ UNCHANGED notified
    /\ at' = [at EXCEPT ![j] = @ + 1]
    /\ UNCHANGED <<active, own, downloaded, complete, nth, got, path, total,
                   disk, seeding, sockets>>

-----------------------------------------------------------------------------
(* The end of downloadWorker, and mergePiecesToFile. *)

AllDownloaded(j) == \A i \in 0..(Listed[j] - 1) : i \in downloaded[j]

EndIncomplete(j) ==
    /\ Goto(j, "pieces", "done")
    /\ at[j] = Listed[own[j]]
    /\ ~ AllDownloaded(own[j])
    /\ UNCHANGED <<active, own, downloaded, complete, local, disk, seeding,
                   notified, sockets>>

BeginMerge(j) ==
    /\ Goto(j, "pieces", "open")
    /\ at[j] = Listed[own[j]]
    /\ AllDownloaded(own[j])
    /\ path' = [path EXCEPT ![j] = DestOf[Current(j)]]
    /\ total' = [total EXCEPT ![j] = Listed[Current(j)]]
    /\ UNCHANGED <<active, own, downloaded, complete, at, nth, got, disk,
                   seeding, notified, sockets>>

(* Mutant: the loop over the parts starts at the second one. *)
OpenFinalSkips(j) ==
    /\ Goto(j, "open", "copy")
    /\ final' = [final EXCEPT ![path[j]] = [i \in Index |-> None]]
    /\ out' = [out EXCEPT ![j] = 0]
    /\ at' = [at EXCEPT ![j] = 1]
    /\ UNCHANGED <<active, own, downloaded, complete, nth, got, path, total,
                   part, linked, seeding, notified, sockets>>

(* Opening the destination truncates it. *)
OpenFinal(j) ==
    /\ Goto(j, "open", "copy")
    /\ final' = [final EXCEPT ![path[j]] = [i \in Index |-> None]]
    /\ out' = [out EXCEPT ![j] = 0]
    /\ at' = [at EXCEPT ![j] = 0]
    /\ UNCHANGED <<active, own, downloaded, complete, nth, got, path, total,
                   part, linked, seeding, notified, sockets>>

OpenFails(j) ==
    /\ Goto(j, "open", "finish")
    /\ path[j] \notin Healthy
    /\ UNCHANGED <<active, own, downloaded, complete, local, disk, seeding,
                   notified, sockets>>

(* One part is read and what could be read of it is written where the stream *)
(* stands.                                                                   *)
Copies(j) ==
    /\ Goto(j, "copy", "unlink")
    /\ at[j] < total[j]
    /\ part[path[j]][at[j]] # None
    /\ UNCHANGED <<active, own, downloaded, complete, local, part, linked,
                   seeding, notified, sockets>>

CopyPiece(j) ==
    /\ Copies(j)
    /\ out[j] = at[j]
    /\ part[path[j]][at[j]] # Junk
    /\ final' = [final EXCEPT ![path[j]][at[j]] = part[path[j]][at[j]]]
    /\ out' = [out EXCEPT ![j] = @ + 1]

(* A write that does not put a piece in its place: it leaves part of a piece *)
(* there or pieces cut in two, and may spoil what another stream to the same *)
(* file has put there.  Behind its place it reaches into two positions.      *)
Spoils(j) ==
    LET R == IF out[j] = at[j] THEN {at[j]} ELSE {out[j], out[j] + 1}
    IN  \E S \in SUBSET {i \in R : final[path[j]][i] \notin {Junk, None}} :
            final' = [final EXCEPT ![path[j]] =
                [i \in Index |-> IF i \in S \/ (i \in R /\ @[i] = None)
                                THEN Junk ELSE @[i]]]

(* A part is short if its worker has not written it yet or could not.        *)
Short(j) == part[path[j]][at[j]] = Junk \/ path[j] \notin Healthy

CopyShort(j) ==
    /\ Copies(j)
    /\ out[j] = at[j] /\ Short(j)
    /\ Spoils(j)
    /\ UNCHANGED out

CopyBehind(j) ==
    /\ Copies(j)
    /\ out[j] \in 0..(at[j] - 1)
    /\ Spoils(j)
    /\ \/ out' = [out EXCEPT ![j] = @ + 1]
       \/ Short(j) /\ UNCHANGED out

CopyFails(j) ==
    /\ Copies(j)
    /\ out[j] # -1 /\ path[j] \notin Healthy
    /\ Spoils(j)
    /\ out' = [out EXCEPT ![j] = -1]

(* The stream takes nothing more. *)
CopyNothing(j) ==
    /\ Copies(j)
    /\ out[j] = -1
    /\ UNCHANGED <<final, out>>

(* Mutant: the clean-up takes every part of the destination along. *)
UnlinkAll(j) ==
    /\ Goto(j, "unlink", "copy")
    /\ part' = [part EXCEPT ![path[j]] = [i \in Index |-> None]]
    /\ at' = [at EXCEPT ![j] = @ + 1]
    /\ UNCHANGED <<active, own, downloaded, complete, nth, got, path, total,
                   final, linked, out, seeding, notified, sockets>>

(* The part goes, whatever became of its copy.  A worker that has it open    *)
(* writes to a file without a name.                                          *)
Unlink(j) ==
    /\ Goto(j, "unlink", "copy")
    /\ \/ /\ part' = [part EXCEPT ![path[j]][at[j]] = None]
          /\ linked' = [k \in Job |-> /\ linked[k]
                                      /\ <<path[k], at[k]>> # <<path[j], at[j]>>]
       \/ path[j] \notin Healthy /\ UNCHANGED <<part, linked>>
    /\ at' = [at EXCEPT ![j] = @ + 1]
    /\ UNCHANGED <<active, own, downloaded, complete, nth, got, path, total,
                   final, out, seeding, notified, sockets>>

(* "Missing piece file": the merge is abandoned, what is there stays. *)
MissingPart(j) ==
    /\ Goto(j, "copy", "finish")
    /\ at[j] < total[j]
    /\ part[path[j]][at[j]] = None \/ path[j] \notin Healthy
    /\ UNCHANGED <<active, own, downloaded, complete, local, disk, seeding,
                   notified, sockets>>

(* Mutant: the merge stops one piece early. *)
SeedEarly(j) ==
    /\ Goto(j, "copy", "finish")
    /\ at[j] + 1 = total[j]
    /\ seeding' = [seeding EXCEPT ![NameOf[j]] = path[j]]
    /\ UNCHANGED <<active, own, downloaded, complete, local, disk, notified,
                   sockets>>

Seed(j) ==
    /\ Goto(j, "copy", "finish")
    /\ at[j] = total[j]
    /\ seeding' = [seeding EXCEPT ![NameOf[j]] = path[j]]
    /\ UNCHANGED <<active, own, downloaded, complete, local, disk, notified,
                   sockets>>

(* Back in downloadWorker, whatever became of the merge. *)
Finish(j) ==
    /\ Goto(j, "finish", "done")
    /\ complete' = [complete EXCEPT ![own[j]] = TRUE]
    /\ UNCHANGED <<active, own, downloaded, local, disk, seeding, notified,
                   sockets>>

-----------------------------------------------------------------------------
Fetch(j) ==
    \/ SkipPiece(j) \/ StartPiece(j) \/ GiveUpPiece(j)
    \/ Refused(j) \/ Header(j) \/ Stalled(j) \/ Truncated(j) \/ ReadAll(j)
    \/ HashMismatch(j) \/ HashMatch(j) \/ OpenPart(j)
    \/ OpenPartFails(j) \/ WritePart(j) \/ Record(j) \/ Notify(j)

Merge(j) ==
    \/ EndIncomplete(j) \/ BeginMerge(j) \/ OpenFinal(j) \/ OpenFails(j)
    \/ CopyPiece(j) \/ CopyShort(j) \/ CopyBehind(j) \/ CopyFails(j)
    \/ CopyNothing(j) \/ Unlink(j) \/ MissingPart(j) \/ Seed(j) \/ Finish(j)

Worker(j) == Lookup(j) \/ Fetch(j) \/ Merge(j)

Next == \E j \in Job : Receive(j) \/ Worker(j)

Spec == Init /\ [][Next]_vars

(* A worker is a thread of its own and every call it makes returns: connect  *)
(* and read have timeouts, the disk answers.                                 *)
FairSpec == Spec /\ \A j \in Job : WF_vars(Worker(j))

-----------------------------------------------------------------------------
(* Every variable keeps its type. *)
TypeOK ==
    /\ pc \in [Job -> {"new", "lookup", "pieces", "ask", "read", "starved",
                      "verify", "save", "write", "record", "notify", "open",
                      "copy", "unlink", "finish", "done"}]
    /\ active \in [Name -> Job \cup {None}]
    /\ own \in [Job -> Job]
    /\ downloaded \in [Job -> SUBSET Index]
    /\ complete \in [Job -> BOOLEAN]
    /\ at \in [Job -> 0..MaxPieces]
    /\ nth \in [Job -> Nat \ {0}]
    /\ got \in [Job -> Content \cup {Junk}]
    /\ path \in [Job -> Dest]
    /\ total \in [Job -> 0..MaxPieces]
    /\ part \in [Dest -> [Index -> Content \cup {Junk, None}]]
    /\ final \in [Dest -> [Index -> Content \cup {Junk, None}]]
    /\ linked \in [Job -> BOOLEAN]
    /\ out \in [Job -> -1..MaxPieces]
    /\ seeding \in [Name -> Dest \cup {None}]
    /\ notified \subseteq Job \X Index
    /\ sockets \in [Job -> SUBSET (Index \X (Nat \ {0}))]

(* Conditions under which the promises below are meant.  A download is alone *)
(* if no other one has its name or its destination, whatever those others do *)
(* to each other.                                                            *)
Alone(j) == \A k \in Job \ {j} : NameOf[k] # NameOf[j] /\ DestOf[k] # DestOf[j]
FullyListed(j) == Listed[j] = Size[FileOf[j]]

Whole(j) == \A i \in 0..(Size[FileOf[j]] - 1) :
               final[DestOf[j]][i] = <<FileOf[j], i>>

Writing(j, d, i) == pc[j] = "write" /\ linked[j] /\ path[j] = d /\ at[j] = i

Verified(d, i) == {<<FileOf[j], i>> : j \in {k \in Job : \E l \in Job :
                                      NameOf[k] = NameOf[l] /\ DestOf[l] = d}}

(* On a healthy disk a .part file holds what passed the hash check for its   *)
(* position, for a file of the name that is downloaded there, or some worker *)
(* has truncated it and is about to write: also when two downloads of one    *)
(* name take over each other's entry and one unlinks what the other writes.  *)
(* The merged file of a download that is alone holds its own pieces, each in *)
(* its place.  (A merge that meets another's truncated part shifts the rest: *)
(* that is the one way for unverified bytes to get into a file.)             *)
VerifiedParts ==
    /\ \A d \in Healthy : \A i \in Index :
          \/ part[d][i] \in Verified(d, i) \cup {None}
          \/ \E j \in Job : Writing(j, d, i)
    /\ \A j \in Job : Alone(j) /\ DestOf[j] \in Healthy =>
          \A i \in Index : final[DestOf[j]][i] \in {<<FileOf[j], i>>, None}

(* A piece the tracker has been told of is not lost on a healthy disk: until *)
(* the merge has copied it the .part file is there, and afterwards the       *)
(* merged file has it, at every step of a merge that truncates, copies and   *)
(* unlinks.  (On a disk that fills up it is: the copy is not checked before  *)
(* the part is unlinked.)                                                    *)
NotifiedHeld ==
    \A j \in Job : Alone(j) /\ DestOf[j] \in Healthy =>
        \A i \in Index : <<j, i>> \in notified =>
            <<FileOf[j], i>> \in {part[DestOf[j]][i], final[DestOf[j]][i]}

(* "Download completed" (download.h:316) means that the destination holds    *)
(* the whole file.                                                           *)
CompleteIsWhole == \A j \in Job : complete[j] => Whole(j)

(* It does mean that for a download that is alone, was told of every piece   *)
(* and has a healthy disk to go to.                                          *)
AloneIsWhole ==
    \A j \in Job : Alone(j) /\ FullyListed(j) /\ DestOf[j] \in Healthy =>
        (complete[j] => Whole(j))

(* What a client offers to other peers under a name it has downloaded is     *)
(* the whole file if the disk is healthy: a SeedInfo is entered only behind  *)
(* a finished merge, and no later step touches the file.                     *)
SeedsWhole ==
    \A j \in Job : Alone(j) /\ FullyListed(j) /\ DestOf[j] \in Healthy =>
        (seeding[NameOf[j]] = DestOf[j] => Whole(j))

(* What peers listed for a job may do. *)
Never(j, answer) == \A i \in Index : \A n \in DOMAIN Seeders[j][i] :
                       answer \notin Answers[Seeders[j][i][n]]

HonestSource(j) == \A i \in 0..(Listed[j] - 1) : \E n \in DOMAIN Seeders[j][i] :
                      Answers[Seeders[j][i][n]] = {"good"}

Namesakes(j) == {k \in Job : NameOf[k] = NameOf[j]}

(* A connection other than the one in use stays open only to a seeder that   *)
(* can send wrong bytes, in whatever other way peers fail the worker and     *)
(* whichever download's list it works through.  (A hash mismatch and a       *)
(* .part file that cannot be created return without closing.)                *)
NoSocketLeak ==
    \A j \in Job : (\A k \in Namesakes(j) : DestOf[k] \in Healthy) =>
        \A c \in sockets[j] :
            \/ /\ pc[j] \in {"read", "starved", "verify", "save", "write"}
                  /\ c = Here(j)
            \/ "wrong" \in Answers[Seeders[own[j]][c[1]][c[2]]]

(* Every download ends, one way or the other: timeouts and the finite lists  *)
(* of pieces and seeders leave a peer no power to keep a worker busy, unless *)
(* it closes the connection in the middle of a piece (the worker reads       *)
(* end-of-file for ever).                                                    *)
WorkerEnds ==
    <>[]\A j \in Job : pc[j] \in {"new", "done", "starved"}

(* A listed seeder that serves the piece is reached, however many useless    *)
(* ones are listed before it, and the download completes, given a disk that  *)
(* takes it.                                                                 *)
GoodSeederSuffices ==
    \A j \in Job :
        /\ Alone(j) /\ FullyListed(j) /\ HonestSource(j)
        /\ Never(j, "truncate")
        /\ DestOf[j] \in Healthy
        => (pc[j] = "lookup" ~> complete[j] /\ Whole(j))

-----------------------------------------------------------------------------
(* The downloads that keep the promise of Transfer, and how their workers,   *)
(* files and reports are read as its state.                                  *)
Sound == {j \in Job : Alone(j) /\ DestOf[j] \in Healthy}

StageOf(j) ==
    CASE complete[j] -> "complete"
      [] ~complete[j] /\ seeding[NameOf[j]] = DestOf[j] -> "offered"
      [] ~complete[j] /\ pc[j] = "new" -> "idle"
      [] ~complete[j] /\ pc[j] = "done" -> "ended"
      [] OTHER -> "fetching"

HeldBy(j) ==
    {i \in Index : <<FileOf[j], i>> \in {part[DestOf[j]][i],
                                        final[DestOf[j]][i]}}

ToldOf(j) == {i \in Index : <<j, i>> \in notified}

Promise == INSTANCE Transfer WITH
    Job <- Sound,
    Pieces <- [j \in Sound |-> 0..(Listed[j] - 1)],
    stage <- [j \in Sound |-> StageOf(j)],
    held <- [j \in Sound |-> HeldBy(j)],
    reported <- [j \in Sound |-> ToldOf(j)]

(* A download that meets no other one of its name or destination, and whose  *)
(* disk is healthy, is a Transfer: through every step of fetching, merging   *)
(* and seeding pieces are never lost again, only held ones reported, and     *)
(* "offered" and "complete" wait for all of them.                            *)
IsTransfer == Promise!Spec
=============================================================================
