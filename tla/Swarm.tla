-------------------------------- MODULE Swarm --------------------------------
(***************************************************************************)
(* Clients that upload, serve and download files, and the listing by which *)
(* the tracker sends them to each other (fileops.h, download.h,            *)
(* client_constructs.h).  A key is a group and a file name, as the tracker *)
(* lists it; a client's seedingFiles knows the name only.                  *)
(*                                                                         *)
(* This module is about what a client is listed for and what it serves, so *)
(* the steps of one exchange between two peers, and those of a merge, are  *)
(* one step each: Download has their detail, and a client has one download *)
(* at a time.  A line to the tracker may come to nothing: it is read       *)
(* behind another, the connection goes (ClientLink says when), or the user *)
(* is not logged in or no member (Tracker says when).  All processes run   *)
(* on one host, so paths are common to them.  A piece of a file is         *)
(* <<file, index>>: its SHA-1 is taken to identify it.                     *)
(***************************************************************************)
EXTENDS Integers, Sequences, SequencesExt

CONSTANTS
    Client, Group, Name, Path, File,
    Size,       \* number of pieces of a file
    Reach,      \* pieces whose offset fits an int (4096 of 512 KB)
    Stored,     \* the files there are at the start, by path
    Uploads,    \* <<client, key, path>>: upload_file commands users may give;
                \* the name in the key is the last part of the path
    Downloads,  \* <<client, key, path>>: download_file commands
    Stops,      \* <<client, key>>: stop_share commands
    Quits,      \* clients whose users may quit (and start them again)
    Offline,    \* clients whose tracker connection may be down for a while
    Edits,      \* <<path, file>>: the user replaces a file, or deletes it
    Regroups,   \* groups for whose id create_group may be given again
    Healthy,    \* paths where everything can be opened and written
    None        \* no file, no entry

Key == Group \X Name

(* Every command is given at most once. *)
Command == ({"upload"} \X Uploads) \cup ({"download"} \X Downloads) \cup
           ({"stop"} \X Stops) \cup ({"quit"} \X Quits) \cup
           ({"edit"} \X Edits) \cup ({"regroup"} \X Regroups)

ASSUME SwarmAssumption ==
    /\ Reach \in Nat \ {0}
    /\ Size \in [File -> Nat \ {0}]
    /\ Stored \in [Path -> File \cup {None}]
    /\ Uploads \subseteq Client \X Key \X Path
    /\ Downloads \subseteq Client \X Key \X Path
    /\ Stops \subseteq Client \X Key
    /\ Quits \subseteq Client /\ Offline \subseteq Client
    /\ Edits \subseteq Path \X (File \cup {None})
    /\ Regroups \subseteq Group /\ Healthy \subseteq Path

VARIABLES
    issued,     \* the commands given so far
    disk,       \* the file at a path; a mutilated one counts as none
    task,       \* the upload a client's main loop is in, or None
    seeding,    \* seedingFiles: <<path, number of pieces>> under a name
    fetch,      \* the download of a client
    mail,       \* lines written to the tracker and not handled yet
    hand,       \* the upload_file that the tracker's thread for a client has
                \* checked and not entered yet, or None
    listing,    \* the FileInfo under a key: its file (by the hashes it was
                \* announced with), uploader, seeders of every piece
    held,       \* history: the pieces a client has hashed or verified
    lost,       \* history: <<key, index>> of the reports of a client's
                \* download that came to nothing
    replaced    \* history: keys a FileInfo was taken off, or replaced under

vars == <<issued, disk, task, seeding, fetch, mail, hand, listing,
          held, lost, replaced>>

Indices(f) == 0..(Size[f] - 1)
PiecesOf(f) == {f} \X Indices(f)

(* An upload in progress, a line to the tracker, who has which piece, what   *)
(* the tracker lists under a key, a download.                                *)
Upload == [key : Key, path : Path, file : File]
Announcement == {"upload"} \X Key \X Path \X File
Line == Announcement \cup ({"piece"} \X Key \X Nat)
Entry(f) == [file : {f}, uploader : Client,
             seeders : [Indices(f) -> Seq(Client)]]
Fetch(f) == [stage : {"fetching", "ended", "complete"}, key : Key,
             dest : Path, file : {f}, seeders : [Indices(f) -> Seq(Client)],
             have : SUBSET Indices(f), at : 0..Size[f], nth : Nat \ {0}]
Idle == [stage |-> "idle"]

ASSUME NoneAssumption ==
    /\ None \notin Upload \cup Announcement \cup (Path \X Nat)
    /\ \A f \in File : None \notin Entry(f)

Init ==
    /\ issued = {}
    /\ disk = Stored
    /\ task = [c \in Client |-> None]
    /\ seeding = [c \in Client |-> [n \in Name |-> None]]
    /\ fetch = [c \in Client |-> Idle]
    /\ mail = [c \in Client |-> <<>>]
    /\ hand = [c \in Client |-> None]
    /\ listing = [k \in Key |-> None]
    /\ held = [c \in Client |-> {}]
    /\ lost = [c \in Client |-> {}]
    /\ replaced = {}

Give(kind, what) ==
    /\ <<kind, what>> \in Command \ issued
    /\ issued' = issued \cup {<<kind, what>>}

(* The main loop reads a command when it is through with the last one. *)
Type(c, kind, what) == task[c] = None /\ Give(kind, what)

Send(c, line) == mail' = [mail EXCEPT ![c] = Append(@, line)]

-----------------------------------------------------------------------------
(* handleUploadFileClient: the file is hashed and announced, then entered    *)
(* into seedingFiles.  The tracker, and others, may act in between.          *)
UploadSend(c, k, p) ==
    /\ Type(c, "upload", <<c, k, p>>)
    /\ disk[p] \in File
    /\ task' = [task EXCEPT ![c] = [key |-> k, path |-> p, file |-> disk[p]]]
    /\ held' = [held EXCEPT ![c] = @ \cup PiecesOf(disk[p])]
    /\ Send(c, <<"upload", k, p, disk[p]>>)
    /\ UNCHANGED <<disk, seeding, fetch, hand, listing, lost, replaced>>

(* The write fails: whatever was seeded under the name is forgotten. *)
UploadFails(c, k, p) ==
    /\ c \in Offline
    /\ Type(c, "upload", <<c, k, p>>)
    /\ disk[p] \in File
    /\ seeding' = [seeding EXCEPT ![c][k[2]] = None]
    /\ UNCHANGED <<disk, task, fetch, mail, hand, listing, held, lost, replaced>>

(* This happens whether or not the tracker accepts the upload. *)
UploadSeed(c) ==
    /\ task[c] # None
    /\ task' = [task EXCEPT ![c] = None]
    /\ seeding' = [seeding EXCEPT ![c][task[c].key[2]] =
                       <<task[c].path, Size[task[c].file]>>]
    /\ UNCHANGED <<issued, disk, fetch, mail, hand, listing, held, lost, replaced>>

-----------------------------------------------------------------------------
(* The tracker's thread for a client takes the client's next line. *)

Handle(c, kind) ==
    /\ hand[c] = None
    /\ mail[c] # <<>>
    /\ Head(mail[c])[1] = kind
    /\ mail' = [mail EXCEPT ![c] = Tail(@)]
    /\ UNCHANGED <<issued, disk, task, seeding, fetch, held, replaced>>

(* The line comes to nothing. *)
LoseLine(c) ==
    \/ /\ Handle(c, "upload")
       /\ UNCHANGED <<hand, listing, lost>>
    \/ /\ Handle(c, "piece")
       /\ lost' = [lost EXCEPT ![c] =
                       @ \cup {<<Head(mail[c])[2], Head(mail[c])[3]>>}]
       /\ UNCHANGED <<hand, listing>>

(* handleUploadFileTracker: the checks.  The size it lists is read from the  *)
(* path now.                                                                 *)
CheckUpload(c) ==
    /\ Handle(c, "upload")
    /\ LET line == Head(mail[c]) IN
       IF listing[line[2]] # None \/ disk[line[3]] \notin File
       THEN UNCHANGED hand
       ELSE hand' = [hand EXCEPT ![c] = line]
    /\ UNCHANGED <<listing, lost>>

(* Mutant: the file is replaced, and the seeders stay. *)
CommitUploadOver(c) ==
    /\ hand[c] # None
    /\ hand' = [hand EXCEPT ![c] = None]
    /\ LET k == hand[c][2]
           f == hand[c][4]
       IN /\ listing' = [listing EXCEPT ![k] =
                             [file |-> f, uploader |-> c,
                              seeders |-> IF @ # None THEN @.seeders
                                          ELSE [i \in Indices(f) |-> <<c>>]]]
          /\ replaced' = IF listing[k] = None THEN replaced
                         ELSE replaced \cup {k}
    /\ UNCHANGED <<issued, disk, task, seeding, fetch, mail, held, lost>>

(* Then addSharedFile puts its FileInfo in place of whatever is listed by    *)
(* now, an upload of another thread included.                                *)
CommitUpload(c) ==
    /\ hand[c] # None
    /\ hand' = [hand EXCEPT ![c] = None]
    /\ LET k == hand[c][2]
           f == hand[c][4]
       IN /\ listing' = [listing EXCEPT ![k] =
                             [file |-> f, uploader |-> c,
                              seeders |-> [i \in Indices(f) |-> <<c>>]]]
          /\ replaced' = IF listing[k] = None THEN replaced
                         ELSE replaced \cup {k}
    /\ UNCHANGED <<issued, disk, task, seeding, fetch, mail, held, lost>>

(* Mutant: the reporter is entered for every piece. *)
ListPieceAll(c) ==
    /\ Handle(c, "piece")
    /\ LET k == Head(mail[c])[2] IN
       IF listing[k] = None THEN UNCHANGED listing
       ELSE listing' = [listing EXCEPT ![k].seeders =
               [i \in DOMAIN @ |-> IF c \in ToSet(@[i]) THEN @[i]
                                   ELSE Append(@[i], c)]]
    /\ UNCHANGED <<hand, lost>>

(* Mutant: a piece with any seeder at all counts as known. *)
ListPieceOnce(c) ==
    /\ Handle(c, "piece")
    /\ LET k == Head(mail[c])[2]
           i == Head(mail[c])[3]
       IN IF \/ listing[k] = None \/ i \notin DOMAIN listing[k].seeders
             \/ listing[k].seeders[i] # <<>>
          THEN UNCHANGED listing
          ELSE listing' = [listing EXCEPT ![k].seeders[i] = Append(@, c)]
    /\ UNCHANGED <<hand, lost>>

(* handlePieceCompleted: what is listed under the key now need not be what   *)
(* the client has downloaded a piece of.                                     *)
ListPiece(c) ==
    /\ Handle(c, "piece")
    /\ LET k == Head(mail[c])[2]
           i == Head(mail[c])[3]
       IN IF \/ listing[k] = None \/ i \notin DOMAIN listing[k].seeders
             \/ c \in ToSet(listing[k].seeders[i])
          THEN UNCHANGED listing
          ELSE listing' = [listing EXCEPT ![k].seeders[i] = Append(@, c)]
    /\ UNCHANGED <<hand, lost>>

(* The other commands take effect when the tracker handles them, after the   *)
(* lines before them.                                                        *)
Ask(c, kind, what) ==
    Type(c, kind, what) /\ mail[c] = <<>> /\ hand[c] = None

(* handleStopShare *)
StopShare(c, k) ==
    /\ Ask(c, "stop", <<c, k>>)
    /\ listing[k] # None /\ listing[k].uploader = c
    /\ listing' = [listing EXCEPT ![k] = None]
    /\ replaced' = replaced \cup {k}
    /\ UNCHANGED <<disk, task, seeding, fetch, mail, hand, held, lost>>

(* create_group does not look whether the id is taken: a new Group replaces  *)
(* the old one, its files are gone, and an upload under way is entered into  *)
(* an object nobody finds any more.                                          *)
Regroup(g) ==
    /\ Give("regroup", g)
    /\ listing' = [k \in Key |-> IF k[1] = g THEN None ELSE listing[k]]
    /\ replaced' = replaced \cup {k \in Key : k[1] = g}
    /\ hand' = [c \in Client |->
                   IF hand[c] # None /\ hand[c][2][1] = g THEN None ELSE hand[c]]
    /\ UNCHANGED <<disk, task, seeding, fetch, mail, held, lost>>

(* handleDownloadFile, and handleFileMetadata on the client that reads the   *)
(* reply: from here on the worker knows the seeders of this moment.          *)
StartDownload(c, k, p) ==
    /\ Ask(c, "download", <<c, k, p>>)
    /\ fetch[c].stage \in {"idle", "ended", "complete"}
    /\ listing[k] # None
    /\ fetch' = [fetch EXCEPT ![c] =
          [stage |-> "fetching", key |-> k, dest |-> p,
           file |-> listing[k].file, seeders |-> listing[k].seeders,
           have |-> {}, at |-> 0, nth |-> 1]]
    /\ lost' = [lost EXCEPT ![c] = {}]
    /\ UNCHANGED <<disk, task, seeding, mail, hand, listing, held, replaced>>

-----------------------------------------------------------------------------
(* servePieceToClient, under seed_mutex: the entry is found by the name, and *)
(* the bytes are those the file has now.                                     *)

(* pieceIndex * PIECE_SIZE in an int, counted in pieces. *)
Offset(i) == ((i + Reach) % (2 * Reach)) - Reach

(* The piece that is sent, as a set; none if the client is gone (nothing is  *)
(* seeded), answers ERROR or sends no bytes (the offset is negative or       *)
(* behind the end).                                                          *)
Serve(s, n, i) ==
    LET entry == seeding[s][n] IN
    IF entry # None /\ i < entry[2] /\ disk[entry[1]] \in File
    THEN {<<disk[entry[1]], Offset(i)>>} \cap PiecesOf(disk[entry[1]])
    ELSE {}

Able(s, k, f, i) == Serve(s, k[2], i) = {<<f, i>>}

-----------------------------------------------------------------------------
(* downloadWorker *)

Fetching(c) == fetch[c].stage = "fetching" /\ fetch[c].at < Size[fetch[c].file]

(* The listed seeders of the current piece that have not been asked yet. *)
Untried(c) ==
    SubSeq(fetch[c].seeders[fetch[c].at], fetch[c].nth,
           Len(fetch[c].seeders[fetch[c].at]))

Answered(c) ==
    Able(Head(Untried(c)), fetch[c].key, fetch[c].file, fetch[c].at)

FetchPiece(c) ==
    /\ Fetching(c) /\ Untried(c) # <<>> /\ Answered(c)
    /\ fetch' = [fetch EXCEPT ![c].have = @ \cup {fetch[c].at},
                              ![c].at = @ + 1, ![c].nth = 1]
    /\ held' = [held EXCEPT ![c] = @ \cup {<<fetch[c].file, fetch[c].at>>}]
    /\ \/ /\ Send(c, <<"piece", fetch[c].key, fetch[c].at>>)
          /\ UNCHANGED lost
       \/ /\ c \in Offline                   \* "no tracker is alive"
          /\ lost' = [lost EXCEPT ![c] = @ \cup {<<fetch[c].key, fetch[c].at>>}]
          /\ UNCHANGED mail
    /\ UNCHANGED <<issued, disk, task, seeding, hand, listing, replaced>>

(* No socket, no connection, ERROR, a timeout, a hash mismatch, or no part   *)
(* file: whether or not the seeder has the piece, it is not asked again.     *)
NextSeeder(c) ==
    /\ Fetching(c) /\ Untried(c) # <<>>
    /\ fetch' = [fetch EXCEPT ![c].nth = @ + 1]
    /\ UNCHANGED <<issued, disk, task, seeding, mail, hand, listing,
                   held, lost, replaced>>

SkipPiece(c) ==
    /\ Fetching(c) /\ Untried(c) = <<>>
    /\ fetch' = [fetch EXCEPT ![c].at = @ + 1, ![c].nth = 1]
    /\ UNCHANGED <<issued, disk, task, seeding, mail, hand, listing,
                   held, lost, replaced>>

AllTried(c) == fetch[c].stage = "fetching" /\ ~ Fetching(c)
HasAll(c) == fetch[c].have = Indices(fetch[c].file)

EndIncomplete(c) ==
    /\ AllTried(c) /\ ~ HasAll(c)
    /\ fetch' = [fetch EXCEPT ![c].stage = "ended"]
    /\ UNCHANGED <<issued, disk, task, seeding, mail, hand, listing,
                   held, lost, replaced>>

(* Mutant: "Download completed" without the entry in seedingFiles. *)
MergeUnseeded(c) ==
    /\ AllTried(c) /\ HasAll(c)
    /\ fetch' = [fetch EXCEPT ![c].stage = "complete"]
    /\ disk' = [disk EXCEPT ![fetch[c].dest] = fetch[c].file]
    /\ UNCHANGED <<issued, task, seeding, mail, hand, listing,
                   held, lost, replaced>>

(* mergePiecesToFile: the file and the entry replace what was there. *)
Merge(c) ==
    /\ AllTried(c) /\ HasAll(c)
    /\ fetch' = [fetch EXCEPT ![c].stage = "complete"]
    /\ disk' = [disk EXCEPT ![fetch[c].dest] = fetch[c].file]
    /\ seeding' = [seeding EXCEPT ![c][fetch[c].key[2]] =
                       <<fetch[c].dest, Size[fetch[c].file]>>]
    /\ UNCHANGED <<issued, task, mail, hand, listing, held, lost, replaced>>

(* What a worker writes is in danger, also from another with its destination.*)
Shaky(c) ==
    \/ fetch[c].dest \notin Healthy
    \/ \E d \in Client \ {c}, k \in Key :
          <<"download", <<d, k, fetch[c].dest>>>> \in issued

(* The destination cannot be opened, a part is missing, or a write fails, of *)
(* the file or of a part: "Download completed" all the same, and after a     *)
(* failed write what there is has an entry.                                  *)
MergeFails(c) ==
    /\ AllTried(c) /\ HasAll(c) /\ Shaky(c)
    /\ fetch' = [fetch EXCEPT ![c].stage = "complete"]
    /\ \/ UNCHANGED <<disk, seeding>>
       \/ /\ disk' = [disk EXCEPT ![fetch[c].dest] = None]
          /\ \/ UNCHANGED seeding
             \/ \E m \in 0..Size[fetch[c].file] :
                   seeding' = [seeding EXCEPT ![c][fetch[c].key[2]] =
                                  <<fetch[c].dest, m>>]
    /\ UNCHANGED <<issued, task, mail, hand, listing, held, lost, replaced>>

-----------------------------------------------------------------------------
(* Users and their machines. *)

(* quit, and being started again some time later.  seedingFiles and the      *)
(* downloads are gone, the listings are not; a client that runs with nothing *)
(* to serve and one that does not run are alike to the others.  Lines that   *)
(* are not lost with the connection are taken to be read before those of the *)
(* next session.                                                             *)
Quit(c) ==
    /\ Type(c, "quit", c)
    /\ seeding' = [seeding EXCEPT ![c] = [n \in Name |-> None]]
    /\ fetch' = [fetch EXCEPT ![c] = Idle]
    /\ UNCHANGED <<disk, task, mail, hand, listing, held, lost, replaced>>

Edit(p, f) ==
    /\ Give("edit", <<p, f>>)
    /\ disk' = [disk EXCEPT ![p] = f]
    /\ UNCHANGED <<task, seeding, fetch, mail, hand, listing, held, lost, replaced>>

-----------------------------------------------------------------------------
Worker(c) == FetchPiece(c) \/ NextSeeder(c) \/ SkipPiece(c)
             \/ EndIncomplete(c) \/ Merge(c) \/ MergeFails(c)

Tracker(c) == LoseLine(c) \/ CheckUpload(c) \/ CommitUpload(c) \/ ListPiece(c)

User(c) ==
    \/ \E k \in Key, p \in Path :
          UploadSend(c, k, p) \/ UploadFails(c, k, p) \/ StartDownload(c, k, p)
    \/ \E k \in Key : StopShare(c, k)
    \/ Quit(c)

Next ==
    \/ \E c \in Client : UploadSeed(c) \/ Worker(c) \/ Tracker(c) \/ User(c)
    \/ \E p \in Path, f \in File \cup {None} : Edit(p, f)
    \/ \E g \in Group : Regroup(g)

Spec == Init /\ [][Next]_vars

-----------------------------------------------------------------------------
(* Every variable keeps its type; a list of seeders covers the pieces of its *)
(* file, and a worker is within it.                                          *)
TypeOK ==
    /\ issued \subseteq Command
    /\ disk \in [Path -> File \cup {None}]
    /\ task \in [Client -> Upload \cup {None}]
    /\ seeding \in [Client -> [Name -> (Path \X Nat) \cup {None}]]
    /\ mail \in [Client -> Seq(Line)]
    /\ hand \in [Client -> Announcement \cup {None}]
    /\ held \in [Client -> SUBSET (File \X Nat)]
    /\ lost \in [Client -> SUBSET (Key \X Nat)]
    /\ replaced \subseteq Key
    /\ fetch = [c \in Client |-> fetch[c]]
    /\ listing = [k \in Key |-> listing[k]]
    /\ \A c \in Client :
          fetch[c] = Idle \/ \E f \in File : fetch[c] \in Fetch(f)
    /\ \A k \in Key :
          listing[k] = None \/ \E f \in File : listing[k] \in Entry(f)

Listed(c, k, i) == /\ listing[k] # None
                   /\ i \in DOMAIN listing[k].seeders
                   /\ c \in ToSet(listing[k].seeders[i])

(* Whatever was listed under this key first is still listed. *)
Steady(k) == k \notin replaced

(* Whoever is listed for a piece has once hashed or verified just that       *)
(* piece, however late its report arrives and whoever else tries to upload   *)
(* under the key.  A report names no hash: where another file has taken the  *)
(* name before the report comes (client_constructs.h:248), by stop_share or  *)
(* by a race of two uploads or of create_group, nothing is claimed.          *)
ListedHolds ==
    \A c \in Client, k \in Key : Steady(k) =>
        \A i \in 0..Reach : Listed(c, k, i) =>
            <<listing[k].file, i>> \in held[c]

(* The commands of a client, and those that reach for its files. *)
Busied(c) == {m \in issued : m[1] \in {"upload", "download"} /\ m[2][1] = c}
Undisturbed(c) ==
    /\ <<"quit", c>> \notin issued
    /\ \A l, m \in Busied(c) : l = m
    /\ \A m \in Busied(c) :
          /\ m[1] = "download" => m[2][3] \in Healthy
          /\ \A f \in File \cup {None} : <<"edit", <<m[2][3], f>>>> \notin issued
          /\ \A d \in Client \ {c}, k \in Key :
                <<"download", <<d, k, m[2][3]>>>> \notin issued

(* The tracker sends others to c for a piece, or has sent a worker there     *)
(* that may ask c yet, whatever has become of the listing since.             *)
Recommended(c, k, f, i) ==
    \/ Listed(c, k, i) /\ listing[k].file = f
    \/ \E d \in Client :
          /\ fetch[d].stage = "fetching" /\ fetch[d].key = k /\ fetch[d].file = f
          /\ i \in DOMAIN fetch[d].seeders
          /\ c \in ToSet(fetch[d].seeders[i])

(* A client others are sent to for a piece it has had (ListedHolds says when *)
(* it has) serves that piece, unless it is about to: it announces a file     *)
(* before it enters it into seedingFiles, and pieces before the download is  *)
(* merged; a download that ends incomplete never serves what it has          *)
(* reported.  Beyond that, the user must have quit, gone on to another file  *)
(* or changed the file, somebody downloaded to its path, its own download    *)
(* went to a path where writing fails (download.h:494-515), or the offset of *)
(* the piece overflows (download.h:159).                                     *)
ListedServes ==
    \A c \in Client, k \in Key : Undisturbed(c) =>
        \A f \in File, i \in 0..(Reach - 1) :
            <<f, i>> \in held[c] /\ Recommended(c, k, f, i) =>
                \/ Able(c, k, f, i)
                \/ task[c] # None
                \/ fetch[c].stage \in {"fetching", "ended"}

(* Whoever has completed a download is listed for all its pieces, the report *)
(* is on its way, or it has come to nothing (download.h:538, utils.h:59):    *)
(* no report is sent again, and none that the tracker handles is ignored.    *)
CompleteIsListed ==
    \A c \in Client :
        fetch[c].stage = "complete" /\ Steady(fetch[c].key) =>
            \A i \in Indices(fetch[c].file) :
                \/ Listed(c, fetch[c].key, i)
                \/ <<"piece", fetch[c].key, i>> \in ToSet(mail[c])
                \/ <<fetch[c].key, i>> \in lost[c]
=============================================================================
