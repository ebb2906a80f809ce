# A verification of mini-BitTorrent

TLA+ models of the tracker and the client, TLC runs over small instances of
them, and TLAPS proofs for instances of any size. Names follow the code:
`CreateUser` is the `create_user` branch of `handleConnections`, and
`PROJECT.json` ("map") gives the lines of every definition.

## The system

| component | where | state | operations | model |
|---|---|---|---|---|
| tracker directory | `tracker.cpp`, `constructs.h`, `fileops.h` (tracker half), `handlePieceCompleted` in `client_constructs.h` | the maps `users`, `groups`, `loggedInUsers`, `groupOwners`; `Group` and `FileInfo` objects behind pointers; per thread `clientName` | the commands of `handleConnections`, one thread per client | `Tracker` |
| tracker synchronisation | `synchronize.h` | `isPrimary`, `activeTrackers`, `pendingMessages` under `queueLock`, the listening socket's queue | `syncMessageHelper`/`sendSyncInfo` (called by handlers), `syncHandler` + `processSyncMessage`, `healthChecker`, `messageFlusher`, each a thread | `Directory`, `TrackerSync`, `LaggingCopy` |
| client downloads | `download.h`, `client_constructs.h` | `activeDownloads`, `seedingFiles`, `.part` files and destinations | `handleFileMetadata`, one `downloadWorker` per download, `mergePiecesToFile`, `notifyTrackerPieceCompleted` | `Download`, `Transfer`, `Swarm` |
| client piece server | `download.h` | `seedingFiles` under `seed_mutex` (shared with downloads and uploads) | `servePieceToClient` | `Swarm` |
| upload on the client | `fileops.h`, `sha.h` | `seedingFiles` | `handleUploadFileClient` | `Swarm` |
| client connection | `client.cpp`, `client.h` | `trackerIndex`, `sockfd`, `trackerAlive`, the remembered credentials, `tracker_mutex` | main loop, `heartbeat` thread, `autoRelogin`, reports of download threads | `ClientLink` |
| line framing | `utils.h`, reply loop of `client.cpp` | bytes of a stream | `readLine`, `readLineFromSocket` | `ClientLink` (towards the tracker) |
| listings, tracker console | `tracker.cpp`, `fileops.h`, `client.h` | none of their own | read-only | - |

Clients call trackers over one TCP connection each; trackers send each other
one message per connection on port + 1000, which also serves as the health
port; clients fetch pieces from each other on port + 2000. Threads of a process
share its maps.

What is hard here:

* **check, then write, without a lock.** No command handler takes `dsLock`.
  Look-up, decision and write of one thread interleave with those of others,
  and a `Group*` held across them can be that of a group since replaced.
* **replication after the fact.** A handler changes the directory, then
  announces it. Announcements of two threads cross; the receiver silently drops
  what it cannot place; a failed send goes to a queue that later sends overtake.
* **failure.** Trackers keep nothing on disk, never step down from primary, and
  tracker 0 is primary whenever it starts. Clients only move forward through
  the list of trackers.
* **one socket, three threads.** The heartbeat closes the connection that the
  main loop selects on, `trackerIndex` moves without the lock it is read under,
  and the number of the closed socket is given out again.
* **shared names.** `activeDownloads` and `seedingFiles` are keyed by bare file
  name, so two downloads of a name meet in one entry, and a report of a piece
  names an index of whatever the tracker lists under the name by then.
* **listed is not served.** A client is listed for a piece as soon as it has it,
  and serves it when the whole file is merged; it stays listed when it leaves.
* **writes that nobody checks.** A part is truncated before it is written, no write
  to a part or to the merged file is looked at, and a part is unlinked whatever
  became of its copy.
* **peers that are away, silent, stale or killed while they send.**

Per component, correctness means: *directory* - memberships and listings are
earned, nothing is listed twice or lost by a race, every change is announced;
*synchronisation* - a replica is a delayed copy, somebody is primary and only
one, nothing is invented; *downloads* - only verified bytes are written, what is
reported is on disk, "completed" means whole, workers end, sockets are closed;
*several clients* - who is listed for a piece has it and, in time, serves it, and
no report the tracker handles is ignored; *connection and framing* - a command
the user typed is handled at most once, in order and never joined to another,
the login precedes it on the next tracker and goes to no stranger, and no
tracker of the list is passed over.

## Modules

**`Tracker`** models one primary tracker. A handler is `recv -> commit -> sync`:
its checks (`CreateUser`, `JoinGroup`, ...), its write through the pointers it
captured (`...Commit`), and its call of `syncMessageHelper` (`Sync`, which adds
to `outbox`). `Group` and `FileInfo` objects are elements of `GroupObj` and
`FileObj` with their fields as functions (`gUsers`, `gRequests`, `gFiles`,
`fSeeders`), so that a replaced object stays reachable through `gptr`/`fptr`.
Two handlers, `login` and `create_group`, have no check that another step could
invalidate visibly and take one step. Failing checks and read-only commands
stutter. `asked`, `outbox` and `seen` (who was a member when a thread checked)
are histories. In a real process two unsynchronised writes to one
`unordered_map` may also corrupt it; the model takes every single map operation
as atomic, so a failure it shows needs no such corruption.

**`Directory`** is the same directory as a value, with `Serve` (what the
handlers do with it) and `Replay` (what `processSyncMessage` does with the
corresponding message). **`TrackerSync`** replicates it over `N` trackers:
`Command` (a handler, atomic here), `Announce` and `SendSync` (the loop of
`syncMessageHelper` with one connection per tracker), `HandleSync`
(`syncHandler`), `Probe`/`EndRound` (a round of `healthChecker`, one connection
at a time), `FlushBegin`/`FlushOne`/ `FlushEnd` (`messageFlusher`, holding
`queueLock` throughout, which blocks a sender that has to queue),
`Crash`/`Start`, and `Connect`/`Quit` of clients that walk down the list. An
attempt to connect to a tracker that is down fails; one to a running tracker
succeeds, but between the pairs in `Faulty` it may also fail (no descriptor, the
timeout of two seconds, a sync port that could not be bound): a probe then takes
the tracker for dead, a message is queued, or, when there is no socket to send
it with, lost. A re-login after a move is a `login` command like any other.
**`LaggingCopy`** is the abstract promise of replication - every write to the
original is made to every copy once, in the same order and with the same effect,
some time later - and `TrackerSync` implements it (`IsLaggingCopy`) for one
client and trackers that run together from the start and always reach each
other. The original and the copies are the durable parts of the directories
(`Durable`: all but who is logged in and who seeds what); what a copy is late by
is what is on its connections and what the client's thread has still to send to
it (`Unsent`).

**`Download`** has one worker per `FILE_META` line. Its steps are the stretches
between two look-ups in `activeDownloads`: fetch the entry (`Lookup`), per piece
and seeder connect and read (`Refused`, `Header`, `Stalled`, `Truncated`,
`ReadAll`), compare the hash and look the destination up by name again
(`HashMatch`, `HashMismatch`), create or truncate the part (`OpenPart`,
`OpenPartFails`), write it (`WritePart`), mark it (`Record`), tell the tracker
(`Notify`); then the merge, piece by piece (`OpenFinal`, `CopyPiece`, `Unlink`,
`Seed`). On a disk that is not `Healthy` any open, read, write or unlink may
fail, and the code does not look; on every disk a worker may meet a part that a
namesake has truncated and not written. So a copy may also be short
(`CopyShort`), go to the wrong place because an earlier one was (`CopyBehind`),
or fail for good (`CopyFails`, `CopyNothing`); `out` is where the stream stands.
A part that is unlinked while a worker has it open takes the worker's write
along (`linked`). Peers are an environment: `Answers` says what each may do. A
piece is named by file and index; its hash is assumed to identify it.
**`Transfer`** is the abstract promise of a download - pieces are only gained,
only held ones are reported, a file is offered and called complete when all are
there - and `Download` implements it (`IsTransfer`) for the downloads that share
neither name nor destination with another and have a healthy disk, read off by
`StageOf`, `HeldBy` and `ToldOf`.

**`Swarm`** puts several clients and the tracker's listing together, at the
grain of what one is listed for and what it serves: the two steps of an upload
(`UploadSend`, `UploadSeed`), lines on their way to the tracker (`mail`), which
come to nothing (`LoseLine`) or are handled (`ListPiece`, and `CheckUpload` with
`CommitUpload`, between which other uploads, `StopShare` and a second
`create_group`, `Regroup`, may change the listing), downloads that know the
seeders of the moment they started (`StartDownload`), the look-up and the 32-bit
offset of the piece server (`Serve`, `Offset`), a worker that tries the seeders
in turn and may leave any of them for a failure of its own (`FetchPiece`,
`NextSeeder`, `SkipPiece`, `EndIncomplete`), a merge that works or does not
(`Merge`, and `MergeFails` where the path is not `Healthy` or somebody else
downloads to it), users that quit and come back, and files that change on disk.
Three histories: `held` is what a client has hashed or verified, `lost` the
reports of its download that came to nothing, `replaced` the keys whose entry
was taken off or replaced. The steps of one exchange and of one merge, which
`Download` has in detail, are one step here.

**`ClientLink`** is the connection of one client: the main loop (`Dial` ...
`NextTracker`) with `select`, the console and the walk down the list, the
`heartbeat` thread in three steps under `tracker_mutex`, the report of a
download thread in two (`ReportBegin`, `ReportWrite`), between which main, which
does not take the lock to close, may close the socket, the reuse of a descriptor
number by another thread's socket (`TakeNumber`), what TCP does to writes on a
connection whose other end is gone, trackers that crash and start, and
`readLine` at their end (`ReadLine`, `ReadEnd`). A line is two halves of which
the second has the newline; a read may hold several lines, the login that has no
newline, or end between the halves of one, as a read of 1024 bytes does. What
follows the first newline of a read is dropped. Whether the tracker accepts a
login is no part of the model: it depends on the accounts that tracker knows.
`mutex` says who holds the lock; `sent`, `handled`, `owed` and `astray` are
histories.

**`TrackerProofs`**, **`DownloadProofs`**, **`TrackerSyncProofs`** with
**`ReplicationProofs`**, **`SwarmProofs`** with **`SwarmServingProofs`** and
**`ClientLinkProofs`** with **`ClientLinesProofs`** hold the theorems; the second
of a pair builds on the invariants of the first. **`MCTracker`**, **`MCDownload`**,
**`MCTrackerSync`**, **`MCSwarm`** and **`MCClientLink`** hold the instances.

How they fit together: `TrackerSync` uses `Directory`, which restates the
handlers of `Tracker` as functions; `Swarm` takes from `Download` that an
exchange gives the verified piece or nothing, and from `ClientLink` that the
lines of a connection are handled in their order and once at most, any of them
possibly not at all or cut (what is left of a cut line begins with an argument
where a command is expected, so it comes to nothing like a lost one); `Download`
takes nothing from the others, its peers may do anything.

Operators introduced as "Mutant" are plausible defects of the definition that
follows them; replacing it by one of them makes the run that `PROJECT.json`
("mutants") names fail, so its properties depend on the code being as it is.

## Runs

All bounds are in the `.cfg` files. Deadlock is not checked anywhere, because
the systems may really stop: trackers die, clients quit, downloads end, and the
supply of commands, heap objects and crashes that bounds a run is used up.

| run | bound | shows |
|---|---|---|
| `TrackerSharing` | 2 threads, 2 users, 1 group id, 2 group objects, 1 file object of 1 piece, at most 7 announced changes (`Bounded`) | `TypeOK`, `MembersAdmitted`, `FilesOfMembers`, `SeedersDistinct`, `ChangesAnnounced` while a thread may hold an object that has been replaced and members leave and return |
| `DownloadSeparate` | 3 downloads: one of 2 pieces that shares nothing, offered stale, flaky and honest peers; two of one name, from a dying peer and to a disk where anything may fail; the first and the last are not both made (`TwoAtATime`) | all promises of `Download` (`TypeOK`, `VerifiedParts`, `NotifiedHeld`, `AloneIsWhole`, `SeedsWhole`, `NoSocketLeak`), that it implements `Transfer` (`IsTransfer`), and progress (`WorkerEnds`, `GoodSeederSuffices`) |
| `SyncSteady` | 2 trackers, 1 client, 7 commands | `TypeOK`, `CatchingUp`, and that it implements `LaggingCopy` (`IsLaggingCopy`) |
| `SyncFaults` | 2 trackers with two existing groups, 1 client, 4 commands (a user logs in, asks to join, lets itself in, uploads), any attempt to connect may fail, tracker 0 may crash once | `Vouched` |
| `SyncElection` | 3 trackers, one crash each, one started first, attempts to reach trackers 1 and 2 may fail | `SolePrimary`, `SomePrimary` |
| `SyncLateStart` | 2 trackers, 2 clients, 2 registrations, late start | `AccountsCatchUp` |
| `Swarm` | 3 clients, 1 key, files of 2 and 3 pieces, `Reach` 2, at most 4 commands (`FourCommands`); `a` may quit, stop sharing and lose its file, `c` may be unable to reach the tracker, uploads another file of that name and downloads to a path where writing fails, the group may be created again | `TypeOK`, `ListedHolds`, `ListedServes`, `CompleteIsListed` |
| `ClientLink` | 2 trackers, the second without a health port, 2 lines typed or reported (`MaxLines`), 1 read that ends inside a line (`MaxCuts`), 1 crash | `TypeOK`, `ProbesItsOwn`, `LoginsArrive`, `GreetedFirst`, `ReloginHeard`, `HandledInOrder`, `ExitTried`, `QuietSurvives`, `MovesOn` |

Why these bounds are enough to be interesting: two threads are what every race
needs (one holds a pointer, the other changes what it points from); two objects
per id make a stale pointer different from the current one; two pieces separate
first and last, and a third one lies beyond what an `int` offset reaches; seven
commands are one more than it takes to found a group, leave it, ask to return
and be accepted; two trackers are what moving on and replication need, three
what an election needs; two lines, one of them a login that is repeated on the next
tracker, and one read that ends inside a line are what it takes for lines of two
threads to be joined in a read, and for a read to drop the first half of a line
and a later one to handle the second; four commands are what two uploads, a
download and one disturbance take. Larger numbers of threads,
objects, users, pieces, clients, trackers and lines are covered by the theorems
for the properties listed there. Symmetry is used in runs that check safety only.

Several properties state conditions. They are where the code breaks the promise:

* `NoSocketLeak` leaves out peers that send wrong bytes (a hash mismatch returns
  without closing the socket) and disks where part files cannot be created.
* `WorkerEnds` leaves out peers that close the connection in the middle of a
  piece: the worker reads end-of-file for ever.
* `AloneIsWhole`, `SeedsWhole`, `NotifiedHeld` and `IsTransfer` are about downloads that
  share neither name nor destination with another (`Alone`) and have a disk where
  everything can be opened and written (`Healthy`), the first two also about those
  that were told of all pieces (`FullyListed`). An empty piece list, a destination
  that cannot be opened and a second download of the name all end in "Download
  completed"; a write that fails unnoticed loses the piece with its part, and what
  is left is seeded.
* `VerifiedParts` lets a part be empty while a worker has it open, and says of merged
  files only those of downloads that are alone: a namesake's merge may come
  between truncation and write, copy nothing, and shift all that follows.
* `FilesOfMembers` is about the moment of the check: the uploader may leave before the
  file is added, and it stays listed then.
* `ChangesAnnounced` is about the directory without `loggedInUsers`: a disconnect takes
  an entry out and tells nobody.
* `CatchingUp` and `IsLaggingCopy` are about one client and trackers that run
  together from the start and always reach each other: with two clients, threads
  announce in any order and a replica drops what it cannot place yet; a tracker
  that was away has missed what went to another. `IsLaggingCopy` is the stronger of
  the two about steps: an invariant would let a replica jump ahead or move and
  come back.
* `SolePrimary` is about a tracker 0 that every attempt to connect reaches
  (`ZeroReached`). One attempt that fails, by a timeout or for want of a
  descriptor, makes a second primary for good.
* `ListedHolds` and `CompleteIsListed` are about keys whose entry was never taken off or
  replaced (`Steady`): a report names an index of whatever is listed under the
  name when it arrives, and an upload between whose check and entry another one
  was entered replaces that. `CompleteIsListed` also excepts reports that came to
  nothing (`lost`), because none is sent twice.
* `ListedServes` leaves out users who quit, use the name again or change the file,
  files that another client's download of the name writes to, downloads to a path
  where writing may fail (`Undisturbed`), downloads that end incomplete, and pieces
  at or beyond `Reach`.
* `LoginsArrive` is about logins and the logout: other commands, uploads and reports may
  be written to a peer's socket that was given the number, reports although they
  are written under the lock.
* `MovesOn` excepts `Deaf`: the heartbeat closes the descriptor while the main loop
  is in `select`, which then sees nothing of it until the user types a line.
* `ReloginHeard` and `HandledInOrder` except what the automatic login's missing
  newline does to the line behind it, and what reads that hold more than a line
  cost: lines are lost, and one whose first half was dropped is handled as if its
  second half were a line. None is repeated, reordered or joined to another.

Four runs show what the code does against what its comments or README say
(their quotes are in `PROJECT.json`, "findings"):

| run | disagreement |
|---|---|
| `TrackerAccountsRace` | user names are not unique: both registrations pass the check, the later one wins |
| `DownloadSameName` | "Download completed" without the file (`CompleteIsWhole`, which is `AloneIsWhole` without its conditions) |
| `SyncTwoPrimaries` | two primaries after a restart of tracker 0 |
| `SyncPieces` | the secondary lists a file without its pieces and seeders, although both trackers run from the start |

`upload_file` and `stop_share` check and write in two steps just as
`create_user` does. `SyncLateStart` shows what remains true when a tracker starts
late, which the repository's README does not promise to work: accounts do
arrive, because registrations commute and the queue loses nothing (as long as
there is a descriptor to connect with).

## Fairness

`Download.FairSpec`: weak fairness for every worker. It is a thread that only
makes calls that return (connect, send and receive have 10-second timeouts, and
the disk answers, if only with an error). Nothing is assumed of peers.

`TrackerSync.FairSpec`: weak fairness for the steps of the health checker, the
flusher, the sync thread and a connection thread that is announcing. They are
threads in endless loops with `sleep(5)` or a blocking accept. Nothing is assumed
of `Start`, `Crash`, `Connect`, `Quit` and `Command`. `AccountsCatchUp` therefore
has the premise that all trackers eventually run for good.

`ClientLink.FairSpec`: weak fairness for the heartbeat, a loop with `sleep(1)`,
and for the write of a report that has begun, which holds the lock, and strong
fairness for the main loop's steps, because it has to get a mutex that the
heartbeat takes and frees again and again. A `select` on the closed descriptor
(`Deaf`) is left out of it, and nothing is assumed of the user, the download
threads and the trackers.

`Swarm` claims no liveness: its downloads end or not with what users do.

## Proofs

*Tracker.* `Inv == TypeOK /\ HeldByThreads /\ HeapConsistent /\ MembersAdmitted` is
inductive (`Invariance`). The membership property alone is not: a thread between
check and write carries a promise. `HeldByThreads` says what it holds - the group
object has the id the command named, even if the map has moved on; an uploader
was seen among the members of *that object*; a client about to be appended to a
seeder list is not in it, nor is the file listed under another name.
`HeapConsistent` says requests were made, unallocated objects are empty, and a
listed file exists and is listed once. The proof has one step per action, and
most actions disturb one conjunct. `SeedersStayDistinct` is proved from it: a
seeder list is only appended to by the thread of the client in question, which is
the reason why checking and writing separately is harmless there and nowhere
else. `FilesComeFromMembers` and `ChangesAreAnnounced` are about single steps: each
action is shown to change only what its thread's captured pointers and arguments
name, so that the message the thread now owes is about just that.

*Download.* For `VerifiedParts`, between hash check and write the bytes are
fixed in the worker, and the entry looked up by name belongs to a job of that
name; a part that is not verified is one that some worker has open
(`StillWriting`). The other results are about the downloads that are `Alone` on
a healthy disk, one at a time and whatever the others do. Their invariant says
for every position of the worker which pieces are on disk: before the merge,
every recorded piece is a part; in it, the stream stands at the copy position,
pieces below it are in the destination and the others still parts; after it, all
are in the destination. Since nobody else writes its parts, none it copies is
short (`NeverShort`), and `CopyPiece` is the only copy it takes (`OnlyCopies`).
The same invariant shows that each step of such a worker is a step of `Transfer`
or leaves its state as it is (`DownloadIsTransfer`). `NoSocketLeak`
(`SocketsAreClosed`) is proved with an invariant of its own: a worker whose
peers send no wrong bytes is never at the hash comparison with anything but the
expected piece, so it never takes a return that forgets `close`.

*TrackerSync.* `Inv == Typed /\ Coupled /\ Bare /\ Genuine` says which threads
exist on a tracker that is up, that one that is down holds nothing, and that
queues, connections and announcing threads carry commands that were served.
`ZeroRules` adds that no `activeTrackers` list or probing round of another
tracker has missed tracker 0 while that one has not been down, given
`ZeroReached`. `NothingInvented` adds that everything in a directory is backed
by a served command or by what stood at the start; it assumes that at most
founded groups stood there (`Fresh`).

*Replication.* `ReplicasCatchUp` and `ReplicasAreCopies` have the hypotheses of
`CatchingUp`: `Session` has one element, and `Together` (all trackers are
started, none crashes, and no attempt to connect fails). `Undivided` is what
follows from them at all times - nobody has anything pending, tracker 0 is the
primary and serves the client, whose name it knows, and the loop of a sender
names no tracker twice. Under it the queue of a replica and the message its
sender still holds are one sequence, `Due`, and every step (`NextMoves`) has the
primary serve a command and appends that to `Due` of every replica, or has one
replica replay the head of its `Due`, or changes neither. What remains is about
the directory as a value. `ReplaySame` says that `Replay` does to a directory
what `Serve` did to one with the same durable part, provided the handler's
checks passed; `ReplayAlike`, that `Replay` looks at the durable part only.
These two give the refinement. `CatchingUp` also needs the laws of `FoldLeft` on
messages (`ReplayedNone`, `ReplayedLast`, `ReplayedFirst`). The library's
induction principle takes an operator and cannot be applied, so they go back to
the well-foundedness of `<` on the naturals (`SetInduction`, an induction over
the members of a set).

*Swarm.* `Inv == TypeOK /\ MailTrue /\ HandTrue /\ FetchTrue /\ Merged /\
ListedTrue /\ Reported`. `ListedTrue` alone is not inductive, since a report
names no hash: what makes it true on arrival is that the listing still shows the
file the download started from, which `MailTrue` and `FetchTrue` carry from
start to report as long as the key is `Steady`; `HandTrue` says the same of an
upload between check and entry. `held` only grows (`Grown`), and so does `lost`
while a download lasts (`ToldStays`), so what others do cannot unmake it.
`ListedServes` (`ListedServe`) needs more. Whatever a client uploads or fetches,
it was told to (`Commanded`), so that a client given one command at most is at
nothing else. Of such a client, `Offering` says that the file an upload hashed
is still the one at its path, that what it announces it offers (by an entry in
`seedingFiles` that leads to the file, or an upload about to make one), and that
what it has held it offers or is downloading. `MailAbout`, `HandAbout`,
`ListedAbout` and `ToldAbout` say that nobody is sent to it under a key it was
given no command for. Its merge works, because its path is healthy and nobody
else downloads to it (`MergeWorks`).

*ClientLink.* `Inv` couples the flag with the socket: `trackerAlive` holds
exactly while the socket is open, and then it is the current tracker's; `main`
has given a connection up before it moves on. From it follow that the heartbeat
probes the client's own tracker although `trackerIndex` moves without the lock,
that main, when it has looked at the flag, writes a login to the connection's
own descriptor (the heartbeat cannot come between, for main holds the lock, and
main itself does not), that trackers are dialled in turn and once each, that a
re-login is the first of the user's lines, and that nothing but a report can be
a second write to a dead connection. `LinesInv` describes the halves of lines at
the trackers' end: what a tracker has not read is the end of what it was sent,
what it handled fits in front of it in order (`Fits`), and each handled line is
the end of one sent line with the login in front of it at most (`Shape`;
`Paired` says that what is sent are both halves of each line, and so where the
first newline of a read can be) (`Lines`); a connection carries one automatic
login at most (`OneLogin`), and one that is in front of all other lines was,
once read, handled or swallowed by the line it was joined to (`Heard`).
`LinesInOrder` and `LoginIsHeard` follow, wherever reads end.

The assumptions on constants are those named in the modules (`...Assumption`)
and nothing else: commands are well formed, `None` is different from every value
it stands beside, sizes are in range. TLC evaluates them in the runs.

Every invariant, action property and refinement that the passing runs check is
proved. Only model-checked are the liveness properties: `WorkerEnds`,
`GoodSeederSuffices`, `SomePrimary`, `AccountsCatchUp` and `MovesOn`, because
liveness under fairness is outside what TLAPS does here.

## Not modelled, and why

* Reading commands, listings, the console, help: no state changes.
* The client's reading of answers, among them a `FILE_META` line that comes in one
  read with another answer: `Download` starts from a line that was read.
* Hashing and file reading on upload: a piece is identified by its hash.
* The trackers' answers to logins, and a mistyped password that the client
  remembers: the models show that the automatic login reaches the handler, which
  refuses a user it does not know.
* Accepting and parsing a peer's request: taken to work.
* Data races on the containers themselves, `activeTrackers[0]` included (the
  handlers hold no lock): the outcome is undefined, and a model that allows
  anything says nothing. The models show what is wrong already when each access
  is atomic.
* The flusher's unlock of a mutex it does not hold (`synchronize.h:351`), undefined
  for the same reason, and sync messages of more than the 1023 bytes of a read.
* A third tracker together with commands: `pendingMessages` names no destination, so
  a message for one may go to another; it is listed as a hazard.
* Loss of a message between a successful `connect` and `write` of trackers: a sender
  that dies there is covered by `Crash` before `SendSync`.

Modelled, but with no property of its own: the owner of any group may accept
requests in every group; a group id that does not exist crashes the tracker
(`UnknownGroup`); entries of `loggedInUsers` that one of two sessions removes,
and that a replica keeps with arguments exchanged - no handler reads them, only
the console.

## Left to do

1. Replication with three trackers and the undirected `pendingMessages`.
2. The client's framing of answers.
3. Senders and flusher around `queueLock`.
4. `calculateFilePieces` against a definition of cutting a file into pieces.
5. An abstract specification of the client's connection: what the trackers handle
   as one sequence of the lines the user typed.
