-------------------------- MODULE SwarmServingProofs --------------------------
(***************************************************************************)
(* Whoever Swarm sends others to for a piece serves it: the theorem about  *)
(* ListedServes, for any number of clients, names, paths and files.        *)
(***************************************************************************)
EXTENDS SwarmProofs

(* A client's command about a key, and the path it names. *)
Gave(kind, c, k, p) == <<kind, <<c, k, p>>>> \in issued
Named(c, k, p) == Gave("upload", c, k, p) \/ Gave("download", c, k, p)

(* Whatever a client uploads or fetches, it was told to. *)
Commanded ==
    \A c \in Client :
        /\ task[c] # None => Gave("upload", c, task[c].key, task[c].path)
        /\ fetch[c] # Idle => Gave("download", c, fetch[c].key, fetch[c].dest)

(* c serves f under k from p, or is about to. *)
Offers(c, k, p, f) ==
    /\ disk[p] = f /\ f \in File
    /\ \/ task[c] # None /\ task[c].key = k /\ task[c].path = p /\ task[c].file = f
       \/ seeding[c][k[2]] = <<p, Size[f]>>

(* The file an upload has hashed is the one at its path; a completed         *)
(* download is offered, and so is all that a client has ever had.            *)
TaskOffers(c) == task[c] # None => disk[task[c].path] = task[c].file
FetchOffers(c) ==
    fetch[c].stage = "complete" =>
        Offers(c, fetch[c].key, fetch[c].dest, fetch[c].file)
HeldOffers(c) ==
    \A f, i : <<f, i>> \in held[c] =>
        \/ \E k \in Key, p \in Path : Gave("upload", c, k, p) /\ Offers(c, k, p, f)
        \/ fetch[c] # Idle /\ fetch[c].file = f

Offering ==
    \A c \in Client : Undisturbed(c) =>
        TaskOffers(c) /\ FetchOffers(c) /\ HeldOffers(c)

(* A client is announced, listed and told to others under the keys of its    *)
(* own commands only.                                                        *)
About(c, k) == \E p \in Path : Named(c, k, p)
AboutLines(c) == {l \in Line : About(c, l[2])}
MailAbout == \A c \in Client : mail[c] \in Seq(AboutLines(c))
HandAbout == \A c \in Client : hand[c] # None => About(c, hand[c][2])
ListedAbout ==
    \A c \in Client, k \in Key : \A i : Listed(c, k, i) => About(c, k)
ToldOf(d, c, i) ==
    /\ fetch[d] # Idle /\ i \in DOMAIN fetch[d].seeders
    /\ c \in ToSet(fetch[d].seeders[i])
ToldAbout ==
    \A c, d \in Client : \A i : ToldOf(d, c, i) => About(c, fetch[d].key)

-----------------------------------------------------------------------------
(* What it means that nobody has disturbed a client. *)

LEMMA OneCommand ==
    ASSUME NEW c, Undisturbed(c), NEW k, NEW p, NEW j, NEW q,
           NEW x \in {"upload", "download"}, Gave(x, c, k, p),
           NEW y \in {"upload", "download"}, Gave(y, c, j, q)
    PROVE  x = y /\ k = j /\ p = q
<1>1. <<x, <<c, k, p>>>> \in Busied(c) /\ <<y, <<c, j, q>>>> \in Busied(c)
  BY DEF Busied, Gave
<1>2. <<x, <<c, k, p>>>> = <<y, <<c, j, q>>>>
  BY <1>1 DEF Undisturbed
<1> QED  BY <1>2

LEMMA NotBoth ==
    ASSUME NEW c, Undisturbed(c), NEW k, NEW p, Gave("upload", c, k, p),
           NEW j, NEW q, Gave("download", c, j, q)
    PROVE  FALSE
<1>1. "upload" = "download"
  BY OneCommand
<1> QED  BY <1>1

LEMMA OwnPath ==
    ASSUME NEW c, Undisturbed(c), NEW k, NEW p, Named(c, k, p)
    PROVE  /\ \A f \in File \cup {None} : <<"edit", <<p, f>>>> \notin issued
           /\ \A d \in Client \ {c}, j \in Key : ~ Gave("download", d, j, p)
<1>1. ASSUME NEW x \in {"upload", "download"}, Gave(x, c, k, p)
      PROVE  /\ \A f \in File \cup {None} : <<"edit", <<p, f>>>> \notin issued
             /\ \A d \in Client \ {c}, j \in Key : ~ Gave("download", d, j, p)
  <2>1. PICK m \in Busied(c) : m = <<x, <<c, k, p>>>>
    BY <1>1 DEF Busied, Gave
  <2>2. m[2][3] = p
    BY <2>1
  <2> QED  BY <2>1, <2>2 DEF Undisturbed, Gave
<1> QED  BY <1>1 DEF Named

(* It has written where writing works. *)
LEMMA MergeWorks ==
    ASSUME TypeOK, Commanded, NEW c \in Client, Undisturbed(c)
    PROVE  ~MergeFails(c)
<1> SUFFICES ASSUME MergeFails(c) PROVE FALSE
  OBVIOUS
<1> DEFINE k == fetch[c].key
           p == fetch[c].dest
<1>1. fetch[c].stage = "fetching" /\ Shaky(c)
  BY DEF MergeFails, AllTried
<1>2. Gave("download", c, k, p)
  BY <1>1 DEF Commanded, Idle
<1>3. ~ \E d \in Client \ {c}, j \in Key : <<"download", <<d, j, p>>>> \in issued
  BY <1>2, OwnPath DEF Named, Gave
<1>4. PICK m \in Busied(c) : m = <<"download", <<c, k, p>>>>
  BY <1>2 DEF Busied, Gave
<1>5. m[1] = "download" /\ m[2][3] = p
  BY <1>4
<1>6. p \in Healthy
  BY <1>5 DEF Undisturbed
<1> QED  BY <1>1, <1>3, <1>6 DEF Shaky

LEMMA UndisturbedBefore ==
    ASSUME Grown, NEW c, Undisturbed(c)'
    PROVE  Undisturbed(c)
<1>1. Busied(c) \subseteq Busied(c)' /\ issued \subseteq issued'
  BY DEF Grown, Busied
<1> QED  BY <1>1 DEF Undisturbed

(* The first command of an undisturbed client is the only one. *)
LEMMA FirstCommand ==
    ASSUME NEW c, Undisturbed(c)', NEW k, NEW p,
           NEW x \in {"upload", "download"}, Give(x, <<c, k, p>>)
    PROVE  /\ Gave(x, c, k, p)'
           /\ \A j, q : ~ Named(c, j, q)
<1>1. /\ <<x, <<c, k, p>>>> \notin issued
      /\ issued' = issued \cup {<<x, <<c, k, p>>>>}
  BY DEF Give
<1>2. ASSUME NEW j, NEW q, NEW y \in {"upload", "download"}, Gave(y, c, j, q)
      PROVE  FALSE
  <2>1. /\ <<x, <<c, k, p>>>> \in Busied(c)' /\ <<y, <<c, j, q>>>> \in Busied(c)'
    BY <1>1, <1>2 DEF Busied, Gave
  <2>2. <<x, <<c, k, p>>>> = <<y, <<c, j, q>>>>
    BY <2>1 DEF Undisturbed
  <2> QED  BY <1>1, <1>2, <2>2 DEF Gave
<1> QED  BY <1>1, <1>2 DEF Gave, Named

-----------------------------------------------------------------------------
(* Who changes what. *)

LEMMA DiskActions ==
    ASSUME TypeOK, [Next]_vars, NEW p \in Path, disk'[p] # disk[p]
    PROVE  \/ \E d \in Client : (Merge(d) \/ MergeFails(d)) /\ fetch[d].dest = p
           \/ \E f \in File \cup {None} : Edit(p, f)
<1>1. ASSUME NEW d \in Client, Merge(d) \/ MergeFails(d) PROVE fetch[d].dest = p
  BY <1>1 DEF Merge, MergeFails, TypeOK
<1>2. ASSUME NEW q \in Path, NEW f \in File \cup {None}, Edit(q, f) PROVE q = p
  BY <1>2 DEF Edit, TypeOK
<1>3. ASSUME NEW d \in Client, User(d) \/ Tracker(d) PROVE FALSE
  BY <1>3 DEF User, Tracker, UploadSend, UploadFails, StartDownload, StopShare,
              Quit, LoseLine, CheckUpload, CommitUpload, ListPiece, Handle
<1>6. ASSUME NEW g, Regroup(g) PROVE FALSE
  BY <1>6 DEF Regroup
<1>4. ASSUME NEW d \in Client,
             \/ UploadSeed(d) \/ FetchPiece(d) \/ NextSeeder(d)
             \/ SkipPiece(d) \/ EndIncomplete(d)
      PROVE  FALSE
  BY <1>4 DEF UploadSeed, FetchPiece, NextSeeder, SkipPiece, EndIncomplete
<1>5. ~ UNCHANGED vars
  BY DEF vars
<1> QED  BY <1>1, <1>2, <1>3, <1>4, <1>5, <1>6 DEF Next, Worker

LEMMA SeedingActions ==
    ASSUME TypeOK, [Next]_vars, NEW c \in Client,
           task'[c] # task[c] \/ seeding'[c] # seeding[c]
    PROVE  \/ UploadSeed(c) \/ Merge(c) \/ MergeFails(c) \/ Quit(c)
           \/ \E k \in Key, p \in Path : UploadSend(c, k, p) \/ UploadFails(c, k, p)
<1>1. ASSUME NEW d \in Client,
             UploadSeed(d) \/ Merge(d) \/ MergeFails(d) \/ Quit(d)
      PROVE  d = c
  BY <1>1 DEF UploadSeed, Merge, MergeFails, Quit, TypeOK
<1>2. ASSUME NEW d \in Client, NEW k \in Key, NEW p \in Path,
             UploadSend(d, k, p) \/ UploadFails(d, k, p)
      PROVE  d = c
  BY <1>2 DEF UploadSend, UploadFails, TypeOK
<1>3. ASSUME NEW d \in Client, NEW k \in Key,
             StopShare(d, k) \/ \E p \in Path : StartDownload(d, k, p)
      PROVE  FALSE
  BY <1>3 DEF StartDownload, StopShare
<1>4. ASSUME NEW d \in Client, 
             \/ Tracker(d) \/ FetchPiece(d) \/ NextSeeder(d)
             \/ SkipPiece(d) \/ EndIncomplete(d)
      PROVE  FALSE
  BY <1>4 DEF Tracker, LoseLine, CheckUpload, CommitUpload, ListPiece, Handle,
              FetchPiece, NextSeeder, SkipPiece, EndIncomplete
<1>5. ASSUME (\E p \in Path, f \in File \cup {None} : Edit(p, f))
             \/ (\E g \in Group : Regroup(g))
      PROVE  FALSE
  BY <1>5 DEF Edit, Regroup
<1>6. ~ UNCHANGED vars
  BY DEF vars
<1> QED  BY <1>1, <1>2, <1>3, <1>4, <1>5, <1>6 DEF Next, Worker, User

(* Only its own client and worker change a download. *)
LEMMA FetchActions ==
    ASSUME TypeOK, [Next]_vars, NEW c \in Client, fetch'[c] # fetch[c]
    PROVE  \/ FetchPiece(c) \/ NextSeeder(c) \/ SkipPiece(c)
           \/ EndIncomplete(c) \/ Merge(c) \/ MergeFails(c) \/ Quit(c)
           \/ \E k \in Key, p \in Path : StartDownload(c, k, p)
<1>1. ASSUME NEW d \in Client, d # c, Worker(d) \/ Quit(d)
      PROVE  fetch'[c] = fetch[c]
  BY <1>1 DEF Worker, FetchPiece, NextSeeder, SkipPiece, EndIncomplete, Merge,
              MergeFails, Quit, TypeOK
<1>2. ASSUME NEW d \in Client, d # c, NEW k, NEW p, StartDownload(d, k, p)
      PROVE  fetch'[c] = fetch[c]
  BY <1>2 DEF StartDownload, TypeOK
<1>3. ASSUME NEW d \in Client, NEW k \in Key,
             \/ \E p \in Path : UploadSend(d, k, p) \/ UploadFails(d, k, p)
             \/ StopShare(d, k)
      PROVE  fetch'[c] = fetch[c]
  BY <1>3 DEF UploadSend, UploadFails, StopShare
<1>4. ASSUME (\E p \in Path, f \in File \cup {None} : Edit(p, f))
             \/ (\E g \in Group : Regroup(g))
      PROVE  fetch'[c] = fetch[c]
  BY <1>4 DEF Edit, Regroup
<1>5. ~ UNCHANGED vars
  BY DEF vars
<1>6. ASSUME NEW d \in Client, UploadSeed(d) \/ Tracker(d)
      PROVE  fetch'[c] = fetch[c]
  BY <1>6 DEF UploadSeed, Tracker, LoseLine, CheckUpload, CommitUpload,
              ListPiece, Handle
<1> QED  BY <1>1, <1>2, <1>3, <1>4, <1>5, <1>6 DEF Next, Worker, User

(* What the worker's steps leave as it was. *)
LEMMA FetchKeeps ==
    ASSUME TypeOK, [Next]_vars, NEW c \in Client, fetch'[c] # fetch[c], ~Quit(c),
           ~ \E k \in Key, p \in Path : StartDownload(c, k, p)
    PROVE  /\ fetch[c].stage = "fetching"
           /\ fetch'[c].key = fetch[c].key
           /\ fetch'[c].dest = fetch[c].dest
           /\ fetch'[c].file = fetch[c].file
           /\ fetch'[c].seeders = fetch[c].seeders
           /\ fetch[c] # Idle /\ fetch'[c] # Idle
           /\ fetch'[c].stage = "complete" => Merge(c) \/ MergeFails(c)
<1>1. \/ FetchPiece(c) \/ NextSeeder(c) \/ SkipPiece(c)
      \/ EndIncomplete(c) \/ Merge(c) \/ MergeFails(c)
  BY FetchActions
<1>2. fetch[c].stage = "fetching"
  BY <1>1 DEF FetchPiece, NextSeeder, SkipPiece, EndIncomplete, Merge,
              MergeFails, Fetching, AllTried
<1>3. fetch[c] \in Fetch(fetch[c].file)
  BY <1>2, FetchType
<1>4. CASE FetchPiece(c) \/ NextSeeder(c) \/ SkipPiece(c)
  <2>1. /\ fetch'[c].stage = "fetching"
        /\ fetch'[c].key = fetch[c].key
        /\ fetch'[c].dest = fetch[c].dest
        /\ fetch'[c].file = fetch[c].file
        /\ fetch'[c].seeders = fetch[c].seeders
    BY <1>2, <1>3, <1>4 DEF FetchPiece, NextSeeder, SkipPiece, TypeOK, Fetch
  <2> QED  BY <1>2, <2>1 DEF Idle
<1>5. CASE EndIncomplete(c) \/ Merge(c) \/ MergeFails(c)
  <2>1. PICK to \in {"ended", "complete"} :
           /\ fetch' = [fetch EXCEPT ![c].stage = to]
           /\ to = "complete" => Merge(c) \/ MergeFails(c)
    BY <1>5 DEF EndIncomplete, Merge, MergeFails
  <2>2. fetch'[c] = [fetch[c] EXCEPT !.stage = to]
    BY <2>1 DEF TypeOK
  <2> QED  BY <1>2, <1>3, <2>1, <2>2 DEF Fetch, Idle
<1> QED  BY <1>1, <1>4, <1>5

-----------------------------------------------------------------------------
(* Commands. *)

LEMMA NextCommanded ==
    ASSUME TypeOK, Commanded, Grown, [Next]_vars
    PROVE  Commanded'
<1>0. \A x, c, k, p : Gave(x, c, k, p) => Gave(x, c, k, p)'
  BY DEF Grown, Gave
<1>1. ASSUME NEW c \in Client, task'[c] # None
      PROVE  Gave("upload", c, task[c].key, task[c].path)'
  <2>1. CASE task'[c] = task[c]
    BY <1>0, <1>1, <2>1 DEF Commanded, Gave
  <2>2. ASSUME NEW k \in Key, NEW p \in Path, UploadSend(c, k, p)
        PROVE  Gave("upload", c, task[c].key, task[c].path)'
    BY <2>2 DEF UploadSend, Type, Give, Gave, TypeOK
  <2>3. ~UploadSeed(c)
    BY <1>1 DEF UploadSeed, TypeOK
  <2>4. UNCHANGED task \/ ~(Merge(c) \/ MergeFails(c) \/ Quit(c)
                     \/ \E k \in Key, p \in Path : UploadFails(c, k, p))
    BY DEF Merge, MergeFails, Quit, UploadFails
  <2> QED  BY <2>1, <2>2, <2>3, <2>4, SeedingActions
<1>2. ASSUME NEW c \in Client, fetch'[c] # Idle
      PROVE  Gave("download", c, fetch[c].key, fetch[c].dest)'
  <2>1. CASE fetch'[c] = fetch[c]
    BY <1>0, <1>2, <2>1 DEF Commanded, Gave
  <2>2. ASSUME NEW k \in Key, NEW p \in Path, StartDownload(c, k, p)
        PROVE  Gave("download", c, fetch[c].key, fetch[c].dest)'
    BY <2>2 DEF StartDownload, Ask, Type, Give, Gave, TypeOK
  <2>3. ~Quit(c)
    BY <1>2 DEF Quit, TypeOK
  <2>4. CASE /\ fetch[c] # Idle /\ fetch'[c].key = fetch[c].key
             /\ fetch'[c].dest = fetch[c].dest
    BY <1>0, <2>4 DEF Commanded, Gave
  <2> QED  BY <2>1, <2>2, <2>3, <2>4, FetchKeeps
<1> QED  BY <1>1, <1>2 DEF Commanded

-----------------------------------------------------------------------------
(* Offers. *)

(* A client that has its one command offers what it offered, until it        *)
(* merges a download.                                                        *)
LEMMA OffersStay ==
    ASSUME TypeOK, Commanded, Grown, [Next]_vars, NEW c \in Client, Undisturbed(c)',
           NEW k \in Key, NEW p \in Path, Named(c, k, p),
           NEW f, Offers(c, k, p, f), TaskOffers(c), ~Merge(c)
    PROVE  Offers(c, k, p, f)'
<1>1. Undisturbed(c)
  BY UndisturbedBefore
<1>2. Named(c, k, p)'
  BY DEF Grown, Named, Gave
<1>3. ~Quit(c)
  BY DEF Quit, Type, Give, Undisturbed
<1>4. ASSUME NEW j \in Key, NEW q \in Path
      PROVE  ~UploadSend(c, j, q) /\ ~UploadFails(c, j, q)
  BY FirstCommand DEF UploadSend, UploadFails, Type
<1>5. disk'[p] = disk[p]
  <2>1. ASSUME NEW g \in File \cup {None} PROVE ~Edit(p, g)
    <3>1. Edit(p, g) => <<"edit", <<p, g>>>> \in issued'
      BY DEF Edit, Give
    <3>2. PICK m \in Busied(c)' : m[2] = <<c, k, p>>
      BY <1>2 DEF Busied, Named, Gave
    <3>3. <<"edit", <<m[2][3], g>>>> \notin issued'
      BY <3>2 DEF Undisturbed
    <3> QED  BY <3>1, <3>2, <3>3
  <2>2. ASSUME NEW d \in Client, Merge(d) \/ MergeFails(d), fetch[d].dest = p
        PROVE  FALSE
    <3>1. fetch[d].stage = "fetching"
      BY <2>2 DEF Merge, MergeFails, AllTried
    <3>2. fetch[d] # Idle /\ fetch[d].key \in Key
      BY <3>1, FetchType DEF Idle, Fetch
    <3>3. Gave("download", d, fetch[d].key, p)
      BY <2>2, <3>2 DEF Commanded
    <3>4. d # c
      BY <1>1, <2>2, MergeWorks
    <3> QED  BY <1>1, <3>2, <3>3, <3>4, OwnPath
  <2> QED  BY <2>1, <2>2, DiskActions
<1>6. CASE UNCHANGED <<task[c], seeding[c]>>
  BY <1>5, <1>6 DEF Offers
<1>7. CASE UploadSeed(c)
  <2>1. /\ task[c] # None /\ task[c].key \in Key
        /\ Gave("upload", c, task[c].key, task[c].path)
    BY <1>7 DEF UploadSeed, Commanded, TypeOK, Upload
  <2>2. task[c].key = k /\ task[c].path = p
    BY <1>1, <2>1, OneCommand DEF Named
  <2>3. task[c].file = f
    BY <2>1, <2>2 DEF TaskOffers, Offers
  <2>4. seeding'[c][k[2]] = <<p, Size[f]>>
    BY <1>7, <2>2, <2>3 DEF UploadSeed, TypeOK, Key
  <2> QED  BY <1>5, <2>4 DEF Offers
<1> QED  BY <1>1, <1>3, <1>4, <1>6, <1>7, SeedingActions, MergeWorks

LEMMA NextTaskOffers ==
    ASSUME TypeOK, Commanded, Grown, [Next]_vars, NEW c \in Client, Undisturbed(c)',
           TaskOffers(c)
    PROVE  TaskOffers(c)'
<1> SUFFICES ASSUME task'[c] # None
             PROVE  disk'[task'[c].path] = task'[c].file
  BY DEF TaskOffers
<1>1. ASSUME NEW k \in Key, NEW p \in Path, UploadSend(c, k, p)
      PROVE  disk'[task'[c].path] = task'[c].file
  BY <1>1 DEF UploadSend, TypeOK
<1>2. CASE task'[c] = task[c]
  <2> DEFINE k == task[c].key
             p == task[c].path
             f == task[c].file
  <2>1. k \in Key /\ p \in Path /\ f \in File
    BY <1>2 DEF TypeOK, Upload
  <2>2. Gave("upload", c, k, p) /\ disk[p] = f
    BY <1>2 DEF Commanded, TaskOffers
  <2>3. Offers(c, k, p, f)
    BY <1>2, <2>1, <2>2 DEF Offers
  <2>4. ~Merge(c)
    <3> SUFFICES ASSUME Merge(c) PROVE FALSE
      OBVIOUS
    <3>1. fetch[c].stage = "fetching"
      BY DEF Merge, AllTried
    <3>2. Gave("download", c, fetch[c].key, fetch[c].dest)
      BY <3>1 DEF Commanded, Idle
    <3>3. Undisturbed(c)
      BY UndisturbedBefore
    <3>4. Gave("upload", c, k, p)
      BY <2>2
    <3> HIDE DEF k, p
    <3> QED  BY <3>2, <3>3, <3>4, NotBoth
  <2>5. Offers(c, k, p, f)'
    BY <1>2, <2>1, <2>2, <2>3, <2>4, OffersStay DEF Named
  <2> QED  BY <1>2, <2>5 DEF Offers
<1>3. UploadSeed(c) => task'[c] = None
  BY DEF UploadSeed, TypeOK
<1>4. \/ Merge(c) \/ MergeFails(c) \/ Quit(c)
      \/ \E k \in Key, p \in Path : UploadFails(c, k, p)
      => UNCHANGED task
  BY DEF Merge, MergeFails, Quit, UploadFails
<1> QED  BY <1>1, <1>2, <1>3, <1>4, SeedingActions

(* A completed download is offered. *)
LEMMA NextFetchOffers ==
    ASSUME TypeOK, Commanded, Grown, [Next]_vars, NEW c \in Client, Undisturbed(c)',
           TaskOffers(c), FetchOffers(c)
    PROVE  FetchOffers(c)'
<1> SUFFICES ASSUME fetch'[c].stage = "complete"
             PROVE  Offers(c, fetch[c].key, fetch[c].dest, fetch[c].file)'
  BY DEF FetchOffers
<1> DEFINE k == fetch[c].key
           p == fetch[c].dest
           f == fetch[c].file
<1>1. CASE Merge(c)
  <2>1. fetch[c].stage = "fetching"
    BY <1>1 DEF Merge, AllTried
  <2>2. k \in Key /\ p \in Path /\ f \in File /\ fetch[c] \in Fetch(f)
    BY <2>1, FetchType DEF Fetch
  <2>3. fetch'[c].key = k /\ fetch'[c].dest = p /\ fetch'[c].file = f
    BY <1>1, <2>2 DEF Merge, TypeOK, Fetch
  <2>4. disk'[p] = f /\ seeding'[c][k[2]] = <<p, Size[f]>>
    BY <1>1, <2>2 DEF Merge, TypeOK, Key
  <2> QED  BY <2>2, <2>3, <2>4 DEF Offers
<1>2. CASE fetch'[c] = fetch[c] /\ ~Merge(c)
  <2>1. k \in Key /\ p \in Path /\ fetch[c] # Idle
    BY <1>2, FetchType DEF Fetch, Idle
  <2>2. Named(c, k, p) /\ Offers(c, k, p, f)
    BY <1>2, <2>1 DEF Commanded, Named, FetchOffers
  <2>3. Offers(c, k, p, f)'
    BY <1>2, <2>1, <2>2, OffersStay
  <2> QED  BY <1>2, <2>3 DEF Offers
<1>3. ASSUME NEW j \in Key, NEW q \in Path, StartDownload(c, j, q) PROVE FALSE
  BY <1>3 DEF StartDownload, TypeOK
<1>4. ~Quit(c) /\ ~MergeFails(c)
  BY UndisturbedBefore, MergeWorks DEF Quit, TypeOK, Idle
<1> QED  BY <1>1, <1>2, <1>3, <1>4, FetchKeeps

(* A download of an undisturbed client is of one file from then on. *)
LEMMA FetchStays ==
    ASSUME TypeOK, Commanded, Grown, [Next]_vars, NEW c \in Client, Undisturbed(c)',
           fetch[c] # Idle
    PROVE  fetch'[c] # Idle /\ fetch'[c].file = fetch[c].file
<1>1. ~Quit(c)
  BY DEF Quit, Type, Give, Undisturbed
<1>2. Named(c, fetch[c].key, fetch[c].dest)
  BY DEF Commanded, Named
<1>3. ASSUME NEW j \in Key, NEW q \in Path PROVE ~StartDownload(c, j, q)
  BY <1>2, FirstCommand DEF StartDownload, Ask, Type
<1> QED  BY <1>1, <1>3, FetchKeeps

LEMMA HeldActions ==
    ASSUME TypeOK, [Next]_vars, NEW c \in Client, held'[c] # held[c]
    PROVE  FetchPiece(c) \/ \E k \in Key, p \in Path : UploadSend(c, k, p)
<1>1. ASSUME NEW d \in Client,
             FetchPiece(d) \/ \E k \in Key, p \in Path : UploadSend(d, k, p)
      PROVE  d = c
  BY <1>1 DEF FetchPiece, UploadSend, TypeOK
<1>2. ASSUME NEW d \in Client, NEW k \in Key,
             \/ \E p \in Path : UploadFails(d, k, p) \/ StartDownload(d, k, p)
             \/ StopShare(d, k)
      PROVE  FALSE
  BY <1>2 DEF UploadFails, StartDownload, StopShare
<1>3. ASSUME NEW d \in Client,
             \/ UploadSeed(d) \/ NextSeeder(d) \/ SkipPiece(d)
             \/ EndIncomplete(d) \/ Merge(d) \/ MergeFails(d) \/ Quit(d)
             \/ Tracker(d)
      PROVE  FALSE
  BY <1>3 DEF UploadSeed, NextSeeder, SkipPiece, EndIncomplete, Merge,
              MergeFails, Quit, Tracker, LoseLine, CheckUpload, CommitUpload,
              ListPiece, Handle
<1>4. ASSUME (\E p \in Path, f \in File \cup {None} : Edit(p, f))
             \/ (\E g \in Group : Regroup(g))
      PROVE  FALSE
  BY <1>4 DEF Edit, Regroup
<1>5. ~ UNCHANGED vars
  BY DEF vars
<1> QED  BY <1>1, <1>2, <1>3, <1>4, <1>5 DEF Next, Worker, User

(* What an undisturbed client has had it offers, or is still downloading. *)
LEMMA NextHeldOffers ==
    ASSUME TypeOK, Commanded, Grown, [Next]_vars, NEW c \in Client, Undisturbed(c)',
           TaskOffers(c), HeldOffers(c)
    PROVE  HeldOffers(c)'
<1> DEFINE Good(f) ==
      \/ \E k \in Key, p \in Path : (Gave("upload", c, k, p) /\ Offers(c, k, p, f))'
      \/ fetch'[c] # Idle /\ fetch'[c].file = f
<1> SUFFICES ASSUME NEW f, NEW i, <<f, i>> \in held'[c] PROVE Good(f)
  BY DEF HeldOffers
<1>0. Undisturbed(c)
  BY UndisturbedBefore
<1>1. ASSUME fetch[c] # Idle, fetch[c].file = f PROVE Good(f)
  BY <1>1, FetchStays
<1>2. CASE <<f, i>> \in held[c]
  <2>1. ASSUME NEW k \in Key, NEW p \in Path,
               Gave("upload", c, k, p), Offers(c, k, p, f)
        PROVE  Good(f)
    <3>1. ~Merge(c)
      <4> SUFFICES ASSUME Merge(c) PROVE FALSE
        OBVIOUS
      <4>1. fetch[c].stage = "fetching"
        BY DEF Merge, AllTried
      <4>2. Gave("download", c, fetch[c].key, fetch[c].dest)
        BY <4>1 DEF Commanded, Idle
      <4> QED  BY <1>0, <2>1, <4>2, NotBoth
    <3>2. Offers(c, k, p, f)'
      BY <2>1, <3>1, OffersStay DEF Named
    <3>3. Gave("upload", c, k, p)'
      BY <2>1 DEF Grown, Gave
    <3> QED  BY <3>2, <3>3
  <2> QED  BY <1>1, <1>2, <2>1 DEF HeldOffers
<1>3. ASSUME NEW k \in Key, NEW p \in Path, UploadSend(c, k, p),
             <<f, i>> \notin held[c]
      PROVE  Good(f)
  <2>1. f = disk[p] /\ f \in File
    BY <1>3 DEF UploadSend, TypeOK, PiecesOf
  <2>2. Gave("upload", c, k, p)'
    BY <1>3 DEF UploadSend, Type, Give, Gave
  <2>3. /\ disk' = disk
        /\ task'[c] = [key |-> k, path |-> p, file |-> f]
    BY <1>3, <2>1 DEF UploadSend, TypeOK
  <2>4. [key |-> k, path |-> p, file |-> f] # None
    BY <2>1, NoneAssumption DEF Upload
  <2> QED  BY <2>1, <2>2, <2>3, <2>4 DEF Offers
<1>4. CASE FetchPiece(c) /\ <<f, i>> \notin held[c]
  <2>1. fetch[c] # Idle
    BY <1>4 DEF FetchPiece, Fetching, Idle
  <2>2. held'[c] = held[c] \cup {<<fetch[c].file, fetch[c].at>>}
    BY <1>4 DEF FetchPiece, TypeOK
  <2>3. f = fetch[c].file
    BY <1>4, <2>2
  <2> QED  BY <1>1, <2>1, <2>3
<1> QED  BY <1>2, <1>3, <1>4, HeldActions

-----------------------------------------------------------------------------
(* Keys. *)

LEMMA AboutStays ==
    ASSUME Grown, NEW c, NEW k, About(c, k)
    PROVE  About(c, k)'
BY DEF Grown, About, Named, Gave

LEMMA FetchAbout ==
    ASSUME TypeOK, Commanded, NEW c \in Client, fetch[c].stage = "fetching"
    PROVE  About(c, fetch[c].key)
<1>1. fetch[c] # Idle /\ fetch[c].dest \in Path
  BY FetchType DEF Idle, Fetch
<1> QED  BY <1>1 DEF Commanded, About, Named

LEMMA MailActions ==
    ASSUME TypeOK, [Next]_vars, NEW c \in Client, mail'[c] # mail[c]
    PROVE  \/ FetchPiece(c) \/ LoseLine(c) \/ CheckUpload(c) \/ ListPiece(c)
           \/ \E k \in Key, p \in Path : UploadSend(c, k, p)
<1>1. ASSUME NEW d \in Client,
             \/ FetchPiece(d) \/ LoseLine(d) \/ CheckUpload(d) \/ ListPiece(d)
             \/ \E k \in Key, p \in Path : UploadSend(d, k, p)
      PROVE  d = c
  BY <1>1 DEF FetchPiece, UploadSend, Send, LoseLine, CheckUpload, ListPiece,
              Handle, TypeOK
<1>2. ASSUME NEW d \in Client, NEW k \in Key,
             \/ \E p \in Path : UploadFails(d, k, p) \/ StartDownload(d, k, p)
             \/ StopShare(d, k)
      PROVE  FALSE
  BY <1>2 DEF UploadFails, StartDownload, StopShare
<1>3. ASSUME NEW d \in Client,
             \/ UploadSeed(d) \/ NextSeeder(d) \/ SkipPiece(d)
             \/ EndIncomplete(d) \/ Merge(d) \/ MergeFails(d)
             \/ CommitUpload(d) \/ Quit(d)
      PROVE  FALSE
  BY <1>3 DEF UploadSeed, NextSeeder, SkipPiece, EndIncomplete, Merge,
              MergeFails, CommitUpload, Quit
<1>4. ASSUME (\E p \in Path, f \in File \cup {None} : Edit(p, f))
             \/ (\E g \in Group : Regroup(g))
      PROVE  FALSE
  BY <1>4 DEF Edit, Regroup
<1>5. ~ UNCHANGED vars
  BY DEF vars
<1> QED  BY <1>1, <1>2, <1>3, <1>4, <1>5 DEF Next, Worker, Tracker, User

LEMMA NextMailAbout ==
    ASSUME TypeOK, Commanded, MailAbout, Grown, [Next]_vars
    PROVE  MailAbout'
<1> SUFFICES ASSUME NEW c \in Client PROVE mail'[c] \in Seq(AboutLines(c)')
  BY DEF MailAbout
<1>1. mail[c] \in Seq(AboutLines(c)')
  <2>1. AboutLines(c) \subseteq AboutLines(c)'
    BY AboutStays DEF AboutLines
  <2> QED  BY <2>1, SeqMonotonic DEF MailAbout
<1>2. ASSUME NEW l \in AboutLines(c)', mail'[c] = Append(mail[c], l)
      PROVE  mail'[c] \in Seq(AboutLines(c)')
  BY <1>1, <1>2
<1>3. ASSUME NEW k \in Key, NEW p \in Path, UploadSend(c, k, p)
      PROVE  mail'[c] \in Seq(AboutLines(c)')
  <2>1. PICK l : l = <<"upload", k, p, disk[p]>>
    OBVIOUS
  <2>2. l \in Line /\ l[2] = k
    BY <1>3, <2>1 DEF UploadSend, Line, Announcement
  <2>3. mail'[c] = Append(mail[c], l)
    BY <1>3, <2>1 DEF UploadSend, Send, TypeOK
  <2>4. About(c, k)'
    BY <1>3 DEF UploadSend, Type, Give, Gave, About, Named
  <2> QED  BY <1>2, <2>2, <2>3, <2>4 DEF AboutLines
<1>4. CASE FetchPiece(c)
  <2>0. fetch[c].stage = "fetching"
    BY <1>4 DEF FetchPiece, Fetching
  <2>1. PICK l : l = <<"piece", fetch[c].key, fetch[c].at>>
    OBVIOUS
  <2>2. l \in Line /\ l[2] = fetch[c].key
    BY <2>0, <2>1, FetchType, SizeType DEF Line, Fetch
  <2>3. mail'[c] = mail[c] \/ mail'[c] = Append(mail[c], l)
    BY <1>4, <2>1 DEF FetchPiece, Send, TypeOK
  <2>4. About(c, l[2])'
    BY <2>0, <2>2, FetchAbout, AboutStays
  <2>5. l \in AboutLines(c)'
    BY <2>2, <2>4 DEF AboutLines
  <2> QED  BY <1>1, <1>2, <2>3, <2>5
<1>5. CASE LoseLine(c) \/ CheckUpload(c) \/ ListPiece(c)
  <2>1. mail[c] # <<>> /\ mail'[c] = Tail(mail[c])
    BY <1>5 DEF LoseLine, CheckUpload, ListPiece, Handle, TypeOK
  <2> QED  BY <1>1, <2>1
<1> QED  BY <1>1, <1>3, <1>4, <1>5, MailActions

LEMMA HeadAbout ==
    ASSUME MailAbout, NEW c \in Client, NEW kind, Handle(c, kind)
    PROVE  About(c, Head(mail[c])[2])
<1>1. Head(mail[c]) \in AboutLines(c)
  BY DEF MailAbout, Handle
<1> QED  BY <1>1 DEF AboutLines

LEMMA NextHandAbout ==
    ASSUME TypeOK, MailAbout, HandAbout, Grown, [Next]_vars
    PROVE  HandAbout'
<1> SUFFICES ASSUME NEW c \in Client, hand'[c] # None, NEW k, k = hand'[c][2]
             PROVE  About(c, k)'
  BY DEF HandAbout
<1>1. CASE hand'[c] = hand[c]
  <2>1. About(c, k)
    BY <1>1 DEF HandAbout
  <2> QED  BY <2>1, AboutStays
<1>2. CASE CheckUpload(c) /\ hand'[c] = Head(mail[c])
  <2>1. About(c, k)
    BY <1>2, HeadAbout DEF CheckUpload
  <2> QED  BY <2>1, AboutStays
<1> QED  BY <1>1, <1>2, HandSteps

LEMMA NextListedAbout ==
    ASSUME TypeOK, MailAbout, HandAbout, ListedAbout, Grown, [Next]_vars
    PROVE  ListedAbout'
<1> SUFFICES ASSUME NEW c \in Client, NEW k \in Key, NEW i, Listed(c, k, i)'
             PROVE  About(c, k)'
  BY DEF ListedAbout
<1>1. CASE Listed(c, k, i)
  BY <1>1, AboutStays DEF ListedAbout
<1>2. ASSUME NEW d \in Client, CommitUpload(d), ~Listed(c, k, i)
      PROVE  About(c, k)'
  <2> DEFINE q == hand[d][2]
             new == [file |-> hand[d][4], uploader |-> d,
                     seeders |-> [j \in Indices(hand[d][4]) |-> <<d>>]]
  <2>1. hand[d] # None /\ listing' = [listing EXCEPT ![q] = new]
    BY <1>2 DEF CommitUpload
  <2>2. k = q /\ listing'[k] = new
    <3> HIDE DEF new, q
    <3> QED  BY <1>2, <2>1 DEF Listed, TypeOK
  <2>3. c = d
    <3>1. i \in Indices(hand[d][4]) /\ c \in ToSet(<<d>>)
      BY <2>2 DEF Listed
    <3> QED  BY <3>1 DEF ToSet
  <2>4. About(c, k)
    BY <2>1, <2>2, <2>3 DEF HandAbout
  <2> QED  BY <2>4, AboutStays
<1>3. ASSUME NEW d \in Client, ListPiece(d), ~Listed(c, k, i)
      PROVE  About(c, k)'
  <2>1. PICK q : q = Head(mail[d])[2]
    OBVIOUS
  <2>2. PICK j : j = Head(mail[d])[3]
    OBVIOUS
  <2>3. k = q /\ listing'[k] # listing[k]
    BY <1>3, <2>1, ListPieceAdds DEF Listed
  <2>4. /\ listing[k] # None
        /\ DOMAIN listing'[k].seeders = DOMAIN listing[k].seeders
        /\ ToSet(listing'[k].seeders[j]) = ToSet(listing[k].seeders[j]) \cup {d}
        /\ \A n \in DOMAIN listing[k].seeders \ {j} :
              listing'[k].seeders[n] = listing[k].seeders[n]
    BY <1>3, <2>1, <2>2, <2>3, ListPieceAdds
  <2>5. c = d
    BY <1>3, <2>4 DEF Listed
  <2>6. About(c, k)
    BY <1>3, <2>1, <2>3, <2>5, HeadAbout DEF ListPiece
  <2> QED  BY <2>6, AboutStays
<1>4. ASSUME NEW d \in Client, NEW q \in Key, StopShare(d, q)
      PROVE  Listed(c, k, i)
  BY <1>4 DEF StopShare, Listed, TypeOK
<1>5. ASSUME NEW g \in Group, Regroup(g) PROVE Listed(c, k, i)
  BY <1>5 DEF Regroup, Listed
<1>6. CASE UNCHANGED listing
  BY <1>1, <1>6 DEF Listed
<1> QED  BY <1>1, <1>2, <1>3, <1>4, <1>5, <1>6, ListingSteps

LEMMA NextToldAbout ==
    ASSUME TypeOK, ListedAbout, ToldAbout, Grown, [Next]_vars
    PROVE  ToldAbout'
<1> SUFFICES ASSUME NEW c \in Client, NEW d \in Client, NEW i, ToldOf(d, c, i)',
                    NEW k, k = fetch'[d].key
             PROVE  About(c, k)'
  BY DEF ToldAbout
<1>1. CASE /\ fetch[d] # Idle /\ fetch'[d].key = fetch[d].key
           /\ fetch'[d].seeders = fetch[d].seeders
  <2>1. About(c, k)
    BY <1>1 DEF ToldOf, ToldAbout
  <2> QED  BY <2>1, AboutStays
<1>2. ASSUME NEW j \in Key, NEW p \in Path, StartDownload(d, j, p)
      PROVE  About(c, k)'
  <2>1. /\ j = k /\ fetch'[d].seeders = listing[j].seeders
        /\ listing[j] # None
    BY <1>2 DEF StartDownload, TypeOK
  <2>2. Listed(c, j, i)
    BY <2>1 DEF ToldOf, Listed
  <2>3. About(c, k)
    BY <2>1, <2>2 DEF ListedAbout
  <2> QED  BY <2>3, AboutStays
<1>3. ~Quit(d)
  BY DEF Quit, ToldOf, TypeOK
<1>4. CASE fetch'[d] = fetch[d]
  BY <1>1, <1>4 DEF ToldOf
<1> QED  BY <1>1, <1>2, <1>3, <1>4, FetchKeeps

-----------------------------------------------------------------------------

AboutInv == MailAbout /\ HandAbout /\ ListedAbout /\ ToldAbout
ServingInv == TypeOK /\ Commanded /\ AboutInv /\ Offering

LEMMA InitServing == Init => ServingInv
<1> SUFFICES ASSUME Init PROVE ServingInv
  OBVIOUS
<1>1. TypeOK
  BY InitTypes
<1>2. Commanded /\ Offering
  BY DEF Init, Commanded, Offering, TaskOffers, FetchOffers, HeldOffers, Idle
<1>3. AboutInv
  BY DEF Init, AboutInv, MailAbout, HandAbout, ListedAbout, ToldAbout, ToldOf,
         Listed, Idle
<1> QED  BY <1>1, <1>2, <1>3 DEF ServingInv

LEMMA NextServing == ServingInv /\ [Next]_vars => ServingInv'
<1> SUFFICES ASSUME ServingInv, [Next]_vars PROVE ServingInv'
  OBVIOUS
<1>1. TypeOK /\ TypeOK' /\ Grown
  BY NextTypes, NextGrown DEF ServingInv
<1>2. Commanded'
  BY <1>1, NextCommanded DEF ServingInv
<1>3. ASSUME NEW c \in Client, Undisturbed(c)'
      PROVE  (TaskOffers(c) /\ FetchOffers(c) /\ HeldOffers(c))'
  <2>1. TaskOffers(c) /\ FetchOffers(c) /\ HeldOffers(c)
    BY <1>1, <1>3, UndisturbedBefore DEF ServingInv, Offering
  <2> QED  BY <1>1, <1>3, <2>1, NextTaskOffers, NextFetchOffers, NextHeldOffers
           DEF ServingInv
<1>4. AboutInv'
  BY <1>1, NextMailAbout, NextHandAbout, NextListedAbout, NextToldAbout
     DEF ServingInv, AboutInv
<1> QED  BY <1>1, <1>2, <1>3, <1>4 DEF ServingInv, Offering

(* What is offered is served, once the upload is entered. *)
LEMMA OfferServes ==
    ASSUME TypeOK, NEW c \in Client, NEW k \in Key, NEW p \in Path,
           NEW f \in File, Offers(c, k, p, f),
           NEW i \in 0..(Reach - 1), i \in Indices(f)
    PROVE  Able(c, k, f, i) \/ task[c] # None
<1> SUFFICES ASSUME task[c] = None PROVE Able(c, k, f, i)
  OBVIOUS
<1>1. seeding[c][k[2]] = <<p, Size[f]>> /\ disk[p] = f
  BY DEF Offers
<1>2. Size[f] \in Nat /\ i \in Nat /\ i < Size[f]
  BY SizeType DEF Indices
<1>3. <<p, Size[f]>> # None
  BY <1>2, NoneAssumption
<1>4. Offset(i) = i
  BY SwarmAssumption DEF Offset
<1>5. Serve(c, k[2], i) = {<<f, i>>} \cap PiecesOf(f)
  BY <1>1, <1>2, <1>3, <1>4 DEF Serve
<1>6. <<f, i>> \in PiecesOf(f)
  BY DEF PiecesOf
<1> QED  BY <1>5, <1>6 DEF Able

(* ListedServes for any number of clients, keys, paths and files: a client   *)
(* others are sent to, by the tracker or by what a worker was told, serves   *)
(* what it has had or is about to, unless its user quit, went on to another  *)
(* file or the file at its path was changed (servePieceToClient reads        *)
(* whatever the path has now), or it was downloaded to where writing fails.  *)
THEOREM ListedServe == Spec => []ListedServes
<1>1. ServingInv => ListedServes
  <2> SUFFICES ASSUME ServingInv, NEW c \in Client, NEW k \in Key, Undisturbed(c),
                      NEW f \in File, NEW i \in 0..(Reach - 1),
                      <<f, i>> \in held[c], Recommended(c, k, f, i),
                      task[c] = None, fetch[c].stage \notin {"fetching", "ended"}
               PROVE  Able(c, k, f, i)
    BY DEF ListedServes
  <2>0. TypeOK
    BY DEF ServingInv
  <2>1. About(c, k) /\ i \in Indices(f)
    <3>1. CASE Listed(c, k, i) /\ listing[k].file = f
      BY <2>0, <3>1, ListingType DEF ServingInv, AboutInv, ListedAbout, Listed, Entry
    <3>2. ASSUME NEW d \in Client, fetch[d].stage = "fetching", fetch[d].key = k,
                 fetch[d].file = f, i \in DOMAIN fetch[d].seeders,
                 c \in ToSet(fetch[d].seeders[i])
          PROVE  About(c, k) /\ i \in Indices(f)
      <4>1. fetch[d] # Idle /\ DOMAIN fetch[d].seeders = Indices(f)
        BY <2>0, <3>2, FetchType DEF Idle, Fetch
      <4>2. About(c, k)
        BY <3>2, <4>1 DEF ServingInv, AboutInv, ToldAbout, ToldOf
      <4> QED  BY <3>2, <4>1, <4>2
    <3> QED  BY <3>1, <3>2 DEF Recommended
  <2>2. PICK p \in Path : Named(c, k, p)
    BY <2>1 DEF About
  <2>3. ASSUME NEW j \in Key, NEW q \in Path, Named(c, j, q), Offers(c, j, q, f)
        PROVE  Able(c, k, f, i)
    <3>1. j = k
      BY <2>2, <2>3, OneCommand DEF Named
    <3> QED  BY <2>0, <2>1, <2>3, <3>1, OfferServes
  <2>4. ASSUME fetch[c] # Idle, fetch[c].file = f PROVE Able(c, k, f, i)
    <3>1. /\ fetch[c].stage = "complete"
          /\ fetch[c].key \in Key /\ fetch[c].dest \in Path
      BY <2>0, <2>4 DEF TypeOK, Fetch
    <3>2. Gave("download", c, fetch[c].key, fetch[c].dest)
      BY <2>4 DEF ServingInv, Commanded
    <3>3. Offers(c, fetch[c].key, fetch[c].dest, f)
      BY <2>4, <3>1 DEF ServingInv, Offering, FetchOffers
    <3> QED  BY <2>3, <3>1, <3>2, <3>3 DEF Named
  <2> QED  BY <2>3, <2>4 DEF ServingInv, Offering, HeldOffers, Named
<1> QED  BY InitServing, NextServing, <1>1, PTL DEF Spec

=============================================================================
