------------------------------ MODULE SwarmProofs ------------------------------
(***************************************************************************)
(* Theorems about Swarm for any number of clients, groups, names and       *)
(* files.                                                                  *)
(***************************************************************************)
EXTENDS Swarm, TLAPS, SequenceTheorems

(* The lines that may be on their way from c: an upload of what c has        *)
(* hashed, a report of a piece that c has of the file listed there, unless   *)
(* that file was taken off.                                                  *)
Trusted(c) ==
    {l \in Line :
        /\ l[1] = "upload" => PiecesOf(l[4]) \subseteq held[c]
        /\ l[1] = "piece" /\ Steady(l[2]) =>
              /\ listing[l[2]] # None
              /\ <<listing[l[2]].file, l[3]>> \in held[c]
              /\ l[3] \in Indices(listing[l[2]].file)}

MailTrue == \A c \in Client : mail[c] \in Seq(Trusted(c))

(* And of the upload the tracker is entering for c. *)
HandTrue ==
    \A c \in Client : hand[c] # None => PiecesOf(hand[c][4]) \subseteq held[c]

(* A worker is after the file that is listed. *)
FetchTrue ==
    \A c \in Client : fetch[c] # Idle /\ Steady(fetch[c].key) =>
        /\ listing[fetch[c].key] # None
        /\ listing[fetch[c].key].file = fetch[c].file

ListedTrue ==
    \A c \in Client, k \in Key : Steady(k) =>
        \A i : Listed(c, k, i) => <<listing[k].file, i>> \in held[c]

(* What a worker has got is listed, or its report is on its way or lost. *)
Told(c, k, i) ==
    \/ Listed(c, k, i)
    \/ \E n \in 1..Len(mail[c]) : mail[c][n] = <<"piece", k, i>>
    \/ <<k, i>> \in lost[c]

Reported ==
    \A c \in Client : fetch[c] # Idle /\ Steady(fetch[c].key) =>
        \A i \in fetch[c].have : Told(c, fetch[c].key, i)

Merged == \A c \in Client : fetch[c].stage = "complete" => HasAll(c)

-----------------------------------------------------------------------------
(* Types. *)

LEMMA SizeType == \A f \in File : /\ Size[f] \in Nat \ {0}
                                  /\ \A i \in Indices(f) : i \in Nat
BY SwarmAssumption DEF Indices

LEMMA InitTypes == Init => TypeOK
BY SwarmAssumption DEF Init, TypeOK, Idle

(* What the parts of a state contribute to its types. *)
LEMMA FetchType ==
    ASSUME TypeOK, NEW c \in Client, fetch[c].stage # "idle"
    PROVE  /\ fetch[c].file \in File
           /\ fetch[c] \in Fetch(fetch[c].file)
BY DEF TypeOK, Idle, Fetch

LEMMA ListingType ==
    ASSUME TypeOK, NEW k \in Key, listing[k] # None
    PROVE  /\ listing[k].file \in File
           /\ listing[k] \in Entry(listing[k].file)
BY DEF TypeOK, Entry

LEMMA FetchStep ==
    ASSUME TypeOK, NEW c \in Client, NEW f \in File, NEW x \in Fetch(f),
           fetch' = [fetch EXCEPT ![c] = x]
    PROVE  /\ fetch' = [d \in Client |-> fetch'[d]]
           /\ \A d \in Client :
                 fetch'[d] = Idle \/ \E g \in File : fetch'[d] \in Fetch(g)
BY DEF TypeOK

LEMMA SendType ==
    ASSUME TypeOK, NEW c \in Client, NEW l \in Line, Send(c, l)
    PROVE  mail' \in [Client -> Seq(Line)]
BY DEF TypeOK, Send

LEMMA HandleType ==
    ASSUME TypeOK, NEW c \in Client, NEW kind, Handle(c, kind)
    PROVE  /\ mail' \in [Client -> Seq(Line)]
           /\ Head(mail[c]) \in Line /\ Head(mail[c])[1] = kind
BY DEF TypeOK, Handle

LEMMA FetchUpdate ==
    ASSUME NEW f, NEW x \in Fetch(f), NEW h \in SUBSET Indices(f),
           NEW a \in 0..Size[f], NEW n \in Nat \ {0}
    PROVE  /\ [x EXCEPT !.have = h, !.at = a, !.nth = n] \in Fetch(f)
           /\ [x EXCEPT !.at = a, !.nth = n] \in Fetch(f)
BY DEF Fetch

LEMMA ListingStep ==
    ASSUME TypeOK, NEW k \in Key, NEW f \in File, NEW x \in Entry(f),
           listing' = [listing EXCEPT ![k] = x]
    PROVE  /\ listing' = [q \in Key |-> listing'[q]]
           /\ \A q \in Key :
                 listing'[q] = None \/ \E g \in File : listing'[q] \in Entry(g)
BY DEF TypeOK

LEMMA NextTypes == TypeOK /\ [Next]_vars => TypeOK'
<1> SUFFICES ASSUME TypeOK, [Next]_vars PROVE TypeOK'
  OBVIOUS
<1> USE SwarmAssumption
<1>1. ASSUME NEW c \in Client, NEW k \in Key, NEW p \in Path,
             UploadSend(c, k, p)
      PROVE  TypeOK'
  <2> DEFINE f == disk[p]
  <2>1. <<"upload", k, p, f>> \in Line /\ f \in File
    BY <1>1 DEF UploadSend, Line, Announcement
  <2>2. mail' \in [Client -> Seq(Line)]
    BY <1>1, <2>1, SendType DEF UploadSend
  <2>3. PiecesOf(f) \subseteq File \X Nat
    BY <2>1, SizeType DEF PiecesOf
  <2> QED  BY <1>1, <2>1, <2>2, <2>3
           DEF UploadSend, Type, Give, TypeOK, Upload
<1>2. ASSUME NEW c \in Client, NEW k \in Key, NEW p \in Path,
             UploadFails(c, k, p)
      PROVE  TypeOK'
  BY <1>2 DEF UploadFails, Type, Give, TypeOK
<1>3. ASSUME NEW c \in Client, UploadSeed(c) PROVE TypeOK'
  <2>1. task[c].path \in Path /\ Size[task[c].file] \in Nat
    BY <1>3, SizeType DEF UploadSeed, TypeOK, Upload
  <2> QED  BY <1>3, <2>1 DEF UploadSeed, TypeOK
<1>4. ASSUME NEW c \in Client, CommitUpload(c) PROVE TypeOK'
  <2> DEFINE l == hand[c]
             new == [file |-> l[4], uploader |-> c,
                     seeders |-> [i \in Indices(l[4]) |-> <<c>>]]
  <2>1. l[2] \in Key /\ l[4] \in File
    BY <1>4 DEF CommitUpload, TypeOK, Announcement
  <2>2. new \in Entry(l[4])
    BY <2>1 DEF Entry
  <2>3. listing' = [listing EXCEPT ![l[2]] = new]
    BY <1>4 DEF CommitUpload
  <2>4. replaced' \subseteq Key /\ hand' \in [Client -> Announcement \cup {None}]
    BY <1>4, <2>1 DEF CommitUpload, TypeOK
  <2> HIDE DEF new, l
  <2> QED  BY <1>4, <2>1, <2>2, <2>3, <2>4, ListingStep
           DEF CommitUpload, TypeOK
<1>b. ASSUME NEW c \in Client, CheckUpload(c) PROVE TypeOK'
  <2> DEFINE l == Head(mail[c])
  <2>1. /\ mail' \in [Client -> Seq(Line)]
        /\ l \in Line /\ l[1] = "upload"
    BY <1>b, HandleType DEF CheckUpload
  <2>2. l \in Announcement
    BY <2>1 DEF Line
  <2>3. UNCHANGED hand \/ hand' = [hand EXCEPT ![c] = l]
    BY <1>b DEF CheckUpload
  <2> HIDE DEF l
  <2> QED  BY <1>b, <2>1, <2>2, <2>3 DEF CheckUpload, Handle, TypeOK
<1>c. ASSUME NEW c \in Client, LoseLine(c) PROVE TypeOK'
  <2>1. CASE Handle(c, "upload") /\ UNCHANGED <<hand, listing, lost>>
    BY <2>1, HandleType DEF Handle, TypeOK
  <2>2. CASE /\ Handle(c, "piece") /\ UNCHANGED <<hand, listing>>
             /\ lost' = [lost EXCEPT ![c] =
                            @ \cup {<<Head(mail[c])[2], Head(mail[c])[3]>>}]
    <3>1. mail' \in [Client -> Seq(Line)]
      BY <2>2, HandleType
    <3>2. Head(mail[c])[2] \in Key /\ Head(mail[c])[3] \in Nat
      BY <2>2, HandleType DEF Line, Announcement
    <3>3. lost' \in [Client -> SUBSET (Key \X Nat)]
      BY <2>2, <3>2 DEF TypeOK
    <3> QED  BY <2>2, <3>1, <3>3 DEF Handle, TypeOK
  <2> QED  BY <1>c, <2>1, <2>2 DEF LoseLine
<1>5. ASSUME NEW c \in Client, ListPiece(c) PROVE TypeOK'
  <2> DEFINE k == Head(mail[c])[2]
             i == Head(mail[c])[3]
             new == [listing[k] EXCEPT !.seeders[i] = Append(@, c)]
  <2>1. mail' \in [Client -> Seq(Line)] /\ k \in Key
    BY <1>5, HandleType DEF ListPiece, Line, Announcement
  <2>2. ASSUME listing[k] # None, i \in DOMAIN listing[k].seeders
        PROVE  listing[k].file \in File /\ new \in Entry(listing[k].file)
    <3> DEFINE f == listing[k].file
               old == listing[k].seeders
               lists == [old EXCEPT ![i] = Append(@, c)]
    <3>1. f \in File /\ listing[k] \in Entry(f)
      BY <2>1, <2>2, ListingType
    <3>2. old \in [Indices(f) -> Seq(Client)]
      <4> HIDE DEF f
      <4> QED  BY <3>1 DEF Entry
    <3>3. lists \in [Indices(f) -> Seq(Client)]
      <4>1. i \in DOMAIN old
        BY <2>2
      <4> HIDE DEF f, old
      <4> QED  BY <3>2, <4>1
    <3>4. new = [listing[k] EXCEPT !.seeders = lists]
      OBVIOUS
    <3> HIDE DEF f, lists, new
    <3>5. new \in Entry(f)
      BY <3>1, <3>3, <3>4 DEF Entry
    <3> QED  BY <3>1, <3>5 DEF f
  <2>3. \/ UNCHANGED listing
        \/ /\ listing[k] # None /\ i \in DOMAIN listing[k].seeders
           /\ listing' = [listing EXCEPT ![k] = new]
    BY <1>5 DEF ListPiece
  <2> HIDE DEF new, k, i
  <2> QED  BY <1>5, <2>1, <2>2, <2>3, ListingStep DEF ListPiece, Handle, TypeOK
<1>6. ASSUME NEW c \in Client, NEW k \in Key, StopShare(c, k) PROVE TypeOK'
  BY <1>6 DEF StopShare, Ask, Type, Give, TypeOK
<1>7. ASSUME NEW c \in Client, NEW k \in Key, NEW p \in Path,
             StartDownload(c, k, p)
      PROVE  TypeOK'
  <2> DEFINE f == listing[k].file
             new == [stage |-> "fetching", key |-> k, dest |-> p,
                     file |-> f, seeders |-> listing[k].seeders,
                     have |-> {}, at |-> 0, nth |-> 1]
  <2>1. f \in File /\ listing[k].seeders \in [Indices(f) -> Seq(Client)]
    BY <1>7, ListingType DEF StartDownload, Entry
  <2>2. new \in Fetch(f)
    BY <2>1, SizeType DEF Fetch
  <2>3. fetch' = [fetch EXCEPT ![c] = new]
    BY <1>7 DEF StartDownload
  <2> HIDE DEF new, f
  <2> QED  BY <1>7, <2>1, <2>2, <2>3, FetchStep
           DEF StartDownload, Ask, Type, Give, TypeOK
<1>a. ASSUME NEW c \in Client, Fetching(c)
      PROVE  /\ fetch[c].file \in File
             /\ fetch[c] \in Fetch(fetch[c].file)
             /\ fetch[c].at \in Indices(fetch[c].file)
             /\ fetch[c].at + 1 \in 0..Size[fetch[c].file]
  <2>1. fetch[c].file \in File /\ fetch[c] \in Fetch(fetch[c].file)
    BY <1>a, FetchType DEF Fetching
  <2> QED  BY <1>a, <2>1, SizeType DEF Fetching, Fetch, Indices
<1>8. ASSUME NEW c \in Client, FetchPiece(c) PROVE TypeOK'
  <2> DEFINE f == fetch[c].file
             new == [fetch[c] EXCEPT !.have = @ \cup {fetch[c].at},
                                     !.at = @ + 1, !.nth = 1]
  <2>1. /\ f \in File /\ fetch[c] \in Fetch(f)
        /\ fetch[c].at \in Indices(f) /\ fetch[c].at + 1 \in 0..Size[f]
    BY <1>8, <1>a DEF FetchPiece
  <2>2. new \in Fetch(f)
    <3> DEFINE h == fetch[c].have \cup {fetch[c].at}
               a == fetch[c].at + 1
    <3>1. h \in SUBSET Indices(f) /\ a \in 0..Size[f] /\ 1 \in Nat \ {0}
      BY <2>1 DEF Fetch
    <3>2. new = [fetch[c] EXCEPT !.have = h, !.at = a, !.nth = 1]
      OBVIOUS
    <3> HIDE DEF f, h, a, new
    <3> QED  BY <2>1, <3>1, <3>2, FetchUpdate
  <2>3. <<"piece", fetch[c].key, fetch[c].at>> \in Line
    BY <2>1, SizeType DEF Fetch, Line
  <2>4. mail' \in [Client -> Seq(Line)]
    BY <1>8, <2>3, SendType DEF FetchPiece, TypeOK
  <2>5. fetch' = [fetch EXCEPT ![c] = new]
    BY <1>8 DEF FetchPiece
  <2>6. held' \in [Client -> SUBSET (File \X Nat)]
    BY <1>8, <2>1, SizeType DEF FetchPiece, TypeOK
  <2>7. lost' \in [Client -> SUBSET (Key \X Nat)]
    <3>1. fetch[c].key \in Key /\ fetch[c].at \in Nat
      BY <2>1, SizeType DEF Fetch
    <3>2. \/ UNCHANGED lost
          \/ lost' = [lost EXCEPT ![c] = @ \cup {<<fetch[c].key, fetch[c].at>>}]
      BY <1>8 DEF FetchPiece
    <3>3. lost \in [Client -> SUBSET (Key \X Nat)]
      BY DEF TypeOK
    <3>4. <<fetch[c].key, fetch[c].at>> \in Key \X Nat
      BY <3>1
    <3> QED  BY <3>2, <3>3, <3>4
  <2> HIDE DEF new, f
  <2> QED  BY <1>8, <2>1, <2>2, <2>4, <2>5, <2>6, <2>7, FetchStep
           DEF FetchPiece, TypeOK
<1>9. ASSUME NEW c \in Client, NextSeeder(c) PROVE TypeOK'
  <2> DEFINE f == fetch[c].file
             new == [fetch[c] EXCEPT !.nth = @ + 1]
  <2>1. f \in File /\ fetch[c] \in Fetch(f)
    BY <1>9, <1>a DEF NextSeeder
  <2>2. new \in Fetch(f)
    <3>1. fetch[c].nth + 1 \in Nat \ {0}
      BY <2>1 DEF Fetch
    <3> HIDE DEF f
    <3> QED  BY <2>1, <3>1 DEF Fetch
  <2>3. fetch' = [fetch EXCEPT ![c] = new]
    BY <1>9 DEF NextSeeder
  <2> HIDE DEF new, f
  <2> QED  BY <1>9, <2>1, <2>2, <2>3, FetchStep DEF NextSeeder, TypeOK
<1>10. ASSUME NEW c \in Client, SkipPiece(c) PROVE TypeOK'
  <2> DEFINE f == fetch[c].file
             new == [fetch[c] EXCEPT !.at = @ + 1, !.nth = 1]
  <2>1. /\ f \in File /\ fetch[c] \in Fetch(f)
        /\ fetch[c].at + 1 \in 0..Size[f]
    BY <1>10, <1>a DEF SkipPiece
  <2>2. new \in Fetch(f)
    <3> DEFINE h == fetch[c].have
               a == fetch[c].at + 1
    <3>1. h \in SUBSET Indices(f) /\ a \in 0..Size[f] /\ 1 \in Nat \ {0}
      BY <2>1 DEF Fetch
    <3>2. new = [fetch[c] EXCEPT !.at = a, !.nth = 1]
      OBVIOUS
    <3> HIDE DEF f, h, a, new
    <3> QED  BY <2>1, <3>1, <3>2, FetchUpdate
  <2>3. fetch' = [fetch EXCEPT ![c] = new]
    BY <1>10 DEF SkipPiece
  <2> HIDE DEF new, f
  <2> QED  BY <1>10, <2>1, <2>2, <2>3, FetchStep DEF SkipPiece, TypeOK
<1>11. ASSUME NEW c \in Client, NEW to \in {"ended", "complete"},
              fetch[c].stage = "fetching",
              fetch' = [fetch EXCEPT ![c].stage = to]
       PROVE  /\ fetch' = [d \in Client |-> fetch'[d]]
              /\ \A d \in Client :
                    fetch'[d] = Idle \/ \E g \in File : fetch'[d] \in Fetch(g)
  <2> DEFINE f == fetch[c].file
             new == [fetch[c] EXCEPT !.stage = to]
  <2>1. f \in File /\ fetch[c] \in Fetch(f)
    BY <1>11, FetchType
  <2>2. new \in Fetch(f)
    BY <2>1 DEF Fetch
  <2>3. fetch' = [fetch EXCEPT ![c] = new]
    BY <1>11
  <2> HIDE DEF new, f
  <2> QED  BY <2>1, <2>2, <2>3, FetchStep
<1>12. ASSUME NEW c \in Client, EndIncomplete(c) PROVE TypeOK'
  BY <1>11, <1>12 DEF EndIncomplete, AllTried, TypeOK
<1>13. ASSUME NEW c \in Client, Merge(c) PROVE TypeOK'
  <2>1. /\ fetch[c].file \in File /\ fetch[c].dest \in Path
        /\ fetch[c].key \in Key /\ Size[fetch[c].file] \in Nat
    BY <1>13, FetchType, SizeType DEF Merge, AllTried, Fetch
  <2> QED  BY <1>11, <1>13, <2>1 DEF Merge, AllTried, TypeOK
<1>d. ASSUME NEW c \in Client, MergeFails(c) PROVE TypeOK'
  <2>1. /\ fetch[c].file \in File /\ fetch[c].dest \in Path
        /\ fetch[c].key \in Key /\ 0..Size[fetch[c].file] \subseteq Nat
    BY <1>d, FetchType, SizeType DEF MergeFails, AllTried, Fetch
  <2>2. disk' \in [Path -> File \cup {None}]
    BY <1>d, <2>1 DEF MergeFails, TypeOK
  <2>3. seeding' \in [Client -> [Name -> (Path \X Nat) \cup {None}]]
    <3>1. ASSUME NEW m \in 0..Size[fetch[c].file],
                 seeding' = [seeding EXCEPT ![c][fetch[c].key[2]] =
                                <<fetch[c].dest, m>>]
          PROVE  seeding' \in [Client -> [Name -> (Path \X Nat) \cup {None}]]
      <4>1. m \in Nat
        BY <2>1, <3>1
      <4> QED  BY <2>1, <3>1, <4>1 DEF TypeOK
    <3> QED  BY <1>d, <3>1 DEF MergeFails, TypeOK
  <2> QED  BY <1>11, <1>d, <2>1, <2>2, <2>3 DEF MergeFails, AllTried, TypeOK
<1>e. ASSUME NEW g \in Group, Regroup(g) PROVE TypeOK'
  BY <1>e DEF Regroup, Give, TypeOK
<1>14. ASSUME NEW c \in Client, Quit(c) PROVE TypeOK'
  BY <1>14 DEF Quit, Type, Give, TypeOK
<1>15. ASSUME NEW p \in Path, NEW f \in File \cup {None}, Edit(p, f)
       PROVE  TypeOK'
  BY <1>15 DEF Edit, Give, TypeOK
<1>16. CASE UNCHANGED vars
  BY <1>16 DEF vars, TypeOK
<1> QED  BY <1>1, <1>2, <1>3, <1>4, <1>5, <1>6, <1>7, <1>8, <1>9, <1>10,
            <1>12, <1>13, <1>14, <1>15, <1>16, <1>b, <1>c, <1>d, <1>e
         DEF Next, Worker, Tracker, User

(* Every variable keeps its type, whatever the commands. *)
THEOREM TypeCorrect == Spec => []TypeOK
BY InitTypes, NextTypes, PTL DEF Spec

-----------------------------------------------------------------------------
(* What never goes back. *)

(* Commands and held pieces are only added, and under a key where nothing is *)
(* replaced, a file stays and so do its seeders.                             *)
Grown ==
    /\ issued \subseteq issued' /\ replaced \subseteq replaced'
    /\ \A c \in Client : held[c] \subseteq held'[c]
    /\ \A k \in Key : Steady(k)' /\ listing[k] # None =>
          /\ listing'[k] # None /\ listing'[k].file = listing[k].file
          /\ \A c \in Client : \A i : Listed(c, k, i) => Listed(c, k, i)'

LEMMA AppendSet ==
    ASSUME NEW q \in Seq(Client), NEW x \in Client
    PROVE  ToSet(Append(q, x)) = ToSet(q) \cup {x}
<1>1. /\ Len(Append(q, x)) = Len(q) + 1 /\ Len(q) \in Nat
      /\ \A i \in 1..Len(q) : Append(q, x)[i] = q[i]
      /\ Append(q, x)[Len(q) + 1] = x
      /\ DOMAIN Append(q, x) = 1..(Len(q) + 1) /\ DOMAIN q = 1..Len(q)
  OBVIOUS
<1> QED  BY <1>1 DEF ToSet

(* The one step that adds a seeder. *)
LEMMA ListPieceAdds ==
    ASSUME TypeOK, NEW c \in Client, ListPiece(c),
           NEW k, k = Head(mail[c])[2], NEW i, i = Head(mail[c])[3]
    PROVE  /\ k \in Key /\ Head(mail[c])[1] = "piece"
           /\ \A q \in Key \ {k} : listing'[q] = listing[q]
           /\ \/ listing'[k] = listing[k]
              \/ /\ listing[k] # None /\ i \in DOMAIN listing[k].seeders
                 /\ listing'[k] # None
                 /\ listing'[k].file = listing[k].file
                 /\ DOMAIN listing'[k].seeders = DOMAIN listing[k].seeders
                 /\ ToSet(listing'[k].seeders[i])
                      = ToSet(listing[k].seeders[i]) \cup {c}
                 /\ \A j \in DOMAIN listing[k].seeders \ {i} :
                       listing'[k].seeders[j] = listing[k].seeders[j]
           /\ listing[k] # None /\ i \in DOMAIN listing[k].seeders =>
                Listed(c, k, i)'
<1>1. k \in Key /\ Head(mail[c])[1] = "piece"
  BY HandleType DEF ListPiece, Line, Announcement
<1>2. CASE UNCHANGED listing
  <2>1. listing[k] # None /\ i \in DOMAIN listing[k].seeders =>
           c \in ToSet(listing[k].seeders[i])
    <3> SUFFICES ASSUME listing[k] # None, i \in DOMAIN listing[k].seeders,
                        c \notin ToSet(listing[k].seeders[i])
                 PROVE  FALSE
      OBVIOUS
    <3>1. listing' = [listing EXCEPT ![k].seeders[i] = Append(@, c)]
      BY DEF ListPiece
    <3>2. listing[k] \in Entry(listing[k].file)
      BY <1>1, ListingType
    <3>3. listing[k].seeders[i] \in Seq(Client)
      BY <3>2 DEF Entry
    <3>4. listing'[k].seeders[i] = Append(listing[k].seeders[i], c)
      BY <1>1, <3>1, <3>2 DEF Entry, TypeOK
    <3>5. ToSet(Append(listing[k].seeders[i], c))
            = ToSet(listing[k].seeders[i]) \cup {c}
      BY <3>3, AppendSet
    <3>6. listing'[k].seeders[i] = listing[k].seeders[i]
      BY <1>2
    <3> QED  BY <3>4, <3>5, <3>6
  <2> QED  BY <1>1, <1>2, <2>1 DEF Listed
<1>3. CASE /\ listing[k] # None /\ i \in DOMAIN listing[k].seeders
           /\ listing' = [listing EXCEPT ![k].seeders[i] = Append(@, c)]
  <2> DEFINE old == listing[k].seeders
             new == [old EXCEPT ![i] = Append(@, c)]
  <2>1. /\ listing[k].file \in File
        /\ listing[k] \in Entry(listing[k].file)
    BY <1>1, <1>3, ListingType
  <2>2. old \in [Indices(listing[k].file) -> Seq(Client)]
    BY <2>1 DEF Entry
  <2>3. listing'[k] = [listing[k] EXCEPT !.seeders = new]
    BY <1>1, <1>3 DEF TypeOK
  <2>4. \A q \in Key \ {k} : listing'[q] = listing[q]
    BY <1>1, <1>3 DEF TypeOK
  <2>5. /\ new[i] = Append(old[i], c)
        /\ \A j \in DOMAIN old \ {i} : new[j] = old[j]
        /\ DOMAIN new = DOMAIN old
    BY <1>3, <2>2
  <2>6. listing'[k].seeders = new /\ listing'[k].file = listing[k].file
    <3> HIDE DEF new
    <3> QED  BY <2>1, <2>3 DEF Entry
  <2>7. ToSet(new[i]) = ToSet(old[i]) \cup {c}
    <3>1. old[i] \in Seq(Client)
      BY <1>3, <2>2
    <3> HIDE DEF old, new
    <3> QED  BY <2>5, <3>1, AppendSet
  <2>8. listing'[k] # None
    <3>1. new \in [Indices(listing[k].file) -> Seq(Client)]
      <4>1. i \in DOMAIN old
        BY <1>3
      <4> HIDE DEF old
      <4> QED  BY <2>2, <4>1
    <3>2. listing'[k] \in Entry(listing[k].file)
      <4> HIDE DEF new
      <4> QED  BY <2>1, <2>3, <3>1 DEF Entry
    <3> QED  BY <2>1, <3>2, NoneAssumption
  <2> HIDE DEF old, new
  <2>9. old = listing[k].seeders
    BY DEF old
  <2>10. Listed(c, k, i)'
    BY <1>3, <2>5, <2>6, <2>7, <2>8, <2>9 DEF Listed
  <2>11. ToSet(listing'[k].seeders[i]) = ToSet(listing[k].seeders[i]) \cup {c}
    BY <2>6, <2>7, <2>9
  <2>12. /\ DOMAIN listing'[k].seeders = DOMAIN listing[k].seeders
         /\ \A j \in DOMAIN listing[k].seeders \ {i} :
               listing'[k].seeders[j] = listing[k].seeders[j]
    BY <2>5, <2>6, <2>9
  <2> QED  BY <1>1, <1>3, <2>4, <2>6, <2>8, <2>10, <2>11, <2>12
<1> QED  BY <1>2, <1>3 DEF ListPiece

LEMMA NextGrown == TypeOK /\ [Next]_vars => Grown
<1> SUFFICES ASSUME TypeOK, [Next]_vars PROVE Grown
  OBVIOUS
<1>1. ASSUME issued \subseteq issued', UNCHANGED <<listing, held, replaced>>
      PROVE  Grown
  BY <1>1 DEF Grown, Listed
<1>2. ASSUME UNCHANGED <<issued, held>>, replaced \subseteq replaced',
             \A k \in Key : Steady(k)' /\ listing[k] # None =>
                /\ listing'[k] # None /\ listing'[k].file = listing[k].file
                /\ \A c \in Client : \A i : Listed(c, k, i) => Listed(c, k, i)'
      PROVE  Grown
  BY <1>2 DEF Grown
<1>3. ASSUME NEW c \in Client, NEW k \in Key, NEW p \in Path,
             UploadSend(c, k, p)
      PROVE  Grown
  BY <1>3 DEF UploadSend, Type, Give, Grown, Listed, TypeOK
<1>4. ASSUME NEW c \in Client, CommitUpload(c) PROVE Grown
  <2>1. hand[c][2] \in Key
    BY <1>4 DEF CommitUpload, TypeOK, Announcement
  <2>2. PICK x : listing' = [listing EXCEPT ![hand[c][2]] = x]
    BY <1>4 DEF CommitUpload
  <2>3. UNCHANGED <<issued, held>> /\ replaced \subseteq replaced'
    BY <1>4 DEF CommitUpload
  <2>4. \A k \in Key : Steady(k)' /\ listing[k] # None => listing'[k] = listing[k]
    BY <1>4, <2>1, <2>2 DEF CommitUpload, Steady, TypeOK
  <2> QED  BY <1>2, <2>3, <2>4 DEF Listed
<1>5. ASSUME NEW c \in Client, ListPiece(c) PROVE Grown
  <2>1. UNCHANGED <<issued, held, replaced>>
    BY <1>5 DEF ListPiece, Handle
  <2> QED  BY <1>2, <1>5, <2>1, ListPieceAdds DEF Listed
<1>6. ASSUME NEW c \in Client, NEW k \in Key, StopShare(c, k) PROVE Grown
  <2>1. issued \subseteq issued' /\ replaced' = replaced \cup {k}
    BY <1>6 DEF StopShare, Ask, Type, Give
  <2>2. ~Steady(k)'
    BY <2>1 DEF Steady
  <2>3. \A q \in Key \ {k} : listing'[q] = listing[q]
    BY <1>6 DEF StopShare, TypeOK
  <2>4. UNCHANGED held
    BY <1>6 DEF StopShare
  <2> QED  BY <2>1, <2>2, <2>3, <2>4 DEF Grown, Listed
<1>12. ASSUME NEW g \in Group, Regroup(g) PROVE Grown
  <2>1. issued \subseteq issued' /\ replaced \subseteq replaced'
    BY <1>12 DEF Regroup, Give
  <2>2. \A k \in Key : Steady(k)' => listing'[k] = listing[k]
    BY <1>12 DEF Regroup, Steady
  <2>3. UNCHANGED held
    BY <1>12 DEF Regroup
  <2> QED  BY <2>1, <2>2, <2>3 DEF Grown, Listed
<1>7. ASSUME NEW c \in Client, FetchPiece(c) PROVE Grown
  BY <1>7 DEF FetchPiece, Grown, Listed, TypeOK
<1>8. ASSUME NEW c \in Client, NEW k \in Key, NEW p \in Path,
             UploadFails(c, k, p) \/ StartDownload(c, k, p)
      PROVE  Grown
  BY <1>1, <1>8 DEF UploadFails, StartDownload, Ask, Type, Give
<1>9. ASSUME NEW c \in Client,
             \/ UploadSeed(c) \/ NextSeeder(c) \/ SkipPiece(c)
             \/ EndIncomplete(c) \/ Merge(c) \/ MergeFails(c) \/ Quit(c)
             \/ LoseLine(c) \/ CheckUpload(c)
      PROVE  Grown
  BY <1>1, <1>9 DEF UploadSeed, NextSeeder, SkipPiece, EndIncomplete, Merge,
                    MergeFails, Quit, Type, Give, LoseLine, CheckUpload, Handle
<1>10. ASSUME NEW p \in Path, NEW f, Edit(p, f) PROVE Grown
  BY <1>1, <1>10 DEF Edit, Give
<1>11. CASE UNCHANGED vars
  BY <1>1, <1>11 DEF vars
<1> QED  BY <1>3, <1>4, <1>5, <1>6, <1>7, <1>8, <1>9, <1>10, <1>11, <1>12
         DEF Next, Worker, Tracker, User

LEMMA SteadyBefore == ASSUME Grown, NEW k, Steady(k)' PROVE Steady(k)
BY DEF Grown, Steady

LEMMA TrustGrows ==
    ASSUME Grown, NEW c \in Client
    PROVE  Trusted(c) \subseteq Trusted(c)'
<1> SUFFICES ASSUME NEW l \in Trusted(c) PROVE l \in Trusted(c)'
  OBVIOUS
<1>1. l \in Line /\ (l[1] = "upload" => PiecesOf(l[4]) \subseteq held'[c])
  BY DEF Trusted, Grown
<1>2. ASSUME l[1] = "piece", Steady(l[2])'
      PROVE  /\ listing'[l[2]] # None
             /\ <<listing'[l[2]].file, l[3]>> \in held'[c]
             /\ l[3] \in Indices(listing'[l[2]].file)
  <2>1. l[2] \in Key
    BY <1>1, <1>2 DEF Line, Announcement
  <2>2. /\ listing[l[2]] # None
        /\ <<listing[l[2]].file, l[3]>> \in held[c]
        /\ l[3] \in Indices(listing[l[2]].file)
    BY <1>2, SteadyBefore DEF Trusted
  <2> QED  BY <1>2, <2>1, <2>2 DEF Grown
<1> QED  BY <1>1, <1>2 DEF Trusted

-----------------------------------------------------------------------------
(* What the tracker is told. *)

LEMMA NextMail ==
    ASSUME TypeOK, MailTrue, FetchTrue, Grown, [Next]_vars
    PROVE  MailTrue'
<1>0. ASSUME NEW d \in Client, NEW q \in Seq(Trusted(d))
      PROVE  q \in Seq(Trusted(d)')
  BY <1>0, TrustGrows, SeqMonotonic
<1>1. ASSUME UNCHANGED mail PROVE MailTrue'
  BY <1>0, <1>1 DEF MailTrue
<1>2. ASSUME NEW c \in Client, NEW l \in Trusted(c)', Send(c, l)
      PROVE  MailTrue'
  <2>1. mail[c] \in Seq(Trusted(c)')
    BY <1>0 DEF MailTrue
  <2>2. Append(mail[c], l) \in Seq(Trusted(c)')
    BY <2>1
  <2>3. ASSUME NEW d \in Client PROVE mail'[d] \in Seq(Trusted(d)')
    <3>1. CASE d = c
      BY <1>2, <2>2, <3>1 DEF Send, TypeOK
    <3>2. CASE d # c
      BY <1>0, <1>2, <3>2 DEF Send, TypeOK, MailTrue
    <3> QED  BY <3>1, <3>2
  <2> QED  BY <2>3 DEF MailTrue
<1>3. ASSUME NEW c \in Client, NEW kind, Handle(c, kind) PROVE MailTrue'
  <2>1. mail[c] \in Seq(Trusted(c)') /\ mail[c] # <<>>
    BY <1>0, <1>3 DEF MailTrue, Handle
  <2>2. Tail(mail[c]) \in Seq(Trusted(c)')
    BY <2>1
  <2>3. ASSUME NEW d \in Client PROVE mail'[d] \in Seq(Trusted(d)')
    <3>1. CASE d = c
      BY <1>3, <2>2, <3>1 DEF Handle, TypeOK
    <3>2. CASE d # c
      BY <1>0, <1>3, <3>2 DEF Handle, TypeOK, MailTrue
    <3> QED  BY <3>1, <3>2
  <2> QED  BY <2>3 DEF MailTrue
<1>4. ASSUME NEW c \in Client, NEW k \in Key, NEW p \in Path,
             UploadSend(c, k, p)
      PROVE  MailTrue'
  <2> DEFINE l == <<"upload", k, p, disk[p]>>
  <2>1. l \in Line /\ l[1] = "upload" /\ l[4] = disk[p]
    BY <1>4 DEF UploadSend, Line, Announcement
  <2>2. PiecesOf(disk[p]) \subseteq held'[c]
    BY <1>4 DEF UploadSend, TypeOK
  <2>3. Send(c, l)
    BY <1>4 DEF UploadSend
  <2> HIDE DEF l
  <2>4. l \in Trusted(c)'
    BY <2>1, <2>2 DEF Trusted
  <2> QED  BY <1>2, <2>3, <2>4
<1>5. ASSUME NEW c \in Client, FetchPiece(c) PROVE MailTrue'
  <2> DEFINE k == fetch[c].key
             i == fetch[c].at
             l == <<"piece", k, i>>
  <2>0. /\ fetch[c].file \in File /\ fetch[c] \in Fetch(fetch[c].file)
        /\ fetch[c] # Idle
    BY <1>5, FetchType DEF FetchPiece, Fetching, Idle
  <2>1. /\ l \in Line /\ l[1] = "piece" /\ l[2] = k /\ l[3] = i
        /\ k \in Key /\ i \in Indices(fetch[c].file)
    BY <1>5, <2>0, SizeType DEF FetchPiece, Fetching, Line, Fetch, Indices
  <2>2. <<fetch[c].file, i>> \in held'[c]
    BY <1>5 DEF FetchPiece, TypeOK
  <2>3. ASSUME NEW q, q = k, Steady(q)'
        PROVE  listing[q] # None /\ listing[q].file = fetch[c].file
    <3>1. Steady(q)
      BY <2>3, SteadyBefore
    <3> QED  BY <2>0, <2>3, <3>1 DEF FetchTrue
  <2>4. UNCHANGED listing
    BY <1>5 DEF FetchPiece
  <2>5. Send(c, l) \/ UNCHANGED mail
    BY <1>5 DEF FetchPiece
  <2>6. ASSUME NEW m, m = l PROVE m \in Trusted(c)'
    <3>1. m \in Line /\ m[1] = "piece" /\ m[2] = k /\ m[3] = i
      BY <2>1, <2>6
    <3> HIDE DEF l, k, i
    <3>2. ASSUME Steady(m[2])'
          PROVE  /\ listing'[m[2]] # None
                 /\ <<listing'[m[2]].file, m[3]>> \in held'[c]
                 /\ m[3] \in Indices(listing'[m[2]].file)
      <4> DEFINE q == m[2]
      <4>1. listing[q] # None /\ listing[q].file = fetch[c].file
        BY <2>3, <3>1, <3>2
      <4> QED  BY <2>1, <2>2, <2>4, <3>1, <4>1
    <3> QED  BY <3>1, <3>2 DEF Trusted
  <2>7. CASE Send(c, l)
    <3>1. PICK m : m = l
      OBVIOUS
    <3>2. m \in Trusted(c)'
      BY <2>6, <3>1
    <3>3. Send(c, m)
      BY <2>7, <3>1
    <3> QED  BY <1>2, <3>2, <3>3
  <2> QED  BY <1>1, <2>5, <2>7
<1>6. ASSUME NEW c \in Client, LoseLine(c) \/ CheckUpload(c) \/ ListPiece(c)
      PROVE  MailTrue'
  BY <1>3, <1>6 DEF LoseLine, CheckUpload, ListPiece
<1>8. ASSUME NEW c \in Client, NEW k \in Key,
             \/ \E p \in Path : UploadFails(c, k, p) \/ StartDownload(c, k, p)
             \/ StopShare(c, k)
      PROVE  MailTrue'
  BY <1>1, <1>8 DEF UploadFails, StartDownload, StopShare
<1>9. ASSUME NEW c \in Client,
             \/ UploadSeed(c) \/ NextSeeder(c) \/ SkipPiece(c) \/ CommitUpload(c)
             \/ EndIncomplete(c) \/ Merge(c) \/ MergeFails(c) \/ Quit(c)
      PROVE  MailTrue'
  BY <1>1, <1>9 DEF UploadSeed, NextSeeder, SkipPiece, EndIncomplete, Merge,
                    MergeFails, CommitUpload, Quit
<1>7. ASSUME NEW g, Regroup(g) PROVE MailTrue'
  BY <1>1, <1>7 DEF Regroup
<1>10. ASSUME NEW p \in Path, NEW f, Edit(p, f) PROVE MailTrue'
  BY <1>1, <1>10 DEF Edit
<1>11. CASE UNCHANGED vars
  BY <1>1, <1>11 DEF vars
<1> QED  BY <1>4, <1>5, <1>6, <1>7, <1>8, <1>9, <1>10, <1>11
         DEF Next, Worker, Tracker, User

(* How a step can change a download. *)
LEMMA FetchSteps ==
    ASSUME TypeOK, [Next]_vars, NEW c \in Client
    PROVE  \/ fetch'[c] = fetch[c]
           \/ fetch'[c] = Idle
           \/ /\ fetch'[c].have = {}
              /\ fetch'[c].stage = "fetching"
              /\ fetch'[c].key \in Key /\ listing[fetch'[c].key] # None
              /\ fetch'[c].file = listing[fetch'[c].key].file
              /\ UNCHANGED listing
           \/ /\ fetch[c].stage = "fetching"
              /\ fetch'[c].key = fetch[c].key
              /\ fetch'[c].file = fetch[c].file
              /\ FetchPiece(c) \/ fetch'[c].have = fetch[c].have
              /\ fetch'[c].stage = "complete" => HasAll(c)'
              /\ UNCHANGED listing
<1>1. ASSUME NEW d \in Client, FetchPiece(d) \/ NextSeeder(d) \/ SkipPiece(d)
      PROVE  /\ d # c => fetch'[c] = fetch[c]
             /\ fetch'[d].key = fetch[d].key /\ fetch'[d].file = fetch[d].file
             /\ fetch'[d].stage = fetch[d].stage
             /\ fetch[d].stage = "fetching"
             /\ FetchPiece(d) \/ fetch'[d].have = fetch[d].have
             /\ UNCHANGED listing
  <2>1. fetch[d].stage = "fetching"
    BY <1>1 DEF FetchPiece, NextSeeder, SkipPiece, Fetching
  <2>2. fetch[d] \in Fetch(fetch[d].file)
    BY <2>1, FetchType
  <2> QED  BY <1>1, <2>1, <2>2 DEF FetchPiece, NextSeeder, SkipPiece, TypeOK,
                                   Fetch
<1>2. ASSUME NEW d \in Client, EndIncomplete(d) \/ Merge(d) \/ MergeFails(d)
      PROVE  /\ d # c => fetch'[c] = fetch[c]
             /\ fetch'[d].key = fetch[d].key /\ fetch'[d].file = fetch[d].file
             /\ fetch'[d].have = fetch[d].have
             /\ fetch'[d].stage = "complete" => HasAll(d)'
             /\ fetch[d].stage = "fetching"
             /\ UNCHANGED listing
  <2>1. fetch[d].stage = "fetching"
    BY <1>2 DEF EndIncomplete, Merge, MergeFails, AllTried
  <2>2. fetch[d] \in Fetch(fetch[d].file)
    BY <2>1, FetchType
  <2> QED  BY <1>2, <2>1, <2>2 DEF EndIncomplete, Merge, MergeFails, TypeOK,
                                   Fetch, HasAll
<1>3. ASSUME NEW d \in Client, NEW k \in Key, NEW p \in Path,
             StartDownload(d, k, p)
      PROVE  /\ d # c => fetch'[c] = fetch[c]
             /\ fetch'[d].have = {} /\ fetch'[d].stage = "fetching"
             /\ fetch'[d].key = k /\ fetch'[d].file = listing[k].file
             /\ listing[k] # None /\ UNCHANGED listing
  BY <1>3 DEF StartDownload, TypeOK
<1>4. ASSUME NEW d \in Client, Quit(d)
      PROVE  fetch'[c] \in {fetch[c], Idle}
  BY <1>4 DEF Quit, TypeOK
<1>5. ASSUME NEW d \in Client, NEW k \in Key,
             \/ \E p \in Path : UploadSend(d, k, p) \/ UploadFails(d, k, p)
             \/ StopShare(d, k)
      PROVE  UNCHANGED fetch
  BY <1>5 DEF UploadSend, UploadFails, StopShare
<1>6. ASSUME NEW d \in Client, UploadSeed(d) \/ Tracker(d)
      PROVE  UNCHANGED fetch
  BY <1>6 DEF UploadSeed, Tracker, LoseLine, CheckUpload, CommitUpload,
              ListPiece, Handle
<1>7. ASSUME (\E p \in Path, f \in File \cup {None} : Edit(p, f))
             \/ (\E g \in Group : Regroup(g))
      PROVE  UNCHANGED fetch
  BY <1>7 DEF Edit, Regroup
<1>8. CASE UNCHANGED vars
  BY <1>8 DEF vars
<1>9. CASE Next
  <2>1. ASSUME NEW d \in Client, Worker(d)
        PROVE  \/ fetch'[c] = fetch[c]
               \/ /\ fetch[c].stage = "fetching"
                  /\ fetch'[c].key = fetch[c].key
                  /\ fetch'[c].file = fetch[c].file
                  /\ FetchPiece(c) \/ fetch'[c].have = fetch[c].have
                  /\ fetch'[c].stage = "complete" => HasAll(c)'
                  /\ UNCHANGED listing
    BY <1>1, <1>2, <2>1 DEF Worker
  <2>2. ASSUME NEW d \in Client, Tracker(d) \/ UploadSeed(d)
        PROVE  fetch'[c] = fetch[c]
    BY <1>6, <2>2
  <2>3. ASSUME NEW d \in Client, User(d)
        PROVE  \/ fetch'[c] \in {fetch[c], Idle}
               \/ /\ fetch'[c].have = {}
                  /\ fetch'[c].stage = "fetching"
                  /\ fetch'[c].key \in Key /\ listing[fetch'[c].key] # None
                  /\ fetch'[c].file = listing[fetch'[c].key].file
                  /\ UNCHANGED listing
    BY <1>3, <1>4, <1>5, <2>3 DEF User
  <2> QED  BY <1>7, <1>9, <2>1, <2>2, <2>3 DEF Next
<1> QED  BY <1>8, <1>9

LEMMA NextFetch ==
    ASSUME TypeOK, FetchTrue, Merged, Grown, [Next]_vars
    PROVE  FetchTrue' /\ Merged'
<1>1. ASSUME NEW c \in Client, fetch'[c] # Idle,
             NEW k, k = fetch'[c].key, Steady(k)'
      PROVE  listing'[k] # None /\ listing'[k].file = fetch'[c].file
  <2>0. Steady(k)
    BY <1>1, SteadyBefore
  <2>1. CASE fetch'[c] = fetch[c]
    <3>1. k \in Key
      BY <1>1, <2>1 DEF TypeOK, Fetch
    <3>2. listing[k] # None /\ listing[k].file = fetch[c].file
      BY <1>1, <2>0, <2>1 DEF FetchTrue
    <3> QED  BY <1>1, <2>1, <3>1, <3>2 DEF Grown
  <2>2. CASE /\ listing[fetch'[c].key] # None
             /\ fetch'[c].file = listing[fetch'[c].key].file
             /\ UNCHANGED listing
    BY <1>1, <2>2
  <2>3. CASE /\ fetch[c].stage = "fetching"
             /\ fetch'[c].key = fetch[c].key
             /\ fetch'[c].file = fetch[c].file
             /\ UNCHANGED listing
    <3>1. fetch[c] # Idle
      BY <2>3 DEF Idle
    <3>2. listing[k] # None /\ listing[k].file = fetch[c].file
      BY <1>1, <2>0, <2>3, <3>1 DEF FetchTrue
    <3> QED  BY <2>3, <3>2
  <2> QED  BY <1>1, <2>1, <2>2, <2>3, FetchSteps
<1>2. ASSUME NEW c \in Client, fetch'[c].stage = "complete"
      PROVE  HasAll(c)'
  <2>1. CASE fetch'[c] = fetch[c]
    BY <1>2, <2>1 DEF Merged, HasAll
  <2>2. CASE fetch'[c] = Idle \/ fetch'[c].stage = "fetching"
    BY <1>2, <2>2 DEF Idle
  <2> QED  BY <1>2, <2>1, <2>2, FetchSteps
<1>3. FetchTrue'
  BY <1>1 DEF FetchTrue
<1>4. Merged'
  BY <1>2 DEF Merged
<1> QED  BY <1>3, <1>4

-----------------------------------------------------------------------------
(* Who is listed. *)

LEMMA ListingSteps ==
    ASSUME [Next]_vars
    PROVE  \/ UNCHANGED listing
           \/ \E d \in Client : \/ CommitUpload(d) \/ ListPiece(d)
                                \/ \E k \in Key : StopShare(d, k)
           \/ \E g \in Group : Regroup(g)
<1>1. ASSUME NEW d \in Client,
             Worker(d) \/ UploadSeed(d) \/ LoseLine(d) \/ CheckUpload(d)
      PROVE  UNCHANGED listing
  BY <1>1 DEF Worker, UploadSeed, FetchPiece, NextSeeder, SkipPiece,
              EndIncomplete, Merge, MergeFails, LoseLine, CheckUpload
<1>2. ASSUME NEW d \in Client, NEW k, NEW p,
             \/ UploadSend(d, k, p) \/ UploadFails(d, k, p)
             \/ StartDownload(d, k, p) \/ Quit(d)
      PROVE  UNCHANGED listing
  BY <1>2 DEF UploadSend, UploadFails, StartDownload, Quit
<1>3. ASSUME NEW p, NEW f, Edit(p, f) PROVE UNCHANGED listing
  BY <1>3 DEF Edit
<1>4. CASE UNCHANGED vars
  BY <1>4 DEF vars
<1> QED  BY <1>1, <1>2, <1>3, <1>4 DEF Next, Tracker, User

(* A key stays steady only if nothing is taken off it. *)
LEMMA SteadyStep ==
    ASSUME TypeOK, [Next]_vars, NEW k \in Key, Steady(k)', listing'[k] # listing[k]
    PROVE  \E d \in Client : CommitUpload(d) \/ ListPiece(d)
<1>1. ASSUME NEW d \in Client, NEW q \in Key, StopShare(d, q) PROVE FALSE
  <2>1. k # q
    BY <1>1 DEF StopShare, Steady
  <2> QED  BY <1>1, <2>1 DEF StopShare, TypeOK
<1>2. ASSUME NEW g \in Group, Regroup(g) PROVE FALSE
  BY <1>2 DEF Regroup, Steady
<1> QED  BY <1>1, <1>2, ListingSteps

(* The tracker enters an upload after the line that asks for it only. *)
LEMMA HandSteps ==
    ASSUME TypeOK, [Next]_vars, NEW c \in Client
    PROVE  \/ hand'[c] \in {hand[c], None}
           \/ CheckUpload(c) /\ hand'[c] = Head(mail[c])
<1>2. CASE CheckUpload(c)
  <2>1. PICK l : l = Head(mail[c])
    OBVIOUS
  <2>2. hand' = hand \/ hand' = [hand EXCEPT ![c] = l]
    BY <1>2, <2>1 DEF CheckUpload
  <2> QED  BY <1>2, <2>1, <2>2 DEF TypeOK
<1>3. ASSUME NEW d \in Client, Worker(d) \/ UploadSeed(d) \/ User(d)
      PROVE  UNCHANGED hand
  BY <1>3 DEF Worker, UploadSeed, FetchPiece, NextSeeder, SkipPiece,
              EndIncomplete, Merge, MergeFails, User, UploadSend, UploadFails,
              StartDownload, StopShare, Quit
<1>4. ASSUME NEW d \in Client, Tracker(d), ~CheckUpload(c)
      PROVE  hand'[c] \in {hand[c], None}
  BY <1>4 DEF Tracker, LoseLine, CheckUpload, CommitUpload, ListPiece, TypeOK
<1>5. ASSUME NEW p \in Path, NEW f \in File \cup {None}, Edit(p, f)
      PROVE  UNCHANGED hand
  BY <1>5 DEF Edit
<1>6. ASSUME NEW g \in Group, Regroup(g) PROVE hand'[c] \in {hand[c], None}
  BY <1>6 DEF Regroup
<1>7. CASE UNCHANGED vars
  BY <1>7 DEF vars
<1> QED  BY <1>2, <1>3, <1>4, <1>5, <1>6, <1>7 DEF Next

(* What the tracker is entering is what c has hashed. *)
LEMMA NextHand ==
    ASSUME TypeOK, MailTrue, HandTrue, Grown, [Next]_vars
    PROVE  HandTrue'
<1> SUFFICES ASSUME NEW c \in Client, hand'[c] # None
             PROVE  PiecesOf(hand'[c][4]) \subseteq held'[c]
  BY DEF HandTrue
<1>1. CASE hand'[c] = hand[c]
  BY <1>1 DEF HandTrue, Grown
<1>2. CASE CheckUpload(c) /\ hand'[c] = Head(mail[c])
  <2>1. Head(mail[c]) \in Trusted(c) /\ Head(mail[c])[1] = "upload"
    BY <1>2 DEF CheckUpload, Handle, MailTrue
  <2> QED  BY <1>2, <2>1 DEF Trusted, Grown
<1> QED  BY <1>1, <1>2, HandSteps

LEMMA HeadTrusted ==
    ASSUME MailTrue, NEW c \in Client, NEW kind, Handle(c, kind)
    PROVE  Head(mail[c]) \in Trusted(c)
BY DEF MailTrue, Handle

LEMMA NextListed ==
    ASSUME TypeOK, MailTrue, HandTrue, ListedTrue, Grown, [Next]_vars
    PROVE  ListedTrue'
<1> SUFFICES ASSUME NEW c \in Client, NEW k \in Key, Steady(k)',
                    NEW i, Listed(c, k, i)'
             PROVE  <<listing'[k].file, i>> \in held'[c]
  BY DEF ListedTrue
<1>0. Steady(k)
  BY SteadyBefore
<1>1. CASE listing'[k] = listing[k]
  <2>1. Listed(c, k, i)
    BY <1>1 DEF Listed
  <2> QED  BY <1>0, <1>1, <2>1 DEF ListedTrue, Grown
<1>2. ASSUME NEW d \in Client, CommitUpload(d), listing'[k] # listing[k]
      PROVE  <<listing'[k].file, i>> \in held'[c]
  <2> DEFINE l == hand[d]
             new == [file |-> l[4], uploader |-> d,
                     seeders |-> [j \in Indices(l[4]) |-> <<d>>]]
  <2>2. PiecesOf(l[4]) \subseteq held'[d]
    BY <1>2 DEF CommitUpload, HandTrue, Grown
  <2>3. listing' = [listing EXCEPT ![l[2]] = new]
    BY <1>2 DEF CommitUpload
  <2>4. listing'[k] = new
    <3> HIDE DEF new, l
    <3> QED  BY <1>2, <2>3 DEF TypeOK
  <2>5. c \in ToSet(new.seeders[i]) /\ i \in DOMAIN new.seeders
    BY <2>4 DEF Listed
  <2>6. c = d /\ i \in Indices(l[4])
    BY <2>5 DEF ToSet
  <2> QED  BY <2>2, <2>4, <2>6 DEF PiecesOf
<1>3. ASSUME NEW d \in Client, ListPiece(d), listing'[k] # listing[k]
      PROVE  <<listing'[k].file, i>> \in held'[c]
  <2>1. PICK l : l = Head(mail[d])
    OBVIOUS
  <2>2. l \in Trusted(d) /\ l[1] = "piece"
    BY <1>3, <2>1, HeadTrusted DEF ListPiece, Handle
  <2>3. k = l[2]
    BY <1>3, <2>1, ListPieceAdds
  <2>4. /\ listing[k] # None /\ l[3] \in DOMAIN listing[k].seeders
        /\ listing'[k] # None
        /\ listing'[k].file = listing[k].file
        /\ DOMAIN listing'[k].seeders = DOMAIN listing[k].seeders
        /\ ToSet(listing'[k].seeders[l[3]])
             = ToSet(listing[k].seeders[l[3]]) \cup {d}
        /\ \A j \in DOMAIN listing[k].seeders \ {l[3]} :
              listing'[k].seeders[j] = listing[k].seeders[j]
    BY <1>3, <2>1, <2>3, ListPieceAdds
  <2>5. Listed(c, k, i) \/ (c = d /\ i = l[3])
    BY <2>4 DEF Listed
  <2>6. CASE Listed(c, k, i)
    BY <1>0, <2>4, <2>6 DEF ListedTrue, Grown
  <2>7. CASE c = d /\ i = l[3]
    <3>1. <<listing[k].file, i>> \in held[c]
      BY <1>0, <2>2, <2>3, <2>7 DEF Trusted
    <3> QED  BY <2>4, <3>1 DEF Grown
  <2> QED  BY <2>5, <2>6, <2>7
<1> QED  BY <1>1, <1>2, <1>3, SteadyStep

-----------------------------------------------------------------------------
(* What is reported. *)

LEMMA MailSteps ==
    ASSUME TypeOK, [Next]_vars, NEW c \in Client
    PROVE  \/ mail'[c] = mail[c]
           \/ \E l \in Line : mail'[c] = Append(mail[c], l)
           \/ LoseLine(c) \/ CheckUpload(c) \/ ListPiece(c)
<1>1. ASSUME NEW d \in Client, NEW k \in Key, NEW p \in Path,
             UploadSend(d, k, p)
      PROVE  \/ mail'[c] = mail[c]
             \/ \E l \in Line : mail'[c] = Append(mail[c], l)
  <2> DEFINE l == <<"upload", k, p, disk[p]>>
  <2>1. l \in Line /\ Send(d, l)
    BY <1>1 DEF UploadSend, Line, Announcement
  <2> HIDE DEF l
  <2> QED  BY <2>1 DEF Send, TypeOK
<1>2. ASSUME NEW d \in Client, FetchPiece(d)
      PROVE  \/ mail'[c] = mail[c]
             \/ \E l \in Line : mail'[c] = Append(mail[c], l)
  <2> DEFINE l == <<"piece", fetch[d].key, fetch[d].at>>
  <2>1. fetch[d].file \in File /\ fetch[d] \in Fetch(fetch[d].file)
    BY <1>2, FetchType DEF FetchPiece, Fetching
  <2>2. l \in Line
    BY <2>1, SizeType DEF Line, Fetch
  <2>3. Send(d, l) \/ UNCHANGED mail
    BY <1>2 DEF FetchPiece
  <2> HIDE DEF l
  <2> QED  BY <2>2, <2>3 DEF Send, TypeOK
<1>3. ASSUME NEW d \in Client, d # c, LoseLine(d) \/ CheckUpload(d) \/ ListPiece(d)
      PROVE  mail'[c] = mail[c]
  BY <1>3 DEF LoseLine, CheckUpload, ListPiece, Handle, TypeOK
<1>5. ASSUME NEW d \in Client,
             \/ UploadSeed(d) \/ NextSeeder(d) \/ SkipPiece(d)
             \/ EndIncomplete(d) \/ Merge(d) \/ MergeFails(d) \/ CommitUpload(d)
             \/ Quit(d)
      PROVE  UNCHANGED mail
  BY <1>5 DEF UploadSeed, NextSeeder, SkipPiece, EndIncomplete, Merge,
              MergeFails, CommitUpload, Quit
<1>6. ASSUME NEW d \in Client, NEW k \in Key,
             \/ \E p \in Path : UploadFails(d, k, p) \/ StartDownload(d, k, p)
             \/ StopShare(d, k)
      PROVE  UNCHANGED mail
  BY <1>6 DEF UploadFails, StartDownload, StopShare
<1>7. ASSUME (\E p \in Path, f \in File \cup {None} : Edit(p, f))
             \/ (\E g \in Group : Regroup(g))
      PROVE  UNCHANGED mail
  BY <1>7 DEF Edit, Regroup
<1>8. CASE UNCHANGED vars
  BY <1>8 DEF vars
<1>9. ASSUME NEW d \in Client, User(d)
      PROVE  \/ mail'[c] = mail[c]
             \/ \E l \in Line : mail'[c] = Append(mail[c], l)
  BY <1>1, <1>5, <1>6, <1>9 DEF User
<1>10. ASSUME NEW d \in Client, Worker(d) \/ Tracker(d) \/ UploadSeed(d)
       PROVE  \/ mail'[c] = mail[c]
              \/ \E l \in Line : mail'[c] = Append(mail[c], l)
              \/ LoseLine(c) \/ CheckUpload(c) \/ ListPiece(c)
  BY <1>2, <1>3, <1>5, <1>10 DEF Worker, Tracker
<1> QED  BY <1>7, <1>8, <1>9, <1>10 DEF Next

(* What is lost stays lost, until the next download. *)
LEMMA LostSteps ==
    ASSUME TypeOK, [Next]_vars, NEW c \in Client,
           ~ \E k \in Key, p \in Path : StartDownload(c, k, p)
    PROVE  lost[c] \subseteq lost'[c]
<1>1. ASSUME NEW d \in Client, FetchPiece(d) \/ LoseLine(d)
      PROVE  lost[c] \subseteq lost'[c]
  <2>1. UNCHANGED lost \/ \E x : lost' = [lost EXCEPT ![d] = @ \cup {x}]
    BY <1>1 DEF FetchPiece, LoseLine
  <2>2. lost \in [Client -> SUBSET (Key \X Nat)]
    BY DEF TypeOK
  <2> QED  BY <2>1, <2>2
<1>2. ASSUME NEW d \in Client, NEW k \in Key, NEW p \in Path, StartDownload(d, k, p)
      PROVE  lost[c] \subseteq lost'[c]
  BY <1>2 DEF StartDownload, TypeOK
<1>3. ASSUME NEW d \in Client,
             \/ UploadSeed(d) \/ NextSeeder(d) \/ SkipPiece(d)
             \/ EndIncomplete(d) \/ Merge(d) \/ MergeFails(d) \/ Quit(d)
             \/ CommitUpload(d) \/ CheckUpload(d) \/ ListPiece(d)
      PROVE  UNCHANGED lost
  BY <1>3 DEF UploadSeed, NextSeeder, SkipPiece, EndIncomplete, Merge,
              MergeFails, Quit, CommitUpload, CheckUpload, ListPiece
<1>4. ASSUME NEW d \in Client, NEW k \in Key,
             \/ \E p \in Path : UploadSend(d, k, p) \/ UploadFails(d, k, p)
             \/ StopShare(d, k)
      PROVE  UNCHANGED lost
  BY <1>4 DEF UploadSend, UploadFails, StopShare
<1>5. ASSUME (\E p \in Path, f \in File \cup {None} : Edit(p, f))
             \/ (\E g \in Group : Regroup(g))
      PROVE  UNCHANGED lost
  BY <1>5 DEF Edit, Regroup
<1>6. CASE UNCHANGED vars
  BY <1>6 DEF vars
<1> QED  BY <1>1, <1>2, <1>3, <1>4, <1>5, <1>6
         DEF Next, Worker, Tracker, User

(* A report stays told: it is in the mail until it is lost or the tracker    *)
(* lists its sender.                                                         *)
LEMMA ToldStays ==
    ASSUME TypeOK, MailTrue, Grown, [Next]_vars,
           NEW c \in Client, NEW k \in Key, Steady(k)', NEW i, Told(c, k, i),
           ~ \E j \in Key, p \in Path : StartDownload(c, j, p)
    PROVE  Told(c, k, i)'
<1>0. Steady(k)
  BY SteadyBefore
<1>1. CASE Listed(c, k, i)
  BY <1>1 DEF Grown, Told, Listed
<1>2. ASSUME NEW n \in 1..Len(mail[c]), mail[c][n] = <<"piece", k, i>>
      PROVE  Told(c, k, i)'
  <2>0. mail[c] \in Seq(Line)
    BY DEF TypeOK
  <2>1. CASE mail'[c] = mail[c]
    BY <1>2, <2>1 DEF Told
  <2>2. ASSUME NEW l \in Line, mail'[c] = Append(mail[c], l)
        PROVE  Told(c, k, i)'
    <3>1. n \in 1..Len(mail'[c]) /\ mail'[c][n] = mail[c][n]
      BY <2>0, <2>2
    <3> QED  BY <1>2, <3>1 DEF Told
  <2>3. ASSUME LoseLine(c) \/ CheckUpload(c) \/ ListPiece(c), n # 1
        PROVE  Told(c, k, i)'
    <3>1. mail'[c] = Tail(mail[c])
      BY <2>3 DEF LoseLine, CheckUpload, ListPiece, Handle, TypeOK
    <3>2. n - 1 \in 1..Len(mail'[c]) /\ mail'[c][n - 1] = mail[c][n]
      BY <1>2, <2>0, <2>3, <3>1
    <3> QED  BY <1>2, <3>2 DEF Told
  <2>5. ASSUME LoseLine(c), n = 1
        PROVE  Told(c, k, i)'
    <3>1. PICK l : l = Head(mail[c])
      OBVIOUS
    <3>2. l = <<"piece", k, i>>
      BY <1>2, <2>0, <2>5, <3>1
    <3>3. l[1] = "piece" /\ l[2] = k /\ l[3] = i
      BY <3>2
    <3>4. lost' = [lost EXCEPT ![c] = @ \cup {<<l[2], l[3]>>}]
      BY <2>5, <3>1, <3>3 DEF LoseLine, Handle
    <3>5. <<k, i>> \in lost'[c]
      BY <3>3, <3>4 DEF TypeOK
    <3> QED  BY <3>5 DEF Told
  <2>4. ASSUME CheckUpload(c) \/ ListPiece(c), n = 1
        PROVE  Told(c, k, i)'
    <3>1. PICK l : l = Head(mail[c])
      OBVIOUS
    <3>2. l = <<"piece", k, i>>
      BY <1>2, <2>0, <2>4, <3>1
    <3>3. ListPiece(c)
      BY <2>4, <3>1, <3>2 DEF CheckUpload, Handle
    <3>4. l \in Trusted(c)
      BY <3>1, <3>3, HeadTrusted DEF ListPiece
    <3>5. l[1] = "piece" /\ l[2] = k /\ l[3] = i
      BY <3>2
    <3>6. listing[k] # None /\ i \in Indices(listing[k].file)
      BY <1>0, <3>4, <3>5 DEF Trusted
    <3>7. i \in DOMAIN listing[k].seeders
      BY <3>6, ListingType DEF Entry
    <3>8. Listed(c, k, i)'
      BY <3>1, <3>3, <3>5, <3>6, <3>7, ListPieceAdds
    <3> QED  BY <3>8 DEF Told
  <2> QED  BY <2>1, <2>2, <2>3, <2>4, <2>5, MailSteps
<1>3. CASE <<k, i>> \in lost[c]
  BY <1>3, LostSteps DEF Told
<1> QED  BY <1>1, <1>2, <1>3 DEF Told

LEMMA NextReported ==
    ASSUME TypeOK, MailTrue, Reported, Grown, [Next]_vars
    PROVE  Reported'
<1>1. SUFFICES ASSUME NEW c \in Client, fetch'[c] # Idle,
                      NEW k, k = fetch'[c].key, Steady(k)',
                      NEW i \in fetch'[c].have
               PROVE  Told(c, k, i)'
  BY DEF Reported
<1>0. Steady(k)
  BY <1>1, SteadyBefore
<1>2. ASSUME fetch[c] # Idle, k = fetch[c].key, i \in fetch[c].have
      PROVE  Told(c, k, i)'
  <2>1. Told(c, k, i)
    BY <1>0, <1>2 DEF Reported
  <2>2. ASSUME NEW j \in Key, NEW p \in Path, StartDownload(c, j, p) PROVE FALSE
    <3>1. fetch'[c].have = {}
      BY <2>2 DEF StartDownload, TypeOK
    <3> QED  BY <1>1, <3>1
  <2>3. k \in Key
    BY <1>2 DEF TypeOK, Fetch
  <2> QED  BY <1>1, <2>1, <2>2, <2>3, ToldStays
<1>3. ASSUME FetchPiece(c) PROVE Told(c, k, i)'
  <2>0. /\ fetch[c].file \in File /\ fetch[c] \in Fetch(fetch[c].file)
        /\ fetch[c] # Idle
    BY <1>3, FetchType DEF FetchPiece, Fetching, Idle
  <2>1. /\ fetch'[c].key = fetch[c].key
        /\ fetch'[c].have = fetch[c].have \cup {fetch[c].at}
    BY <1>3, <2>0 DEF FetchPiece, TypeOK, Fetch
  <2>2. CASE i \in fetch[c].have
    BY <1>1, <1>2, <2>0, <2>1, <2>2
  <2>4. CASE lost' = [lost EXCEPT ![c] = @ \cup {<<k, fetch[c].at>>}]
             /\ i = fetch[c].at
    BY <2>4 DEF Told, TypeOK
  <2>3. CASE i = fetch[c].at /\ Send(c, <<"piece", k, i>>)
    <3>1. Send(c, <<"piece", k, i>>)
      BY <2>3
    <3>2. mail'[c] = Append(mail[c], <<"piece", k, i>>)
      BY <3>1 DEF Send, TypeOK
    <3>3. mail[c] \in Seq(Line)
      BY DEF TypeOK
    <3>4. PICK l : l = <<"piece", k, i>>
      OBVIOUS
    <3>5. mail'[c] = Append(mail[c], l)
      BY <3>2, <3>4
    <3>6. Len(mail[c]) + 1 \in 1..Len(mail'[c])
          /\ mail'[c][Len(mail[c]) + 1] = l
      BY <3>3, <3>5
    <3> QED  BY <3>4, <3>6 DEF Told
  <2>5. \/ Send(c, <<"piece", k, fetch[c].at>>)
        \/ lost' = [lost EXCEPT ![c] = @ \cup {<<k, fetch[c].at>>}]
    BY <1>1, <1>3, <2>1 DEF FetchPiece
  <2> QED  BY <1>1, <2>1, <2>2, <2>3, <2>4, <2>5
<1>4. CASE fetch'[c] = fetch[c]
  BY <1>1, <1>2, <1>4
<1>5. CASE /\ fetch[c].stage = "fetching"
           /\ fetch'[c].key = fetch[c].key
           /\ fetch'[c].have = fetch[c].have
  <2>1. fetch[c] # Idle
    BY <1>5 DEF Idle
  <2> QED  BY <1>1, <1>2, <1>5, <2>1
<1>6. CASE fetch'[c].have = {}
  BY <1>1, <1>6
<1> QED  BY <1>1, <1>3, <1>4, <1>5, <1>6, FetchSteps

-----------------------------------------------------------------------------

Inv == /\ TypeOK /\ MailTrue /\ HandTrue /\ FetchTrue /\ Merged
       /\ ListedTrue /\ Reported

LEMMA InitInv == Init => Inv
<1> SUFFICES ASSUME Init PROVE Inv
  OBVIOUS
<1>1. TypeOK
  BY InitTypes
<1>2. MailTrue /\ HandTrue
  BY DEF Init, MailTrue, HandTrue
<1>3. FetchTrue /\ Merged /\ ListedTrue /\ Reported
  BY DEF Init, FetchTrue, Merged, ListedTrue, Reported, Listed, Idle
<1> QED  BY <1>1, <1>2, <1>3 DEF Inv

LEMMA NextInv == Inv /\ [Next]_vars => Inv'
BY NextTypes, NextGrown, NextMail, NextHand, NextFetch, NextListed, NextReported
   DEF Inv

(* ListedHolds for any number of clients, keys and files: whoever is listed  *)
(* for a piece has hashed or verified just that piece, so long as nothing    *)
(* was taken off or replaced under the key (handlePieceCompleted enters the  *)
(* reporter of an index without a hash).                                     *)
THEOREM ListedAreHeld == Spec => []ListedHolds
<1>1. Inv => ListedHolds
  BY DEF Inv, ListedTrue, ListedHolds
<1> QED  BY InitInv, NextInv, <1>1, PTL DEF Spec

(* CompleteIsListed likewise: a client that has completed a download is      *)
(* listed for every piece of it, or its report is on the way or has come to  *)
(* nothing since the download began.                                         *)
THEOREM CompletedAreListed == Spec => []CompleteIsListed
<1>1. Inv => CompleteIsListed
  <2> SUFFICES ASSUME Inv, NEW c \in Client,
                      fetch[c].stage = "complete", Steady(fetch[c].key),
                      NEW i \in Indices(fetch[c].file)
               PROVE  \/ Listed(c, fetch[c].key, i)
                      \/ <<"piece", fetch[c].key, i>> \in ToSet(mail[c])
                      \/ <<fetch[c].key, i>> \in lost[c]
    BY DEF CompleteIsListed
  <2>1. fetch[c] # Idle /\ i \in fetch[c].have
    BY DEF Inv, Merged, HasAll, Idle
  <2>2. Told(c, fetch[c].key, i)
    BY <2>1 DEF Inv, Reported
  <2>3. DOMAIN mail[c] = 1..Len(mail[c])
    BY DEF Inv, TypeOK
  <2> QED  BY <2>2, <2>3 DEF Told, ToSet
<1> QED  BY InitInv, NextInv, <1>1, PTL DEF Spec
=============================================================================
