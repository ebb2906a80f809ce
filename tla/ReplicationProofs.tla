--------------------------- MODULE ReplicationProofs ---------------------------
(***************************************************************************)
(* The theorem about CatchingUp of TrackerSync: with one client, and       *)
(* trackers that run together from the start, replaying what is under way  *)
(* to a replica yields the primary's directory.  It rests on two things:   *)
(* what FoldLeft does with a sequence of messages, and that Replay does    *)
(* with a message what Serve did with its command.                         *)
(***************************************************************************)
EXTENDS TrackerSyncProofs, WellFoundedInduction, FiniteSetTheorems

(* Induction over the numbers, for the members of a set. *)
LEMMA SetInduction ==
    ASSUME NEW S, 0 \in S, \A n \in Nat : n \in S => n + 1 \in S
    PROVE  \A n \in Nat : n \in S
<1> DEFINE R == OpToRel(<, Nat)
           T == Nat \ S
<1>1. IsWellFoundedOn(R, Nat)
  BY NatLessThanWellFounded
<1>2. \A x, y \in Nat : x < y => <<x, y>> \in R
  BY DEF OpToRel
<1> HIDE DEF R
<1>3. SUFFICES ASSUME T # {} PROVE FALSE
  OBVIOUS
<1>4. PICK x \in T : \A y \in T : ~ (<<y, x>> \in R)
  BY <1>1, <1>3, WFMin
<1>5. x # 0 /\ x \in Nat
  BY <1>4
<1>6. x - 1 \in Nat /\ x - 1 < x /\ (x - 1) + 1 = x
  BY <1>5
<1>7. x - 1 \in T
  BY <1>4, <1>6
<1> QED  BY <1>2, <1>4, <1>6, <1>7

-----------------------------------------------------------------------------
(* Replaying a sequence of messages.  FoldLeft is the value at 1 .. n of the *)
(* function that takes a set of positions to the directory after them.       *)

Replayed(d, q) == FoldLeft(Replay, d, q)

IsReplay(g, d, q, n) ==
    g = [s \in SUBSET (1 .. n) |->
           IF s = {} THEN d ELSE Replay(g[s \ {Max(s)}], q[Max(s)])]

LEMMA MaxType ==
    ASSUME NEW n \in Nat, NEW s \in SUBSET (1 .. n), s # {}
    PROVE  Max(s) \in s /\ \A y \in s : Max(s) >= y
<1> DEFINE S == {k \in Nat : \A t \in SUBSET (1 .. k) :
                     t # {} => \E x \in t : \A y \in t : x >= y}
<1>1. 0 \in S
  <2>1. 1 .. 0 = {}
    OBVIOUS
  <2> QED  BY <2>1
<1>2. ASSUME NEW k \in Nat, k \in S PROVE k + 1 \in S
  <2> SUFFICES ASSUME NEW t \in SUBSET (1 .. k + 1), t # {}
               PROVE  \E x \in t : \A y \in t : x >= y
    OBVIOUS
  <2>1. CASE k + 1 \in t
    BY <2>1
  <2>2. CASE k + 1 \notin t
    <3>1. t \in SUBSET (1 .. k)
      BY <2>2
    <3> QED  BY <1>2, <3>1
  <2> QED  BY <2>1, <2>2
<1> HIDE DEF S
<1>3. n \in S
  BY <1>1, <1>2, SetInduction
<1>4. \E x \in s : \A y \in s : x >= y
  BY <1>3 DEF S
<1> QED  BY <1>4 DEF Max

LEMMA MaxIs ==
    ASSUME NEW n \in Nat, NEW s \in SUBSET (1 .. n), n \in s
    PROVE  Max(s) = n
<1>1. Max(s) \in s /\ Max(s) >= n
  BY MaxType
<1>2. Max(s) \in 1 .. n
  BY <1>1
<1> QED  BY <1>1, <1>2

LEMMA ReplayExists == \A d, q : \A n \in Nat : \E g : IsReplay(g, d, q, n)
<1> SUFFICES ASSUME NEW d, NEW q
             PROVE  \A n \in Nat : \E g : IsReplay(g, d, q, n)
  OBVIOUS
<1> DEFINE S == {n \in Nat : \E g : IsReplay(g, d, q, n)}
<1>1. 0 \in S
  <2>1. IsReplay([s \in SUBSET (1 .. 0) |-> d], d, q, 0)
    BY DEF IsReplay
  <2> QED  BY <2>1
<1>2. ASSUME NEW n \in Nat, n \in S PROVE n + 1 \in S
  <2>1. PICK g : IsReplay(g, d, q, n)
    BY <1>2
  <2> DEFINE h == [s \in SUBSET (1 .. n + 1) |->
                     IF n + 1 \in s THEN Replay(g[s \ {n + 1}], q[n + 1])
                                    ELSE g[s]]
  <2>2. ASSUME NEW s \in SUBSET (1 .. n + 1)
        PROVE  h[s] = IF s = {} THEN d ELSE Replay(h[s \ {Max(s)}], q[Max(s)])
    <3>1. CASE n + 1 \in s
      <4>1. Max(s) = n + 1
        BY <3>1, MaxIs
      <4>2. h[s \ {n + 1}] = g[s \ {n + 1}]
        OBVIOUS
      <4> QED  BY <3>1, <4>1, <4>2
    <3>2. CASE n + 1 \notin s
      <4>1. s \in SUBSET (1 .. n) /\ h[s] = g[s]
        BY <3>2
      <4>2. g[s] = IF s = {} THEN d ELSE Replay(g[s \ {Max(s)}], q[Max(s)])
        BY <2>1, <4>1 DEF IsReplay
      <4>3. h[s \ {Max(s)}] = g[s \ {Max(s)}]
        BY <4>1
      <4> QED  BY <4>1, <4>2, <4>3
    <3> QED  BY <3>1, <3>2
  <2>3. h = [s \in SUBSET (1 .. n + 1) |->
               IF s = {} THEN d ELSE Replay(h[s \ {Max(s)}], q[Max(s)])]
    <3>1. h = [s \in SUBSET (1 .. n + 1) |-> h[s]]
      OBVIOUS
    <3> HIDE DEF h
    <3> QED  BY <2>2, <3>1
  <2>4. IsReplay(h, d, q, n + 1)
    <3> HIDE DEF h
    <3> QED  BY <2>3 DEF IsReplay
  <2> QED  BY <2>4
<1> HIDE DEF S
<1>3. \A n \in Nat : n \in S
  BY <1>1, <1>2, SetInduction
<1> QED  BY <1>3 DEF S

(* A step of it. *)
LEMMA ReplayAt ==
    ASSUME NEW n \in Nat, NEW g, NEW d, NEW q, IsReplay(g, d, q, n)
    PROVE  /\ g[1 .. 0] = d
           /\ \A k \in Nat : k < n => g[1 .. k + 1] = Replay(g[1 .. k], q[k + 1])
<1>1. g[1 .. 0] = d
  <2>1. 1 .. 0 = {} /\ 1 .. 0 \in SUBSET (1 .. n)
    OBVIOUS
  <2> QED  BY <2>1 DEF IsReplay
<1>2. ASSUME NEW k \in Nat, k < n
      PROVE  g[1 .. k + 1] = Replay(g[1 .. k], q[k + 1])
  <2>1. /\ 1 .. k + 1 \in SUBSET (1 .. n) /\ 1 .. k + 1 # {}
        /\ (1 .. k + 1) \ {k + 1} = 1 .. k
    BY <1>2
  <2>2. Max(1 .. k + 1) = k + 1
    BY MaxIs
  <2>3. \A s \in SUBSET (1 .. n) : s # {} =>
           g[s] = Replay(g[s \ {Max(s)}], q[Max(s)])
    BY DEF IsReplay
  <2> QED  BY <2>1, <2>2, <2>3
<1> QED  BY <1>1, <1>2

LEMMA ReplayedIs ==
    ASSUME NEW S, NEW q \in Seq(S), NEW d
    PROVE  \E g : IsReplay(g, d, q, Len(q)) /\ Replayed(d, q) = g[1 .. Len(q)]
<1> DEFINE g == CHOOSE f : f = [s \in SUBSET DOMAIN q |->
                     IF s = {} THEN d ELSE Replay(f[s \ {Max(s)}], q[Max(s)])]
<1>1. Replayed(d, q) = g[DOMAIN q]
  BY DEF Replayed, FoldLeft, MapThenFoldSet
<1>2. DOMAIN q = 1 .. Len(q) /\ Len(q) \in Nat
  OBVIOUS
<1>3. IsReplay(g, d, q, Len(q))
  <2>1. PICK f : IsReplay(f, d, q, Len(q))
    BY <1>2, ReplayExists
  <2>2. f = [s \in SUBSET DOMAIN q |->
               IF s = {} THEN d ELSE Replay(f[s \ {Max(s)}], q[Max(s)])]
    BY <1>2, <2>1 DEF IsReplay
  <2>3. g = [s \in SUBSET DOMAIN q |->
               IF s = {} THEN d ELSE Replay(g[s \ {Max(s)}], q[Max(s)])]
    BY <2>2
  <2> HIDE DEF g
  <2> QED  BY <1>2, <2>3 DEF IsReplay
<1> HIDE DEF g
<1> QED  BY <1>1, <1>2, <1>3

LEMMA ReplayedNone == \A d : Replayed(d, <<>>) = d
<1> SUFFICES ASSUME NEW d PROVE Replayed(d, <<>>) = d
  OBVIOUS
<1>1. <<>> \in Seq({}) /\ Len(<<>>) = 0
  OBVIOUS
<1>2. PICK g : IsReplay(g, d, <<>>, 0) /\ Replayed(d, <<>>) = g[1 .. 0]
  BY <1>1, ReplayedIs
<1> QED  BY <1>2, ReplayAt

(* The first n messages determine the directory after them. *)
LEMMA ReplayedLast ==
    ASSUME NEW S, NEW q \in Seq(S), NEW m \in S, NEW d
    PROVE  Replayed(d, Append(q, m)) = Replay(Replayed(d, q), m)
<1> DEFINE r == Append(q, m)
           n == Len(q)
<1>1. /\ r \in Seq(S) /\ n \in Nat /\ Len(r) = n + 1 /\ r[n + 1] = m
      /\ \A k \in 1 .. n : r[k] = q[k]
  OBVIOUS
<1>2. PICK g : IsReplay(g, d, q, n) /\ Replayed(d, q) = g[1 .. n]
  BY ReplayedIs
<1> HIDE DEF r, n
<1>3. PICK h : IsReplay(h, d, r, n + 1) /\ Replayed(d, r) = h[1 .. n + 1]
  BY <1>1, ReplayedIs
<1> DEFINE A == {k \in Nat : k <= n => g[1 .. k] = h[1 .. k]}
<1>4. 0 \in A
  BY <1>1, <1>2, <1>3, ReplayAt
<1>5. ASSUME NEW k \in Nat, k \in A PROVE k + 1 \in A
  <2> SUFFICES ASSUME k + 1 <= n PROVE g[1 .. k + 1] = h[1 .. k + 1]
    OBVIOUS
  <2>1. k < n /\ k < n + 1 /\ k + 1 \in 1 .. n
    BY <1>1
  <2>2. g[1 .. k + 1] = Replay(g[1 .. k], q[k + 1])
    BY <1>1, <1>2, <2>1, ReplayAt
  <2>3. h[1 .. k + 1] = Replay(h[1 .. k], r[k + 1])
    BY <1>1, <1>3, <2>1, ReplayAt
  <2> QED  BY <1>1, <1>5, <2>1, <2>2, <2>3
<1> HIDE DEF A
<1>6. n \in A
  BY <1>1, <1>4, <1>5, SetInduction
<1>7. h[1 .. n + 1] = Replay(h[1 .. n], m)
  BY <1>1, <1>3, ReplayAt
<1>8. g[1 .. n] = h[1 .. n]
  BY <1>1, <1>6 DEF A
<1> QED  BY <1>2, <1>3, <1>7, <1>8 DEF r

LEMMA ReplayedFirst ==
    ASSUME NEW S, NEW q \in Seq(S), q # <<>>, NEW d
    PROVE  Replayed(d, q) = Replayed(Replay(d, Head(q)), Tail(q))
<1> DEFINE r == Tail(q)
           e == Replay(d, Head(q))
           n == Len(r)
<1>1. /\ r \in Seq(S) /\ n \in Nat /\ Len(q) = n + 1 /\ q[1] = Head(q)
      /\ \A k \in 1 .. n : r[k] = q[k + 1]
  OBVIOUS
<1>2. PICK g : IsReplay(g, d, q, n + 1) /\ Replayed(d, q) = g[1 .. n + 1]
  BY <1>1, ReplayedIs
<1> HIDE DEF r, n
<1>3. PICK h : IsReplay(h, e, r, n) /\ Replayed(e, r) = h[1 .. n]
  <2> HIDE DEF e
  <2> QED  BY <1>1, ReplayedIs DEF n
<1> DEFINE A == {k \in Nat : k <= n => g[1 .. k + 1] = h[1 .. k]}
<1>4. 0 \in A
  <2>1. h[1 .. 0] = e
    <3> HIDE DEF e
    <3> QED  BY <1>1, <1>3, ReplayAt
  <2>2. PICK z \in Nat : z = 0
    OBVIOUS
  <2>3. z < n + 1 /\ n + 1 \in Nat
    BY <1>1, <2>2
  <2>4. g[1 .. z + 1] = Replay(g[1 .. z], q[z + 1])
    BY <1>2, <2>3, ReplayAt
  <2>5. g[1 .. 0] = d
    BY <1>1, <1>2, ReplayAt
  <2>6. z + 1 = 1
    BY <2>2
  <2> QED  BY <1>1, <2>1, <2>2, <2>4, <2>5, <2>6
<1>5. ASSUME NEW k \in Nat, k \in A PROVE k + 1 \in A
  <2> SUFFICES ASSUME k + 1 <= n PROVE g[1 .. (k + 1) + 1] = h[1 .. k + 1]
    OBVIOUS
  <2>1. /\ k + 1 \in 1 .. n /\ k < n /\ k + 1 < n + 1
        /\ n + 1 \in Nat /\ k + 1 \in Nat
    BY <1>1
  <2>2. g[1 .. (k + 1) + 1] = Replay(g[1 .. k + 1], q[(k + 1) + 1])
    BY <1>1, <1>2, <2>1, ReplayAt
  <2>3. h[1 .. k + 1] = Replay(h[1 .. k], r[k + 1])
    <3> HIDE DEF e
    <3> QED  BY <1>1, <1>3, <2>1, ReplayAt
  <2> QED  BY <1>1, <1>5, <2>1, <2>2, <2>3
<1> HIDE DEF A
<1>6. n \in A
  BY <1>1, <1>4, <1>5, SetInduction
<1>7. g[1 .. n + 1] = h[1 .. n]
  BY <1>1, <1>6 DEF A
<1> QED  BY <1>2, <1>3, <1>7 DEF r

-----------------------------------------------------------------------------
(* Directories that have the same durable part. *)

SameFile(a, b) == (a = None /\ b = None) \/ (a # None /\ b # None /\ a.by = b.by)

SameGroup(x, y) ==
    \/ x = None /\ y = None
    \/ /\ x # None /\ y # None
       /\ x.owner = y.owner /\ x.members = y.members /\ x.requests = y.requests
       /\ \A f \in FileName : SameFile(x.files[f], y.files[f])

Same(d, e) ==
    /\ d.users = e.users /\ d.owners = e.owners
    /\ \A g \in GroupId : SameGroup(d.groups[g], e.groups[g])

LEMMA UnseededType ==
    ASSUME NEW x \in GroupType
    PROVE  /\ Unseeded(x) \in GroupType
           /\ Unseeded(x) = [owner |-> x.owner, members |-> x.members,
                             requests |-> x.requests,
                             files |-> Unseeded(x).files]
           /\ Unseeded(x).files \in [FileName -> FileType \cup {None}]
           /\ \A f \in FileName :
                 /\ x.files[f] = None => Unseeded(x).files[f] = None
                 /\ x.files[f] # None =>
                       Unseeded(x).files[f] = [by |-> x.files[f].by, seeders |-> {}]
<1>1. x.files \in [FileName -> FileType \cup {None}]
  BY DEF GroupType
<1> DEFINE F == [f \in FileName |-> IF x.files[f] = None THEN None
                                    ELSE [x.files[f] EXCEPT !.seeders = {}]]
<1>2. ASSUME NEW f \in FileName, x.files[f] # None
      PROVE  /\ [x.files[f] EXCEPT !.seeders = {}]
                   = [by |-> x.files[f].by, seeders |-> {}]
             /\ [x.files[f] EXCEPT !.seeders = {}] \in FileType
  BY <1>1, <1>2 DEF FileType
<1>3. F \in [FileName -> FileType \cup {None}]
  BY <1>2
<1>4. Unseeded(x) = [owner |-> x.owner, members |-> x.members,
                     requests |-> x.requests, files |-> F]
  <2>1. \A z : [x EXCEPT !.files = z]
                = [owner |-> x.owner, members |-> x.members,
                   requests |-> x.requests, files |-> z]
    BY DEF GroupType
  <2>2. Unseeded(x) = [x EXCEPT !.files = F]
    BY DEF Unseeded
  <2> HIDE DEF F
  <2> QED  BY <2>1, <2>2
<1>5. Unseeded(x).files = F /\ Unseeded(x) \in GroupType
  <2> HIDE DEF F
  <2> QED  BY <1>3, <1>4 DEF GroupType
<1> QED  BY <1>2, <1>3, <1>4, <1>5

LEMMA SameGroupMeans ==
    ASSUME NEW x \in GroupType \cup {None}, NEW y \in GroupType \cup {None}
    PROVE  SameGroup(x, y) <=>
             (IF x = None THEN None ELSE Unseeded(x))
               = (IF y = None THEN None ELSE Unseeded(y))
<1>1. CASE x = None \/ y = None
  BY <1>1, UnseededType, NoneAssumption DEF SameGroup
<1>2. CASE x # None /\ y # None
  <2>1. x \in GroupType /\ y \in GroupType
    BY <1>2
  <2> DEFINE F == Unseeded(x).files
             G == Unseeded(y).files
  <2>2. F = G <=> \A f \in FileName : SameFile(x.files[f], y.files[f])
    <3>1. F = G <=> \A f \in FileName : F[f] = G[f]
      <4>1. /\ F \in [FileName -> FileType \cup {None}]
            /\ G \in [FileName -> FileType \cup {None}]
        BY <2>1, UnseededType
      <4> QED  BY <4>1
    <3>2. ASSUME NEW f \in FileName
          PROVE  F[f] = G[f] <=> SameFile(x.files[f], y.files[f])
      <4>1. /\ F[f] \in FileType \cup {None} /\ G[f] \in FileType \cup {None}
            /\ x.files[f] = None => F[f] = None
            /\ x.files[f] # None => F[f] = [by |-> x.files[f].by, seeders |-> {}]
            /\ y.files[f] = None => G[f] = None
            /\ y.files[f] # None => G[f] = [by |-> y.files[f].by, seeders |-> {}]
            /\ x.files[f] # None => F[f] # None
            /\ y.files[f] # None => G[f] # None
        <5>1. /\ x.files[f] \in FileType \cup {None}
              /\ y.files[f] \in FileType \cup {None}
          BY <2>1 DEF GroupType
        <5>2. \A n \in Name : [by |-> n, seeders |-> {}] \in FileType
          BY DEF FileType
        <5>3. \A z \in FileType : z.by \in Name
          BY DEF FileType
        <5> HIDE DEF F, G
        <5>4. /\ F \in [FileName -> FileType \cup {None}]
              /\ G \in [FileName -> FileType \cup {None}]
              /\ x.files[f] = None => F[f] = None
              /\ x.files[f] # None => F[f] = [by |-> x.files[f].by, seeders |-> {}]
              /\ y.files[f] = None => G[f] = None
              /\ y.files[f] # None => G[f] = [by |-> y.files[f].by, seeders |-> {}]
          BY <2>1, UnseededType DEF F, G
        <5> QED  BY <5>1, <5>2, <5>3, <5>4, NoneAssumption
      <4> HIDE DEF F, G
      <4> QED  BY <4>1 DEF SameFile
    <3> QED  BY <3>1, <3>2
  <2>3. Unseeded(x) = Unseeded(y) <=>
          /\ x.owner = y.owner /\ x.members = y.members
          /\ x.requests = y.requests /\ F = G
    <3>1. /\ Unseeded(x) = [owner |-> x.owner, members |-> x.members,
                            requests |-> x.requests, files |-> F]
          /\ Unseeded(y) = [owner |-> y.owner, members |-> y.members,
                            requests |-> y.requests, files |-> G]
      BY <2>1, UnseededType
    <3> HIDE DEF F, G
    <3> QED  BY <3>1
  <2> QED  BY <1>2, <2>2, <2>3 DEF SameGroup
<1> QED  BY <1>1, <1>2

LEMMA DurableType ==
    ASSUME NEW d \in DirectoryType
    PROVE  /\ Durable(d) \in DirectoryType
           /\ Durable(d) = [users |-> d.users, loggedIn |-> {},
                            owners |-> d.owners, groups |-> Durable(d).groups]
           /\ Durable(d).groups = [g \in GroupId |->
                 IF d.groups[g] = None THEN None ELSE Unseeded(d.groups[g])]
<1> DEFINE G == [g \in GroupId |->
                   IF d.groups[g] = None THEN None ELSE Unseeded(d.groups[g])]
<1>1. G \in [GroupId -> GroupType \cup {None}]
  BY UnseededType DEF DirectoryType
<1>2. Durable(d) = [users |-> d.users, loggedIn |-> {}, owners |-> d.owners,
                    groups |-> G]
  BY DEF Durable
<1> HIDE DEF G
<1>3. Durable(d).groups = G /\ Durable(d) \in DirectoryType
  BY <1>1, <1>2 DEF DirectoryType
<1> QED  BY <1>2, <1>3 DEF G

LEMMA SameMeans ==
    ASSUME NEW d \in DirectoryType, NEW e \in DirectoryType
    PROVE  Same(d, e) <=> Durable(d) = Durable(e)
<1> DEFINE G(x) == [g \in GroupId |-> IF x.groups[g] = None THEN None
                                      ELSE Unseeded(x.groups[g])]
<1>1. \A x \in DirectoryType :
         Durable(x) = [users |-> x.users, loggedIn |-> {}, owners |-> x.owners,
                       groups |-> G(x)]
  BY DurableType
<1>2. Durable(d) = Durable(e) <=>
        d.users = e.users /\ d.owners = e.owners /\ G(d) = G(e)
  <2> HIDE DEF G
  <2> QED  BY <1>1
<1>3. ASSUME NEW g \in GroupId
      PROVE  SameGroup(d.groups[g], e.groups[g]) <=> G(d)[g] = G(e)[g]
  <2>1. /\ d.groups[g] \in GroupType \cup {None}
        /\ e.groups[g] \in GroupType \cup {None}
    BY DEF DirectoryType
  <2> QED  BY <2>1, SameGroupMeans
<1>4. G(d) = G(e) <=> \A g \in GroupId : G(d)[g] = G(e)[g]
  OBVIOUS
<1> QED  BY <1>2, <1>3, <1>4 DEF Same

(* Who is logged in makes no difference, *)
LEMMA SameBut ==
    \A d, e : d.users = e.users /\ d.owners = e.owners /\ d.groups = e.groups
                => Same(d, e)
<1>1. \A a : SameFile(a, a)
  BY DEF SameFile
<1>2. \A x : SameGroup(x, x)
  BY <1>1, Zenon DEF SameGroup
<1> QED  BY <1>2, Zenon DEF Same

(* nor do the seeders. *)
LEMMA SameDurable ==
    ASSUME NEW d \in DirectoryType
    PROVE  Same(d, Durable(d)) /\ Same(Durable(d), d)
<1> DEFINE e == Durable(d)
<1>1. ASSUME NEW g \in GroupId
      PROVE  SameGroup(d.groups[g], e.groups[g]) /\ SameGroup(e.groups[g], d.groups[g])
  <2>1. /\ d.groups[g] \in GroupType \cup {None}
        /\ e.groups[g] = IF d.groups[g] = None THEN None ELSE Unseeded(d.groups[g])
    <3>1. d.groups[g] \in GroupType \cup {None}
      BY DEF DirectoryType
    <3>2. e.groups = [h \in GroupId |-> IF d.groups[h] = None THEN None
                                        ELSE Unseeded(d.groups[h])]
      BY DurableType, Zenon
    <3> HIDE DEF e
    <3> QED  BY <3>1, <3>2
  <2>2. ASSUME NEW x \in GroupType
        PROVE  SameGroup(x, Unseeded(x)) /\ SameGroup(Unseeded(x), x)
    <3>1. ASSUME NEW f \in FileName
          PROVE  /\ SameFile(x.files[f], Unseeded(x).files[f])
                 /\ SameFile(Unseeded(x).files[f], x.files[f])
      <4>1. /\ x.files[f] = None => Unseeded(x).files[f] = None
            /\ x.files[f] # None =>
                  Unseeded(x).files[f] = [by |-> x.files[f].by, seeders |-> {}]
        BY UnseededType
      <4>2. x.files[f] # None => [by |-> x.files[f].by, seeders |-> {}] # None
        BY NoneAssumption DEF FileType, GroupType
      <4> QED  BY <4>1, <4>2 DEF SameFile
    <3>2. /\ Unseeded(x).owner = x.owner /\ Unseeded(x).members = x.members
          /\ Unseeded(x).requests = x.requests /\ Unseeded(x) # None /\ x # None
      BY UnseededType, NoneAssumption
    <3> QED  BY <3>1, <3>2 DEF SameGroup
  <2>3. SameGroup(None, None)
    BY DEF SameGroup
  <2> QED  BY <2>1, <2>2, <2>3
<1>2. e.users = d.users /\ e.owners = d.owners
  <2>1. e = [users |-> d.users, loggedIn |-> {}, owners |-> d.owners,
             groups |-> e.groups]
    BY DurableType, Zenon
  <2> HIDE DEF e
  <2> QED  BY <2>1
<1> HIDE DEF e
<1>4. Same(d, e) /\ Same(e, d)
  BY <1>1, <1>2 DEF Same
<1> QED  BY <1>4 DEF e

(* The same write to one group on either side. *)
LEMMA SameStep ==
    ASSUME NEW d \in DirectoryType, NEW e \in DirectoryType, Same(d, e),
           NEW g \in GroupId, NEW x \in GroupType, NEW y \in GroupType,
           x.owner = y.owner, x.members = y.members, x.requests = y.requests,
           \A f \in FileName : SameFile(x.files[f], y.files[f])
    PROVE  Same([d EXCEPT !.groups[g] = x], [e EXCEPT !.groups[g] = y])
<1> DEFINE a == [d EXCEPT !.groups[g] = x]
           b == [e EXCEPT !.groups[g] = y]
<1>1. SameGroup(x, y)
  BY NoneAssumption DEF SameGroup
<1>2. /\ a.users = d.users /\ a.owners = d.owners
      /\ b.users = e.users /\ b.owners = e.owners
      /\ a.groups = [d.groups EXCEPT ![g] = x]
      /\ b.groups = [e.groups EXCEPT ![g] = y]
      /\ d.groups = [h \in GroupId |-> d.groups[h]]
      /\ e.groups = [h \in GroupId |-> e.groups[h]]
  BY DEF DirectoryType
<1> HIDE DEF a, b
<1>3. ASSUME NEW h \in GroupId PROVE SameGroup(a.groups[h], b.groups[h])
  <2>1. CASE h = g
    BY <1>1, <1>2, <2>1
  <2>2. CASE h # g
    BY <1>2, <2>2 DEF Same
  <2> QED  BY <2>1, <2>2
<1>4. Same(a, b)
  BY <1>2, <1>3 DEF Same
<1> QED  BY <1>4 DEF a, b

(* One write, made to either of two directories with the same durable part,  *)
(* leaves them with the same durable part.                                   *)
LEMMA SameAddUser ==
    ASSUME NEW d \in DirectoryType, NEW e \in DirectoryType, Same(d, e), NEW u, NEW p
    PROVE  Same(AddUser(d, u, p), AddUser(e, u, p))
BY DEF AddUser, Same, DirectoryType

LEMMA SameAddGroup ==
    ASSUME NEW d \in DirectoryType, NEW e \in DirectoryType, Same(d, e), NEW g, NEW u
    PROVE  Same(AddGroup(d, g, u), AddGroup(e, g, u))
<1> DEFINE a == AddGroup(d, g, u)
           b == AddGroup(e, g, u)
<1>1. SameGroup(NewGroup(u), NewGroup(u))
  BY DEF SameGroup, SameFile
<1>2. /\ a.users = d.users /\ b.users = e.users
      /\ a.owners = d.owners \cup {u} /\ b.owners = e.owners \cup {u}
      /\ a.groups = [d.groups EXCEPT ![g] = NewGroup(u)]
      /\ b.groups = [e.groups EXCEPT ![g] = NewGroup(u)]
      /\ d.groups = [h \in GroupId |-> d.groups[h]]
      /\ e.groups = [h \in GroupId |-> e.groups[h]]
  BY DEF AddGroup, DirectoryType
<1> HIDE DEF a, b
<1>3. ASSUME NEW h \in GroupId PROVE SameGroup(a.groups[h], b.groups[h])
  <2>1. CASE h = g
    BY <1>1, <1>2, <2>1
  <2>2. CASE h # g
    BY <1>2, <2>2 DEF Same
  <2> QED  BY <2>1, <2>2
<1>4. Same(a, b)
  BY <1>2, <1>3 DEF Same
<1> QED  BY <1>4 DEF a, b

LEMMA SameExists ==
    ASSUME NEW d \in DirectoryType, NEW e \in DirectoryType, Same(d, e),
           NEW g \in GroupId \cup {None}, Exists(d, g)
    PROVE  /\ g \in GroupId /\ Exists(e, g)
           /\ d.groups[g] \in GroupType /\ e.groups[g] \in GroupType
           /\ d.groups[g].owner = e.groups[g].owner
           /\ d.groups[g].members = e.groups[g].members
           /\ d.groups[g].requests = e.groups[g].requests
           /\ \A f \in FileName :
                 SameFile(d.groups[g].files[f], e.groups[g].files[f])
BY DEF Exists, Same, SameGroup, DirectoryType

LEMMA SameAddRequest ==
    ASSUME NEW d \in DirectoryType, NEW e \in DirectoryType, Same(d, e),
           NEW g \in GroupId \cup {None}, Exists(d, g), NEW u \in Name
    PROVE  Same(AddRequest(d, g, u), AddRequest(e, g, u))
<1> DEFINE x == d.groups[g]
           y == e.groups[g]
           x1 == [x EXCEPT !.requests = @ \cup {u}]
           y1 == [y EXCEPT !.requests = @ \cup {u}]
<1>1. /\ g \in GroupId /\ x \in GroupType /\ y \in GroupType
      /\ x.owner = y.owner /\ x.members = y.members /\ x.requests = y.requests
      /\ \A f \in FileName : SameFile(x.files[f], y.files[f])
  BY SameExists
<1>2. /\ AddRequest(d, g, u) = [d EXCEPT !.groups[g] = x1]
      /\ AddRequest(e, g, u) = [e EXCEPT !.groups[g] = y1]
  BY DEF AddRequest
<1>3. /\ x1 \in GroupType /\ x1.owner = x.owner /\ x1.members = x.members
      /\ x1.requests = x.requests \cup {u} /\ x1.files = x.files
      /\ y1 \in GroupType /\ y1.owner = y.owner /\ y1.members = y.members
      /\ y1.requests = y.requests \cup {u} /\ y1.files = y.files
  <2> HIDE DEF x, y
  <2> QED  BY <1>1 DEF GroupType
<1> HIDE DEF x1, y1, x, y
<1>4. Same([d EXCEPT !.groups[g] = x1], [e EXCEPT !.groups[g] = y1])
  BY <1>1, <1>2, <1>3, SameStep
<1> QED  BY <1>2, <1>4

LEMMA SameRemoveUser ==
    ASSUME NEW d \in DirectoryType, NEW e \in DirectoryType, Same(d, e),
           NEW g \in GroupId \cup {None}, Exists(d, g), NEW u
    PROVE  Same(RemoveUser(d, g, u), RemoveUser(e, g, u))
<1> DEFINE x == d.groups[g]
           y == e.groups[g]
           x1 == [x EXCEPT !.members = @ \ {u}]
           y1 == [y EXCEPT !.members = @ \ {u}]
<1>1. /\ g \in GroupId /\ x \in GroupType /\ y \in GroupType
      /\ x.owner = y.owner /\ x.members = y.members /\ x.requests = y.requests
      /\ \A f \in FileName : SameFile(x.files[f], y.files[f])
  BY SameExists
<1>2. /\ RemoveUser(d, g, u) = [d EXCEPT !.groups[g] = x1]
      /\ RemoveUser(e, g, u) = [e EXCEPT !.groups[g] = y1]
  BY DEF RemoveUser
<1>3. /\ x1 \in GroupType /\ x1.owner = x.owner /\ x1.requests = x.requests
      /\ x1.members = x.members \ {u} /\ x1.files = x.files
      /\ y1 \in GroupType /\ y1.owner = y.owner /\ y1.requests = y.requests
      /\ y1.members = y.members \ {u} /\ y1.files = y.files
  <2> HIDE DEF x, y
  <2> QED  BY <1>1 DEF GroupType
<1> HIDE DEF x1, y1, x, y
<1>4. Same([d EXCEPT !.groups[g] = x1], [e EXCEPT !.groups[g] = y1])
  BY <1>1, <1>2, <1>3, SameStep
<1> QED  BY <1>2, <1>4

LEMMA SameAccept ==
    ASSUME NEW d \in DirectoryType, NEW e \in DirectoryType, Same(d, e),
           NEW g \in GroupId \cup {None}, Exists(d, g), NEW u
    PROVE  Same(Accept(d, g, u), Accept(e, g, u))
<1> DEFINE x == d.groups[g]
           y == e.groups[g]
           x1 == [x EXCEPT !.members = @ \cup (x.requests \cap {u}),
                           !.requests = @ \ (x.requests \cap {u})]
           y1 == [y EXCEPT !.members = @ \cup (y.requests \cap {u}),
                           !.requests = @ \ (y.requests \cap {u})]
<1>1. /\ g \in GroupId /\ x \in GroupType /\ y \in GroupType
      /\ x.owner = y.owner /\ x.members = y.members /\ x.requests = y.requests
      /\ \A f \in FileName : SameFile(x.files[f], y.files[f])
  BY SameExists
<1>2. Accept(d, g, u) = [d EXCEPT !.groups[g] = x1]
  BY <1>1 DEF Accept, DirectoryType, GroupType
<1>3. Accept(e, g, u) = [e EXCEPT !.groups[g] = y1]
  BY <1>1 DEF Accept, DirectoryType, GroupType
<1>4. /\ x1 \in GroupType /\ x1.owner = x.owner /\ x1.files = x.files
      /\ x1.members = x.members \cup (x.requests \cap {u})
      /\ x1.requests = x.requests \ (x.requests \cap {u})
      /\ y1 \in GroupType /\ y1.owner = y.owner /\ y1.files = y.files
      /\ y1.members = y.members \cup (y.requests \cap {u})
      /\ y1.requests = y.requests \ (y.requests \cap {u})
  <2> HIDE DEF x, y
  <2> QED  BY <1>1 DEF GroupType
<1> HIDE DEF x1, y1, x, y
<1>5. Same([d EXCEPT !.groups[g] = x1], [e EXCEPT !.groups[g] = y1])
  BY <1>1, <1>2, <1>3, <1>4, SameStep
<1> QED  BY <1>2, <1>3, <1>5

(* A file entry in a group's list; whom it names as seeders does not matter. *)
Put(d, g, f, v) == [d EXCEPT !.groups[g] = [d.groups[g] EXCEPT !.files[f] = v]]

WithFile(x1, x, f, v) ==
    /\ x1 = [x EXCEPT !.files[f] = v]
    /\ x1.owner = x.owner /\ x1.members = x.members
    /\ x1.requests = x.requests
    /\ x1.files = [x.files EXCEPT ![f] = v]
    /\ DOMAIN x.files = FileName

LEMMA PutType ==
    ASSUME NEW x \in GroupType, NEW f, NEW v \in FileType \cup {None}
    PROVE  \E x1 \in GroupType : WithFile(x1, x, f, v)
<1> DEFINE x1 == [x EXCEPT !.files[f] = v]
<1>1. /\ x1 \in GroupType
      /\ x1.owner = x.owner /\ x1.members = x.members
      /\ x1.requests = x.requests
      /\ x1.files = [x.files EXCEPT ![f] = v]
      /\ DOMAIN x.files = FileName
  BY DEF GroupType
<1>2. WithFile(x1, x, f, v)
  BY <1>1, Zenon DEF WithFile
<1> QED  BY <1>1, <1>2

LEMMA SamePut ==
    ASSUME NEW d \in DirectoryType, NEW e \in DirectoryType, Same(d, e),
           NEW g \in GroupId \cup {None}, Exists(d, g), NEW f,
           NEW v \in FileType \cup {None}, NEW w \in FileType \cup {None},
           SameFile(v, w)
    PROVE  Same(Put(d, g, f, v), Put(e, g, f, w))
<1> DEFINE x == d.groups[g]
           y == e.groups[g]
<1>1. /\ g \in GroupId /\ x \in GroupType /\ y \in GroupType
      /\ x.owner = y.owner /\ x.members = y.members /\ x.requests = y.requests
      /\ \A h \in FileName : SameFile(x.files[h], y.files[h])
  BY SameExists
<1> HIDE DEF x, y
<1>2. PICK x1 \in GroupType : WithFile(x1, x, f, v)
  BY <1>1, PutType
<1>3. PICK y1 \in GroupType : WithFile(y1, y, f, w)
  BY <1>1, PutType
<1>4. \A h \in FileName : SameFile(x1.files[h], y1.files[h])
  BY <1>1, <1>2, <1>3 DEF WithFile
<1>5. Same([d EXCEPT !.groups[g] = x1], [e EXCEPT !.groups[g] = y1])
  BY <1>1, <1>2, <1>3, <1>4, SameStep DEF WithFile
<1> QED  BY <1>2, <1>3, <1>5 DEF Put, WithFile, x, y

LEMMA SameAddFile ==
    ASSUME NEW d \in DirectoryType, NEW e \in DirectoryType, Same(d, e),
           NEW g \in GroupId \cup {None}, Exists(d, g), NEW f, NEW u \in Name,
           NEW S \in SUBSET Session, NEW T \in SUBSET Session
    PROVE  Same(AddFile(d, g, f, u, S), AddFile(e, g, f, u, T))
<1> DEFINE v == [by |-> u, seeders |-> S]
           w == [by |-> u, seeders |-> T]
<1>1. v \in FileType /\ w \in FileType /\ v.by = w.by
  BY DEF FileType
<1>2. /\ AddFile(d, g, f, u, S) = Put(d, g, f, v)
      /\ AddFile(e, g, f, u, T) = Put(e, g, f, w)
  BY DEF AddFile, Put
<1> HIDE DEF v, w
<1>3. SameFile(v, w)
  BY <1>1, NoneAssumption DEF SameFile
<1> QED  BY <1>1, <1>2, <1>3, SamePut

LEMMA SameRemoveFile ==
    ASSUME NEW d \in DirectoryType, NEW e \in DirectoryType, Same(d, e),
           NEW g \in GroupId \cup {None}, Exists(d, g), NEW f
    PROVE  Same(RemoveFile(d, g, f), RemoveFile(e, g, f))
<1>1. /\ RemoveFile(d, g, f) = Put(d, g, f, None)
      /\ RemoveFile(e, g, f) = Put(e, g, f, None)
  BY DEF RemoveFile, Put
<1>2. SameFile(None, None)
  BY DEF SameFile
<1> QED  BY <1>1, <1>2, SamePut

(* Another seeder makes no difference. *)
LEMMA SameAddSeeder ==
    ASSUME NEW d \in DirectoryType, NEW e \in DirectoryType, Same(d, e),
           NEW g \in GroupId \cup {None}, NEW f, Listed(d, g, f),
           NEW s \in Session
    PROVE  Same(AddSeeder(d, g, f, s), e)
<1> DEFINE x == d.groups[g]
           y == e.groups[g]
           v == [x.files[f] EXCEPT !.seeders = @ \cup {s}]
<1>1. /\ Exists(d, g) /\ g \in GroupId /\ x \in GroupType /\ y \in GroupType
      /\ x.files \in [FileName -> FileType \cup {None}]
      /\ y.files \in [FileName -> FileType \cup {None}]
      /\ \A h \in FileName : SameFile(x.files[h], y.files[h])
      /\ x.files[f] # None
  BY SameExists DEF Listed, GroupType
<1>2. AddSeeder(d, g, f, s) = Put(d, g, f, v)
  BY ZenonT(30) DEF AddSeeder, Put
<1>3. CASE f \in FileName
  <2>1. x.files[f] \in FileType
    BY <1>1, <1>3
  <2>2. v \in FileType /\ v.by = x.files[f].by
    <3> HIDE DEF x
    <3> QED  BY <2>1 DEF FileType
  <2>3. y.files[f] \in FileType \cup {None}
    BY <1>1, <1>3
  <2>4. SameFile(v, y.files[f])
    <3>1. SameFile(x.files[f], y.files[f])
      BY <1>1, <1>3
    <3> HIDE DEF v, x, y
    <3> QED  BY <1>1, <2>1, <2>2, <3>1, NoneAssumption DEF SameFile
  <2>5. Put(e, g, f, y.files[f]) = e
    <3>1. [y EXCEPT !.files[f] = y.files[f]] = y
      <4> HIDE DEF y
      <4> QED  BY <1>1 DEF GroupType
    <3>2. [e EXCEPT !.groups[g] = y] = e
      BY <1>1 DEF DirectoryType
    <3> QED  BY <3>1, <3>2, Zenon DEF Put
  <2> HIDE DEF v, x, y
  <2>6. Same(Put(d, g, f, v), Put(e, g, f, y.files[f]))
    BY <1>1, <2>2, <2>3, <2>4, SamePut
  <2> QED  BY <1>2, <2>5, <2>6
<1>4. CASE f \notin FileName
  <2>1. [x EXCEPT !.files[f] = v] = x
    <3> HIDE DEF v, x
    <3> QED  BY <1>1, <1>4 DEF GroupType
  <2>2. [d EXCEPT !.groups[g] = x] = d
    BY <1>1 DEF DirectoryType
  <2>3. Put(d, g, f, v) = d
    BY <2>1, <2>2, Zenon DEF Put
  <2> QED  BY <1>2, <2>3
<1> QED  BY <1>3, <1>4

(* What Replay does with a message is what Serve did with its command, to a  *)
(* directory with the same durable part: only a user it does not know would  *)
(* make it drop the message.                                                 *)
LEMMA ReplaySame ==
    ASSUME NEW d \in DirectoryType, NEW e \in DirectoryType, Same(d, e),
           NEW m \in MessageType, Allowed(d, m),
           m.by # None => Known(d, m.by)
    PROVE  Same(Serve(d, m), Replay(e, m))
<1> DEFINE k == m.cmd
           g == k.g
<1>0. /\ k \in CommandType /\ m.by \in Name \cup {None} /\ m.at \in Session
      /\ g \in GroupId \cup {None}
  BY DEF MessageType, CommandType
<1>u. \A u : Known(d, u) <=> Known(e, u)
  BY DEF Same, Known
<1>g. Exists(d, g) => Exists(e, g)
  BY <1>0, SameExists
<1>1. CASE k.op = "create_user"
  <2>1. Serve(d, m) = AddUser(d, k.u, k.p) /\ Replay(e, m) = AddUser(e, k.u, k.p)
    BY <1>1, <1>u DEF Serve, Replay, Replayable, Allowed
  <2> QED  BY <2>1, SameAddUser
<1>2. CASE k.op = "login"
  <2>1. Serve(d, m) = [d EXCEPT !.loggedIn = @ \cup {k.u}]
    BY <1>2 DEF Serve
  <2>2. Replay(e, m) = e \/ Replay(e, m) = [e EXCEPT !.loggedIn = @ \cup {k.p}]
    BY <1>2 DEF Replay
  <2> QED  BY <2>1, <2>2 DEF Same, DirectoryType
<1>3. CASE k.op = "create_group"
  <2>1. /\ Serve(d, m) = AddGroup(d, g, m.by)
        /\ Replay(e, m) = AddGroup(e, g, m.by)
    BY <1>3, <1>u DEF Serve, Replay, Replayable, Allowed
  <2> QED  BY <2>1, SameAddGroup
<1>4. CASE k.op = "join_group"
  <2>1. Exists(d, g) /\ m.by # None /\ m.by \in Name
    BY <1>0, <1>4 DEF Allowed
  <2>2. /\ Serve(d, m) = AddRequest(d, g, m.by)
        /\ Replay(e, m) = AddRequest(e, g, m.by)
    BY <1>4, <1>g, <1>u, <2>1 DEF Serve, Replay, Replayable
  <2> HIDE DEF g
  <2> QED  BY <1>0, <2>1, <2>2, SameAddRequest
<1>5. CASE k.op = "leave_group"
  <2>1. Exists(d, g) /\ m.by # None
    BY <1>5 DEF Allowed
  <2>2. /\ Serve(d, m) = RemoveUser(d, g, m.by)
        /\ Replay(e, m) = RemoveUser(e, g, m.by)
    BY <1>5, <1>g, <1>u, <2>1 DEF Serve, Replay, Replayable
  <2> HIDE DEF g
  <2> QED  BY <1>0, <2>1, <2>2, SameRemoveUser
<1>6. CASE k.op = "accept_request"
  <2>1. Exists(d, g)
    BY <1>6 DEF Allowed
  <2>2. Serve(d, m) = Accept(d, g, k.u) /\ Replay(e, m) = Accept(e, g, k.u)
    BY <1>6, <1>g, <2>1 DEF Serve, Replay, Replayable
  <2> HIDE DEF g
  <2> QED  BY <1>0, <2>1, <2>2, SameAccept
<1>7. CASE k.op = "upload_file"
  <2>1. Exists(d, g) /\ m.by # None /\ m.by \in Name
    BY <1>0, <1>7 DEF Allowed
  <2>2. /\ Serve(d, m) = AddFile(d, g, k.f, m.by, {m.at})
        /\ Replay(e, m) = AddFile(e, g, k.f, m.by, {})
    BY <1>7, <1>g, <2>1 DEF Serve, Replay, Replayable
  <2>3. {m.at} \in SUBSET Session /\ {} \in SUBSET Session
    BY <1>0
  <2> HIDE DEF g
  <2> QED  BY <1>0, <2>1, <2>2, <2>3, SameAddFile
<1>8. CASE k.op = "stop_share"
  <2>1. Exists(d, g)
    BY <1>8 DEF Allowed, Listed
  <2>2. Serve(d, m) = RemoveFile(d, g, k.f) /\ Replay(e, m) = RemoveFile(e, g, k.f)
    BY <1>8, <1>g, <2>1 DEF Serve, Replay, Replayable
  <2> HIDE DEF g
  <2> QED  BY <1>0, <2>1, <2>2, SameRemoveFile
<1>9. CASE k.op = "piece_completed"
  <2>1. Listed(d, g, k.f)
    BY <1>9, Zenon DEF Allowed
  <2>2. Serve(d, m) = AddSeeder(d, g, k.f, m.at) /\ Replay(e, m) = e
    BY <1>9 DEF Serve, Replay, Replayable
  <2> HIDE DEF g
  <2> QED  BY <1>0, <2>1, <2>2, SameAddSeeder
<1> QED  BY <1>0, <1>1, <1>2, <1>3, <1>4, <1>5, <1>6, <1>7, <1>8, <1>9
         DEF CommandType

(* What Replay does with a message depends on the durable part alone, *)
(* for messages that name the user who uploads.                       *)
LEMMA ReplayAlike ==
    ASSUME NEW d \in DirectoryType, NEW e \in DirectoryType, Same(d, e),
           NEW m \in MessageType, m.cmd.op = "upload_file" => m.by # None
    PROVE  Same(Replay(d, m), Replay(e, m))
<1> DEFINE k == m.cmd
           g == k.g
<1>0. /\ k \in CommandType /\ m.by \in Name \cup {None} /\ g \in GroupId \cup {None}
  BY DEF MessageType, CommandType
<1>u. \A u : Known(d, u) <=> Known(e, u)
  BY DEF Same, Known
<1>g. Exists(d, g) <=> Exists(e, g)
  BY <1>0 DEF Same, SameGroup, Exists
<1>r. Replayable(d, m) <=> Replayable(e, m)
  BY <1>0, <1>u, <1>g DEF Replayable, CommandType
<1>n. CASE ~ Replayable(d, m)
  BY <1>r, <1>n DEF Replay
<1>1. CASE k.op = "create_user" /\ Replayable(d, m)
  <2>1. Replay(d, m) = AddUser(d, k.u, k.p) /\ Replay(e, m) = AddUser(e, k.u, k.p)
    BY <1>1, <1>r DEF Replay
  <2> QED  BY <2>1, SameAddUser
<1>2. CASE k.op = "login" /\ Replayable(d, m)
  <2>1. /\ Replay(d, m) = [d EXCEPT !.loggedIn = @ \cup {k.p}]
        /\ Replay(e, m) = [e EXCEPT !.loggedIn = @ \cup {k.p}]
    BY <1>2, <1>r DEF Replay
  <2> QED  BY <2>1 DEF Same, DirectoryType
<1>3. CASE k.op = "create_group" /\ Replayable(d, m)
  <2>1. /\ Replay(d, m) = AddGroup(d, g, m.by)
        /\ Replay(e, m) = AddGroup(e, g, m.by)
    BY <1>3, <1>r DEF Replay
  <2> QED  BY <2>1, SameAddGroup
<1>4. CASE k.op = "join_group" /\ Replayable(d, m)
  <2>1. Exists(d, g) /\ m.by \in Name
    BY <1>0, <1>4 DEF Replayable, Known
  <2>2. /\ Replay(d, m) = AddRequest(d, g, m.by)
        /\ Replay(e, m) = AddRequest(e, g, m.by)
    BY <1>4, <1>r DEF Replay
  <2> HIDE DEF g
  <2> QED  BY <1>0, <2>1, <2>2, SameAddRequest
<1>5. CASE k.op = "leave_group" /\ Replayable(d, m)
  <2>1. Exists(d, g)
    BY <1>5 DEF Replayable
  <2>2. /\ Replay(d, m) = RemoveUser(d, g, m.by)
        /\ Replay(e, m) = RemoveUser(e, g, m.by)
    BY <1>5, <1>r DEF Replay
  <2> HIDE DEF g
  <2> QED  BY <1>0, <2>1, <2>2, SameRemoveUser
<1>6. CASE k.op = "accept_request" /\ Replayable(d, m)
  <2>1. Exists(d, g)
    BY <1>6 DEF Replayable
  <2>2. Replay(d, m) = Accept(d, g, k.u) /\ Replay(e, m) = Accept(e, g, k.u)
    BY <1>6, <1>r DEF Replay
  <2> HIDE DEF g
  <2> QED  BY <1>0, <2>1, <2>2, SameAccept
<1>7. CASE k.op = "upload_file" /\ Replayable(d, m)
  <2>1. Exists(d, g) /\ m.by \in Name
    BY <1>0, <1>7 DEF Replayable
  <2>2. /\ Replay(d, m) = AddFile(d, g, k.f, m.by, {})
        /\ Replay(e, m) = AddFile(e, g, k.f, m.by, {})
    BY <1>7, <1>r DEF Replay
  <2> HIDE DEF g
  <2> QED  BY <1>0, <2>1, <2>2, SameAddFile
<1>8. CASE k.op = "stop_share" /\ Replayable(d, m)
  <2>1. Exists(d, g)
    BY <1>8 DEF Replayable
  <2>2. Replay(d, m) = RemoveFile(d, g, k.f) /\ Replay(e, m) = RemoveFile(e, g, k.f)
    BY <1>8, <1>r DEF Replay
  <2> HIDE DEF g
  <2> QED  BY <1>0, <2>1, <2>2, SameRemoveFile
<1>9. CASE k.op = "piece_completed"
  BY <1>9, <1>n DEF Replayable
<1> QED  BY <1>0, <1>n, <1>1, <1>2, <1>3, <1>4, <1>5, <1>6, <1>7, <1>8, <1>9
         DEF CommandType

-----------------------------------------------------------------------------
(* One client, and trackers that all run. *)

(* No tracker misses a message, tracker 0 announces each to every other      *)
(* once, and serves the client, whose name it knows, or nobody.              *)
Undivided ==
    /\ Faulty = {}
    /\ \A t \in Tracker : up[t] /\ pendingMessages[t] = <<>> /\ temp[t] = <<>>
    /\ crashes = [t \in Tracker |-> 0]
    /\ isPrimary[0] /\ inbox[0] = <<>>
    /\ \A s \in Session :
          /\ trackerIndex[s] \in {0, N}
          /\ clientName[s] # None => Known(dir[0], clientName[s])
          /\ \A i \in 1 .. Len(to[s]) :
                to[s][i] # 0 /\ \A j \in 1 .. Len(to[s]) :
                                   to[s][i] = to[s][j] => i = j

(* What tracker r will have replayed when it is through with the command of  *)
(* client s.                                                                 *)
Coming(s, r) ==
    phase[s] = "announce" \/ \E i \in 1 .. Len(to[s]) : to[s][i] = r
Due(s, r) == IF Coming(s, r) THEN Append(inbox[r], msg[s]) ELSE inbox[r]

Behind(s) == \A r \in Tracker \ {0} :
                Durable(Replayed(dir[r], Due(s, r))) = Durable(dir[0])

LEMMA OthersOfZero ==
    /\ \A r \in Tracker \ {0} : \E i \in 1 .. Len(Others(0)) : Others(0)[i] = r
    /\ \A i \in 1 .. Len(Others(0)) :
          Others(0)[i] # 0 /\ \A j \in 1 .. Len(Others(0)) :
                                 Others(0)[i] = Others(0)[j] => i = j
<1>1. N \in Nat \ {0} /\ 0 \in Tracker /\ Tracker = 0 .. N - 1
  BY SyncAssumption DEF Tracker
<1>2. Len(Others(0)) = N - 1
  BY <1>1, OthersType
<1>3. \A i \in 1 .. N - 1 : Others(0)[i] = i
  BY <1>1 DEF Others
<1> QED  BY <1>1, <1>2, <1>3

(* A user that is known stays known to the tracker that serves its command.  *)
LEMMA ServeKnows ==
    ASSUME NEW d \in DirectoryType, NEW m \in MessageType, Allowed(d, m),
           NEW u, Known(d, u)
    PROVE  Known(Serve(d, m), u)
<1> DEFINE k == m.cmd
<1>1. CASE k.op = "create_user"
  <2>1. Serve(d, m).users = [d.users EXCEPT ![k.u] = k.p] /\ u # k.u
    BY <1>1 DEF Serve, Allowed, AddUser, DirectoryType
  <2> QED  BY <2>1 DEF Known, DirectoryType
<1>2. CASE k.op # "create_user"
  <2>1. Serve(d, m).users = d.users
    <3>1. k.op \in {"login", "create_group", "join_group", "leave_group",
                    "accept_request", "upload_file", "stop_share",
                    "piece_completed"}
      BY <1>2 DEF MessageType, CommandType
    <3> HIDE DEF k
    <3> QED  BY <3>1 DEF Serve, AddGroup, AddRequest, RemoveUser, Accept,
                AddFile, RemoveFile, AddSeeder, DirectoryType, k
  <2> QED  BY <2>1 DEF Known
<1> QED  BY <1>1, <1>2

LEMMA ReplayedType ==
    ASSUME NEW d \in DirectoryType, NEW I,
           I \subseteq MessageType, \A m \in I : m.cmd.op = "upload_file" => m.by # None,
           NEW q \in Seq(I)
    PROVE  Replayed(d, q) \in DirectoryType
<1>1. PICK g : IsReplay(g, d, q, Len(q)) /\ Replayed(d, q) = g[1 .. Len(q)]
  BY ReplayedIs
<1> DEFINE n == Len(q)
           A == {k \in Nat : k <= n => g[1 .. k] \in DirectoryType}
<1>2. n \in Nat /\ \A k \in 1 .. n : q[k] \in I
  OBVIOUS
<1> HIDE DEF n
<1>3. 0 \in A
  BY <1>1, <1>2, ReplayAt DEF n
<1>4. ASSUME NEW k \in Nat, k \in A PROVE k + 1 \in A
  <2> SUFFICES ASSUME k + 1 <= n PROVE g[1 .. k + 1] \in DirectoryType
    OBVIOUS
  <2>1. k < n /\ k + 1 \in 1 .. n
    BY <1>2
  <2>2. g[1 .. k + 1] = Replay(g[1 .. k], q[k + 1])
    BY <1>1, <1>2, <2>1, ReplayAt DEF n
  <2>3. g[1 .. k] \in DirectoryType /\ q[k + 1] \in I
    BY <1>2, <1>4, <2>1
  <2> QED  BY <2>2, <2>3, ReplayType
<1> HIDE DEF A
<1>5. n \in A
  BY <1>2, <1>3, <1>4, SetInduction
<1> QED  BY <1>1, <1>2, <1>5 DEF A, n

-----------------------------------------------------------------------------

Together == /\ Started = Tracker
            /\ MaxCrashes = [t \in Tracker |-> 0]
            /\ Faulty = {}

LEMMA InitUndivided ==
    ASSUME Together, NEW s \in Session, Init
    PROVE  Undivided /\ Behind(s)
<1>1. 0 \in Tracker
  BY SyncAssumption DEF Tracker
<1>2. Undivided
  BY <1>1 DEF Init, Undivided, Together
<1>3. ASSUME NEW r \in Tracker \ {0}
      PROVE  Due(s, r) = <<>> /\ dir[r] = Standing /\ dir[0] = Standing
  BY <1>1 DEF Init, Due, Coming, Together
<1> QED  BY <1>2, <1>3, ReplayedNone DEF Behind

LEMMA NoFaults ==
    ASSUME Together, Undivided, NEW t \in Tracker
    PROVE  ~ Start(t) /\ ~ Crash(t) /\ ~ FlushBegin(t) /\ ~ FlushOne(t)
BY DEF Start, Crash, FlushBegin, FlushOne, Undivided, Together

LEMMA NextUndivided ==
    ASSUME Together, Inv, Undivided, [Next]_vars
    PROVE  Undivided'
<1>0. 0 \in Tracker /\ N \in Nat \ {0}
  BY SyncAssumption DEF Tracker
<1>1. ASSUME UNCHANGED <<up, crashes, dir, isPrimary, pendingMessages, temp,
                         inbox, trackerIndex, clientName, to>>
      PROVE  Undivided'
  BY <1>1 DEF Undivided
<1>4. ASSUME NEW t \in Tracker, EndRound(t) PROVE Undivided'
  BY <1>0, <1>4 DEF EndRound, Undivided, Inv, Typed, processVars, queueVars,
     clientVars, threadVars
<1>5. ASSUME NEW r \in Tracker, HandleSync(r) PROVE Undivided'
  <2>1. r # 0
    BY <1>5 DEF HandleSync, Undivided
  <2>2. dir'[0] = dir[0] /\ inbox'[0] = inbox[0]
    BY <1>0, <1>5, <2>1 DEF HandleSync, Inv, Typed
  <2> QED  BY <1>5, <2>2 DEF HandleSync, Undivided, processVars, healthVars,
              queueVars, clientVars, threadVars, Known
<1>6. ASSUME NEW t \in Tracker, FlushEnd(t) PROVE Undivided'
  BY <1>6 DEF FlushEnd, Undivided, Inv, Typed, processVars, healthVars,
     clientVars, threadVars
<1>7. ASSUME NEW s \in Session, Connect(s) PROVE Undivided'
  <2>1. trackerIndex[s] = 0 /\ up[0]
    BY <1>0, <1>7 DEF Connect, Undivided
  <2>2. UNCHANGED trackerIndex
    BY <1>7, <2>1 DEF Connect
  <2> QED  BY <1>1, <1>7, <2>2 DEF Connect, processVars, healthVars, queueVars,
              threadVars
<1>8. ASSUME NEW s \in Session, connected[s] PROVE trackerIndex[s] = 0
  BY <1>0, <1>8 DEF Inv, Coupled, Undivided
<1>9. ASSUME NEW s \in Session, Quit(s) PROVE Undivided'
  <2>1. trackerIndex[s] = 0
    BY <1>8, <1>9 DEF Quit
  <2>2. dir' = [dir EXCEPT ![0].loggedIn = @ \ {clientName[s]}]
    BY <1>9, <2>1 DEF Quit
  <2>3. dir'[0].users = dir[0].users
    BY <1>0, <2>2 DEF Inv, Typed, DirectoryType
  <2> QED  BY <1>9, <2>3 DEF Quit, Undivided, Inv, Typed, processVars,
              healthVars, queueVars, Known
<1>10. ASSUME NEW s \in Session, NEW k \in Cmd, Command(s, k) PROVE Undivided'
  <2> DEFINE m == [cmd |-> k, by |-> clientName[s], at |-> s]
  <2>1. trackerIndex[s] = 0
    BY <1>8, <1>10 DEF Command
  <2>2. /\ Allowed(dir[0], m)
        /\ dir' = [dir EXCEPT ![0] = Serve(@, m)]
        /\ clientName' = [clientName EXCEPT
                             ![s] = IF k.op = "login" THEN k.u ELSE @]
        /\ UNCHANGED <<up, crashes, isPrimary, pendingMessages, temp, inbox,
                       trackerIndex, to>>
    BY <1>10, <2>1 DEF Command, processVars, healthVars, queueVars, clientVars
  <2>3. m \in MessageType
    BY SyncAssumption DEF Inv, Typed, MessageType
  <2>4. dir[0] \in DirectoryType /\ dir'[0] = Serve(dir[0], m)
    BY <1>0, <2>2 DEF Inv, Typed
  <2>5. \A u : Known(dir[0], u) => Known(dir'[0], u)
    <3> HIDE DEF m
    <3> QED  BY <2>2, <2>3, <2>4, ServeKnows
  <2>6. k.op = "login" => Known(dir[0], k.u)
    BY <2>2 DEF Allowed
  <2>7. ASSUME NEW r \in Session, clientName'[r] # None
        PROVE  Known(dir'[0], clientName'[r])
    <3>1. clientName'[r] = clientName[r] \/ (k.op = "login" /\ clientName'[r] = k.u)
      BY <2>2, <2>7 DEF Inv, Typed
    <3>2. Known(dir[0], clientName'[r])
      BY <2>6, <2>7, <3>1 DEF Undivided
    <3> QED  BY <2>5, <3>2
  <2>8. \A r \in Session : clientName'[r] # None => Known(dir[0], clientName[r])'
    BY <2>7 DEF Known
  <2> HIDE DEF m
  <2> QED  BY <2>2, <2>8 DEF Undivided
<1>11. ASSUME NEW s \in Session, Announce(s) PROVE Undivided'
  <2>1. trackerIndex[s] = 0
    BY <1>8, <1>11 DEF Announce, Inv, Coupled
  <2>2. to' = [to EXCEPT ![s] = Others(0)] \/ to' = to
    BY <1>11, <2>1 DEF Announce
  <2>3. \A r \in Session : to'[r] = to[r] \/ to'[r] = Others(0)
    BY <2>2 DEF Inv, Typed
  <2>4. UNCHANGED <<up, crashes, dir, isPrimary, pendingMessages, temp, inbox,
                    trackerIndex, clientName>>
    BY <1>11 DEF Announce, processVars, healthVars, queueVars, clientVars
  <2>5. ASSUME NEW r \in Session
        PROVE  \A i \in 1 .. Len(to'[r]) :
                  to'[r][i] # 0 /\ \A j \in 1 .. Len(to'[r]) :
                                     to'[r][i] = to'[r][j] => i = j
    <3>1. CASE to'[r] = to[r]
      BY <3>1 DEF Undivided
    <3>2. CASE to'[r] = Others(0)
      BY <3>2, OthersOfZero
    <3> QED  BY <2>3, <3>1, <3>2
  <2> QED  BY <2>4, <2>5 DEF Undivided
<1>12. ASSUME NEW s \in Session, SendSync(s) PROVE Undivided'
  <2>1. to[s] \in Seq(Tracker) /\ to[s] # <<>>
    BY <1>12 DEF SendSync, Inv, Typed, Coupled
  <2>2. Head(to[s]) = to[s][1] /\ 1 \in 1 .. Len(to[s]) /\ to[s][1] \in Tracker
    BY <2>1
  <2>3. Head(to[s]) # 0 /\ up[Head(to[s])]
    BY <2>2 DEF Undivided
  <2>4. inbox' = [inbox EXCEPT ![Head(to[s])] = Append(@, msg[s])]
    BY <1>12, <2>3 DEF SendSync, Deliver, Misses, Undivided
  <2>5. inbox'[0] = inbox[0]
    BY <1>0, <2>3, <2>4 DEF Inv, Typed
  <2>6. /\ to' = [to EXCEPT ![s] = Tail(@)]
        /\ UNCHANGED <<up, crashes, dir, isPrimary, pendingMessages, temp,
                       trackerIndex, clientName>>
    BY <1>12, <2>3
       DEF SendSync, Misses, Undivided, processVars, healthVars, clientVars
  <2>7. ASSUME NEW r \in Session
        PROVE  \A i \in 1 .. Len(to'[r]) :
                  to'[r][i] # 0 /\ \A j \in 1 .. Len(to'[r]) :
                                     to'[r][i] = to'[r][j] => i = j
    <3>1. CASE r # s
      BY <2>6, <3>1 DEF Undivided, Inv, Typed
    <3>2. CASE r = s
      <4>1. to'[s] = Tail(to[s])
        BY <2>6 DEF Inv, Typed
      <4>2. Len(to'[s]) = Len(to[s]) - 1
            /\ \A i \in 1 .. Len(to'[s]) : to'[s][i] = to[s][i + 1]
        BY <2>1, <4>1
      <4>3. \A i \in 1 .. Len(to[s]) :
                to[s][i] # 0 /\ \A j \in 1 .. Len(to[s]) :
                                   to[s][i] = to[s][j] => i = j
        BY DEF Undivided
      <4>4. /\ Len(to[s]) \in Nat
            /\ \A i \in 1 .. Len(to'[s]) : i + 1 \in 1 .. Len(to[s])
        BY <2>1, <4>2
      <4> SUFFICES ASSUME NEW i \in 1 .. Len(to'[s])
                   PROVE  to'[s][i] # 0 /\ \A j \in 1 .. Len(to'[s]) :
                                             to'[s][i] = to'[s][j] => i = j
        BY <3>2
      <4>5. to'[s][i] # 0
        BY <4>2, <4>3, <4>4
      <4>6. ASSUME NEW j \in 1 .. Len(to'[s]), to'[s][i] = to'[s][j]
            PROVE  i = j
        <5>1. i + 1 = j + 1
          BY <4>2, <4>3, <4>4, <4>6
        <5> QED  BY <4>2, <4>4, <5>1
      <4> QED  BY <4>5, <4>6
    <3> QED  BY <3>1, <3>2
  <2> QED  BY <2>5, <2>6, <2>7 DEF Undivided
<1>13. ASSUME NEW t \in Tracker, Probe(t) PROVE Undivided'
  BY <1>1, <1>13 DEF Probe, processVars, queueVars, clientVars, threadVars
<1>14. ASSUME UNCHANGED vars PROVE Undivided'
  BY <1>1, <1>14 DEF vars, processVars, healthVars, queueVars, clientVars,
     threadVars
<1> QED  BY <1>4, <1>5, <1>6, <1>7, <1>9, <1>10, <1>11, <1>12, <1>13, <1>14,
            NoFaults DEF Next

(* The messages due to a replica were issued. *)
LEMMA DueIssued ==
    ASSUME Inv, NEW s \in Session, NEW r \in Tracker
    PROVE  Due(s, r) \in Seq(issued) /\ inbox[r] \in Seq(issued)
<1>1. Coming(s, r) => phase[s] # "recv"
  <2>1. to[s] = <<>> => ~ \E i \in 1 .. Len(to[s]) : to[s][i] = r
    OBVIOUS
  <2> QED  BY <2>1 DEF Coming, Inv, Coupled
<1> QED  BY <1>1 DEF Due, Inv, Genuine

(* A step, as the directories and what is due to the replicas see it: the    *)
(* primary serves a command, a replica reads a message, or neither.          *)
Serves(s, m) ==
    /\ Allowed(dir[0], m) /\ (m.by # None => Known(dir[0], m.by))
    /\ m \in issued' /\ issued \subseteq issued'
    /\ dir'[0] = Serve(dir[0], m)
    /\ \A r \in Tracker \ {0} :
          dir'[r] = dir[r] /\ Due(s, r)' = Append(Due(s, r), m)

Reads(s, r) ==
    /\ Due(s, r) # <<>>
    /\ dir'[r] = Replay(dir[r], Head(Due(s, r)))
    /\ Due(s, r)' = Tail(Due(s, r))
    /\ dir'[0] = dir[0]
    /\ \A q \in Tracker \ {0, r} : dir'[q] = dir[q] /\ Due(s, q)' = Due(s, q)

Rests(s) ==
    /\ Durable(dir'[0]) = Durable(dir[0])
    /\ \A r \in Tracker \ {0} : dir'[r] = dir[r] /\ Due(s, r)' = Due(s, r)

(* Serving the client's command puts the same message at the end of what is  *)
(* due to every replica.                                                     *)
LEMMA CommandServes ==
    ASSUME Inv, Undivided, NEW s \in Session, NEW k \in Cmd, Command(s, k)
    PROVE  \E m \in Messages : Serves(s, m)
<1> DEFINE m == [cmd |-> k, by |-> clientName[s], at |-> s]
<1>0. 0 \in Tracker /\ N \in Nat \ {0}
  BY SyncAssumption DEF Tracker
<1>1. trackerIndex[s] = 0
  BY <1>0 DEF Command, Inv, Coupled, Undivided
<1>2. /\ Allowed(dir[0], m)
      /\ dir' = [dir EXCEPT ![0] = Serve(@, m)]
      /\ msg'[s] = m /\ phase[s] = "recv" /\ phase'[s] = "announce"
      /\ issued' = issued \cup {m}
      /\ UNCHANGED <<inbox, to>>
  BY <1>1 DEF Command, queueVars, Inv, Typed
<1>3. m \in Messages /\ (m.by # None => Known(dir[0], m.by))
  BY DEF Inv, Typed, Undivided, Messages
<1>4. dir'[0] = Serve(dir[0], m) /\ \A r \in Tracker \ {0} : dir'[r] = dir[r]
  BY <1>0, <1>2 DEF Inv, Typed
<1>5. m \in issued' /\ issued \subseteq issued'
  BY <1>2
<1> HIDE DEF m
<1>6. ASSUME NEW r \in Tracker \ {0} PROVE Due(s, r)' = Append(Due(s, r), m)
  <2>1. to[s] = <<>>
    BY <1>2 DEF Inv, Coupled
  <2>2. ~ \E i \in 1 .. Len(to[s]) : to[s][i] = r
    BY <2>1
  <2>3. Due(s, r) = inbox[r]
    BY <1>2, <2>2 DEF Due, Coming
  <2>4. Due(s, r)' = Append(inbox[r], m)
    BY <1>2 DEF Due, Coming
  <2> QED  BY <2>3, <2>4
<1>7. Serves(s, m)
  BY <1>2, <1>3, <1>4, <1>5, <1>6 DEF Serves
<1> QED  BY <1>3, <1>7

(* Sending moves the message into the inbox of the next replica of the loop, *)
(* which the loop does not come back to.                                     *)
LEMMA SendRests ==
    ASSUME Inv, Undivided, NEW s \in Session, SendSync(s)
    PROVE  Rests(s)
<1> DEFINE h == Head(to[s])
<1>1. /\ to[s] \in Seq(Tracker) /\ to[s] # <<>>
      /\ Head(to[s]) = to[s][1] /\ Len(to[s]) \in Nat \ {0}
      /\ Len(Tail(to[s])) = Len(to[s]) - 1
      /\ \A i \in 1 .. Len(to[s]) - 1 : Tail(to[s])[i] = to[s][i + 1]
  <2>1. to[s] \in Seq(Tracker) /\ to[s] # <<>>
    BY DEF SendSync, Inv, Typed, Coupled
  <2> QED  BY <2>1
<1>2. h \in Tracker /\ h # 0 /\ up[h]
  BY <1>1 DEF Undivided
<1>3. /\ phase[s] = "send"
      /\ inbox' = [inbox EXCEPT ![h] = Append(@, msg[s])]
      /\ to' = [to EXCEPT ![s] = Tail(@)]
      /\ IF Tail(to[s]) = <<>> THEN Returns(s) ELSE UNCHANGED <<phase, msg>>
      /\ UNCHANGED dir
  BY <1>2 DEF SendSync, Deliver, Misses, Undivided
<1>4. to'[s] = Tail(to[s]) /\ phase'[s] # "announce"
      /\ (Tail(to[s]) # <<>> => msg'[s] = msg[s])
  BY <1>3 DEF Returns, Inv, Typed
<1> SUFFICES ASSUME NEW r \in Tracker \ {0} PROVE Due(s, r)' = Due(s, r)
  BY <1>3 DEF Rests
<1>5. Coming(s, r)' <=> \E i \in 1 .. Len(to[s]) - 1 : to[s][i + 1] = r
  <2>1. Coming(s, r)' <=> \E i \in 1 .. Len(to'[s]) : to'[s][i] = r
    BY <1>4 DEF Coming
  <2> QED  BY <1>1, <1>4, <2>1
<1>6. Coming(s, r) <=> \E i \in 1 .. Len(to[s]) : to[s][i] = r
  BY <1>3 DEF Coming
<1>7. CASE r = h
  <2>1. Coming(s, r)
    BY <1>1, <1>6, <1>7
  <2>2. ~ Coming(s, r)'
    <3> SUFFICES ASSUME NEW i \in 1 .. Len(to[s]) - 1, to[s][i + 1] = r
                 PROVE  FALSE
      BY <1>5
    <3>1. i + 1 \in 1 .. Len(to[s]) /\ 1 \in 1 .. Len(to[s]) /\ i + 1 # 1
      BY <1>1
    <3> QED  BY <1>1, <1>7, <3>1 DEF Undivided
  <2>3. inbox'[r] = Append(inbox[r], msg[s])
    BY <1>2, <1>3, <1>7 DEF Inv, Typed
  <2> QED  BY <2>1, <2>2, <2>3 DEF Due
<1>8. CASE r # h
  <2>1. inbox'[r] = inbox[r]
    BY <1>3, <1>8 DEF Inv, Typed
  <2>2. Coming(s, r)' <=> Coming(s, r)
    <3>1. ASSUME NEW i \in 1 .. Len(to[s]), to[s][i] = r
          PROVE  \E j \in 1 .. Len(to[s]) - 1 : to[s][j + 1] = r
      <4>1. i # 1 /\ i - 1 \in 1 .. Len(to[s]) - 1 /\ (i - 1) + 1 = i
        BY <1>1, <1>8, <3>1
      <4> QED  BY <3>1, <4>1
    <3>2. \A i \in 1 .. Len(to[s]) - 1 : i + 1 \in 1 .. Len(to[s])
      BY <1>1
    <3> QED  BY <1>5, <1>6, <3>1, <3>2
  <2>3. Coming(s, r)' => Tail(to[s]) # <<>>
    <3>1. Len(Tail(to[s])) # 0 => Tail(to[s]) # <<>>
      <4>1. Len(<<>>) = 0
        OBVIOUS
      <4> QED  BY <4>1, Zenon
    <3>2. (\E i \in 1 .. Len(to[s]) - 1 : to[s][i + 1] = r) => Len(to[s]) - 1 # 0
      BY <1>1
    <3> QED  BY <1>1, <1>5, <3>1, <3>2
  <2> QED  BY <1>4, <2>1, <2>2, <2>3 DEF Due
<1> QED  BY <1>7, <1>8

(* Reading a message replays the first that was due. *)
LEMMA HandleReads ==
    ASSUME Inv, Undivided, NEW s \in Session, NEW r \in Tracker, HandleSync(r)
    PROVE  r # 0 /\ Reads(s, r)
<1>1. /\ inbox[r] # <<>> /\ r # 0
      /\ dir' = [dir EXCEPT ![r] = Replay(@, Head(inbox[r]))]
      /\ inbox' = [inbox EXCEPT ![r] = Tail(@)]
      /\ UNCHANGED <<phase, msg, to>>
  BY DEF HandleSync, Undivided, threadVars
<1>2. dir'[0] = dir[0]
  BY <1>1, SyncAssumption DEF Inv, Typed, Tracker
<1>3. \A q \in Tracker : Coming(s, q)' <=> Coming(s, q)
  BY <1>1 DEF Coming
<1>4. ASSUME NEW q \in Tracker \ {0, r}
      PROVE  dir'[q] = dir[q] /\ Due(s, q)' = Due(s, q)
  <2>1. dir'[q] = dir[q] /\ inbox'[q] = inbox[q]
    BY <1>1 DEF Inv, Typed
  <2>2. Due(s, q)' = Due(s, q)
    BY <1>1, <1>3, <2>1 DEF Due
  <2> QED  BY <2>1, <2>2
<1>5. /\ Due(s, r) # <<>> /\ dir'[r] = Replay(dir[r], Head(Due(s, r)))
      /\ Due(s, r)' = Tail(Due(s, r))
  <2>1. inbox[r] \in Seq(issued) /\ Due(s, r) \in Seq(issued)
    BY DueIssued
  <2>2. Due(s, r) # <<>> /\ Head(Due(s, r)) = Head(inbox[r])
        /\ Tail(Due(s, r)) = IF Coming(s, r) THEN Append(Tail(inbox[r]), msg[s])
                              ELSE Tail(inbox[r])
    <3>1. CASE ~ Coming(s, r)
      BY <1>1, <3>1 DEF Due
    <3>2. CASE Coming(s, r)
      <4>1. Due(s, r) = Append(inbox[r], msg[s])
        BY <3>2 DEF Due
      <4>2. PICK x : x = msg[s]
        OBVIOUS
      <4>3. /\ Append(inbox[r], x) # <<>>
            /\ Head(Append(inbox[r], x)) = Head(inbox[r])
            /\ Tail(Append(inbox[r], x)) = Append(Tail(inbox[r]), x)
        BY <1>1, <2>1, SMTT(30)
      <4> QED  BY <3>2, <4>1, <4>2, <4>3
    <3> QED  BY <3>1, <3>2
  <2>3. dir'[r] = Replay(dir[r], Head(inbox[r])) /\ inbox'[r] = Tail(inbox[r])
    BY <1>1 DEF Inv, Typed
  <2>4. Due(s, r)' = Tail(Due(s, r))
    BY <1>1, <1>3, <2>2, <2>3 DEF Due
  <2> QED  BY <2>2, <2>3, <2>4
<1> QED  BY <1>1, <1>2, <1>4, <1>5 DEF Reads

LEMMA NextMoves ==
    ASSUME Together, NEW s \in Session, Session = {s},
           Inv, Inv', Undivided, [Next]_vars
    PROVE  \/ Rests(s)
           \/ \E m \in Messages : Serves(s, m)
           \/ \E r \in Tracker \ {0} : Reads(s, r)
<1>1. ASSUME UNCHANGED <<dir, inbox, phase, msg, to>> PROVE Rests(s)
  BY <1>1 DEF Rests, Due, Coming
<1>2. ASSUME NEW t \in Tracker, Probe(t) \/ EndRound(t) \/ FlushEnd(t)
      PROVE  Rests(s)
  BY <1>1, <1>2 DEF Probe, EndRound, FlushEnd, threadVars
<1>3. CASE Connect(s)
  BY <1>1, <1>3 DEF Connect, threadVars
<1>0. 0 \in Tracker /\ N \in Nat \ {0} /\ (connected[s] => trackerIndex[s] = 0)
  <2>1. 0 \in Tracker /\ N \in Nat \ {0}
    BY SyncAssumption DEF Tracker
  <2> QED  BY <2>1 DEF Inv, Coupled, Undivided
<1>4. CASE Quit(s)
  <2>1. UNCHANGED <<inbox, phase, msg, to>>
    BY <1>4 DEF Quit
  <2>2. dir' = [dir EXCEPT ![0].loggedIn = @ \ {clientName[s]}]
    BY <1>0, <1>4 DEF Quit
  <2>3. /\ dir'[0].users = dir[0].users /\ dir'[0].owners = dir[0].owners
        /\ dir'[0].groups = dir[0].groups
        /\ \A r \in Tracker \ {0} : dir'[r] = dir[r]
    BY <1>0, <2>2 DEF Inv, Typed, DirectoryType
  <2>4. dir[0] \in DirectoryType /\ dir'[0] \in DirectoryType
    BY <1>0 DEF Inv, Typed
  <2>5. Durable(dir'[0]) = Durable(dir[0])
    BY <2>3, <2>4, SameBut, SameMeans
  <2>6. \A r \in Tracker : Due(s, r)' = Due(s, r)
    BY <2>1 DEF Due, Coming
  <2> QED  BY <2>3, <2>5, <2>6 DEF Rests
<1>5. CASE Announce(s)
  <2>1. phase[s] = "announce" /\ trackerIndex[s] = 0 /\ UNCHANGED <<dir, inbox>>
    BY <1>0, <1>5 DEF Announce, Inv, Coupled
  <2>2. CASE N = 1
    <3>1. Tracker \ {0} = {}
      BY <2>2 DEF Tracker
    <3> QED  BY <2>1, <3>1 DEF Rests
  <2>3. CASE N > 1
    <3>1. to' = [to EXCEPT ![s] = Others(0)] /\ UNCHANGED msg
      BY <1>5, <2>1, <2>3 DEF Announce, Undivided
    <3>2. to'[s] = Others(0)
      BY <3>1 DEF Inv, Typed
    <3>3. \A r \in Tracker \ {0} : Coming(s, r) /\ Coming(s, r)'
      BY <2>1, <3>2, OthersOfZero DEF Coming
    <3>4. \A r \in Tracker \ {0} : Due(s, r)' = Due(s, r)
      BY <2>1, <3>1, <3>3 DEF Due
    <3> QED  BY <2>1, <3>4 DEF Rests
  <2> QED  BY <1>0, <2>2, <2>3
<1>6. CASE UNCHANGED vars
  BY <1>1, <1>6 DEF vars, threadVars
<1> QED  BY <1>2, <1>3, <1>4, <1>5, <1>6, NoFaults, CommandServes, SendRests,
            HandleReads DEF Next

LEMMA NextBehind ==
    ASSUME Together, NEW s \in Session, Session = {s},
           Inv, Inv', Undivided, Behind(s), [Next]_vars
    PROVE  Behind(s)'
<1>0. 0 \in Tracker /\ dir \in [Tracker -> DirectoryType]
      /\ dir' \in [Tracker -> DirectoryType]
  <2>1. 0 \in Tracker
    BY SyncAssumption DEF Tracker
  <2> QED  BY <2>1 DEF Inv, Typed
<1>1. CASE Rests(s)
  BY <1>1 DEF Rests, Behind
<1>2. ASSUME NEW m \in Messages, Serves(s, m) PROVE Behind(s)'
  <2> SUFFICES ASSUME NEW r \in Tracker \ {0}
               PROVE  Durable(Replayed(dir'[r], Due(s, r)')) = Durable(dir'[0])
    BY DEF Behind
  <2> DEFINE e == Replayed(dir[r], Due(s, r))
  <2>1. m \in MessageType /\ (m.cmd.op = "upload_file" => m.by # None)
    BY <1>2, MessagesType DEF Serves, Inv, Genuine
  <2>2. Due(s, r) \in Seq(issued) /\ Due(s, r) \in Seq(issued')
    BY <1>2, DueIssued DEF Serves
  <2>3. e \in DirectoryType
    <3>1. issued \subseteq MessageType
      BY MessagesType DEF Inv, Genuine
    <3> QED  BY <1>0, <2>2, <3>1, ReplayedType DEF Inv, Genuine
  <2>4. Replayed(dir'[r], Due(s, r)') = Replay(e, m)
    BY <1>2, <2>2, ReplayedLast DEF Serves
  <2>5. Durable(e) = Durable(dir[0])
    BY DEF Behind
  <2> HIDE DEF e
  <2>6. Same(dir[0], e)
    BY <1>0, <2>3, <2>5, SameMeans
  <2>7. Same(Serve(dir[0], m), Replay(e, m))
    BY <1>0, <1>2, <2>1, <2>3, <2>6, ReplaySame DEF Serves
  <2>8. Serve(dir[0], m) \in DirectoryType /\ Replay(e, m) \in DirectoryType
    BY <1>0, <1>2, <2>1, <2>3, ReplayType DEF Serves
  <2>9. Durable(Serve(dir[0], m)) = Durable(Replay(e, m))
    BY <2>7, <2>8, SameMeans
  <2> QED  BY <1>2, <2>4, <2>9 DEF Serves
<1>3. ASSUME NEW r \in Tracker \ {0}, Reads(s, r) PROVE Behind(s)'
  <2>1. Due(s, r) \in Seq(issued)
    BY DueIssued
  <2>2. Replayed(dir'[r], Due(s, r)') = Replayed(dir[r], Due(s, r))
    BY <1>3, <2>1, ReplayedFirst DEF Reads
  <2>3. \A q \in Tracker \ {0, r} :
           Replayed(dir'[q], Due(s, q)') = Replayed(dir[q], Due(s, q))
    BY <1>3 DEF Reads
  <2> QED  BY <1>3, <2>2, <2>3 DEF Reads, Behind
<1> QED  BY <1>1, <1>2, <1>3, NextMoves

-----------------------------------------------------------------------------
(* Unsent with a single client. *)
LEMMA UnsentOne ==
    ASSUME Inv, NEW s \in Session, Session = {s}, NEW r \in Tracker
    PROVE  inbox[r] \o Unsent(r) = Due(s, r)
<1> DEFINE S == {t \in Session : phase[t] = "announce" \/ r \in ToSet(to[t])}
<1>1. s \in S <=> Coming(s, r)
  <2>1. r \in ToSet(to[s]) <=> \E i \in 1 .. Len(to[s]) : to[s][i] = r
    <3>1. DOMAIN to[s] = 1 .. Len(to[s])
      BY DEF Inv, Typed
    <3> QED  BY <3>1 DEF ToSet
  <2> QED  BY <2>1 DEF Coming
<1>2. inbox[r] \in Seq(issued)
  BY DueIssued
<1>3. CASE ~ Coming(s, r)
  <2>1. S = {} /\ Cardinality(S) = 0
    BY <1>1, <1>3, FS_EmptySet
  <2>2. Unsent(r) = <<>>
    <3>1. PICK a : a = [i \in 1 .. 0 |-> msg[SetToSeq(S)[i]]]
      OBVIOUS
    <3>2. a \in Seq({}) /\ Len(a) = 0
      <4> HIDE DEF S
      <4> QED  BY <3>1
    <3>3. a = <<>>
      BY <3>2
    <3> QED  BY <2>1, <3>1, <3>3 DEF Unsent
  <2>3. \A q \in Seq(issued) : q \o <<>> = q
    OBVIOUS
  <2> QED  BY <1>2, <1>3, <2>2, <2>3 DEF Due
<1>4. CASE Coming(s, r)
  <2>1. S = {s} /\ Cardinality(S) = 1
    BY <1>1, <1>4, FS_Singleton
  <2>2. SetToSeq(S) = <<s>>
    <3>1. SetToSeq(S) = CHOOSE f \in [1 .. 1 -> {s}] : IsInjective(f)
      BY <2>1 DEF SetToSeq
    <3>2. [i \in 1 .. 1 |-> s] \in [1 .. 1 -> {s}]
          /\ IsInjective([i \in 1 .. 1 |-> s])
      BY DEF IsInjective
    <3>3. SetToSeq(S) \in [1 .. 1 -> {s}]
      BY <3>1, <3>2
    <3> HIDE DEF S
    <3> QED  BY <3>3
  <2>3. Unsent(r) = [i \in 1 .. 1 |-> msg[s]]
    BY <2>1, <2>2 DEF Unsent
  <2>4. \A q \in Seq(issued) : \A m : q \o [i \in 1 .. 1 |-> m] = Append(q, m)
    OBVIOUS
  <2> QED  BY <1>2, <1>4, <2>3, <2>4 DEF Due
<1> QED  BY <1>3, <1>4

LEMMA UnsentNext ==
    ASSUME NEW s \in Session, Session = {s}
    PROVE  Inv' => (\A r \in Tracker : inbox[r] \o Unsent(r) = Due(s, r))'
<1>1. Inv => \A r \in Tracker : inbox[r] \o Unsent(r) = Due(s, r)
  BY UnsentOne
<1> QED  BY <1>1, PTL

(* With a single client and trackers that run together from the start, a     *)
(* replica that replays what is under way to it, in order, has the durable   *)
(* directory of the tracker that served the commands.                        *)
THEOREM ReplicasCatchUp ==
    ASSUME Together, NEW s \in Session, Session = {s}
    PROVE  Spec => []CatchingUp
<1>1. Inv /\ Behind(s) => CatchingUp
  <2> SUFFICES ASSUME Inv, Behind(s), NEW r \in Tracker \ {0}
               PROVE  Durable(FoldLeft(Replay, dir[r], inbox[r] \o Unsent(r)))
                        = Durable(dir[0])
    BY DEF CatchingUp
  <2>1. inbox[r] \o Unsent(r) = Due(s, r)
    BY UnsentOne
  <2>2. Durable(FoldLeft(Replay, dir[r], Due(s, r))) = Durable(dir[0])
    BY DEF Behind, Replayed
  <2> QED  BY <2>1, <2>2
<1>2. Init => Undivided /\ Behind(s)
  BY InitUndivided
<1>3. Inv /\ Inv' /\ Undivided /\ Behind(s) /\ [Next]_vars
        => Undivided' /\ Behind(s)'
  BY NextUndivided, NextBehind
<1> QED  BY <1>1, <1>2, <1>3, InitInv, NextInv, PTL DEF Spec

-----------------------------------------------------------------------------
(* Every step of the trackers is one of LaggingCopy, with what is due to a   *)
(* replica for what it is late by.                                           *)
LEMMA InitCopying ==
    ASSUME Together, NEW s \in Session, Session = {s}, Init
    PROVE  Copying!Init
<1>1. 0 \in Tracker
  BY SyncAssumption DEF Tracker
<1>2. Inv
  BY InitInv
<1>3. ASSUME NEW r \in Tracker
      PROVE  Due(s, r) = <<>> /\ dir[r] = Standing /\ dir[r] \in DirectoryType
  BY <1>2, <1>3 DEF Init, Due, Coming, Together, Inv, Typed
<1>4. \A r \in Tracker \ {0} : inbox[r] \o Unsent(r) = <<>>
  BY <1>2, <1>3, UnsentOne
<1>5. Durable(dir[0]) \in DirectoryType
  BY <1>1, <1>3, DurableType
<1>6. \A r \in Tracker \ {0} : Durable(dir[r]) = Durable(dir[0])
  BY <1>1, <1>3
<1> QED  BY <1>4, <1>5, <1>6 DEF Copying!Init

LEMMA NextCopying ==
    ASSUME Together, NEW s \in Session, Session = {s},
           Inv, Inv', Undivided, [Next]_vars
    PROVE  [Copying!Next]_(Copying!vars)
<1> DEFINE original == Durable(dir[0])
           copy == [r \in Tracker \ {0} |-> Durable(dir[r])]
           late == [r \in Tracker \ {0} |-> inbox[r] \o Unsent(r)]
<1>0. 0 \in Tracker /\ dir \in [Tracker -> DirectoryType]
      /\ dir' \in [Tracker -> DirectoryType]
  <2>1. 0 \in Tracker
    BY SyncAssumption DEF Tracker
  <2> QED  BY <2>1 DEF Inv, Typed
<1>1. /\ late = [r \in Tracker \ {0} |-> Due(s, r)]
      /\ late' = [r \in Tracker \ {0} |-> Due(s, r)']
  <2>1. \A r \in Tracker \ {0} : inbox[r] \o Unsent(r) = Due(s, r)
    BY UnsentOne
  <2>2. \A r \in Tracker \ {0} : (inbox[r] \o Unsent(r))' = Due(s, r)'
    BY UnsentNext
  <2> QED  BY <2>1, <2>2
<1>2. ASSUME NEW r \in Tracker PROVE Due(s, r) \in Seq(issued)
  BY <1>2, DueIssued
<1>3. CASE Rests(s)
  <2>1. UNCHANGED <<original, copy>>
    BY <1>3 DEF Rests
  <2>2. UNCHANGED late
    <3> HIDE DEF late
    <3> QED  BY <1>1, <1>3 DEF Rests
  <2> QED  BY <2>1, <2>2 DEF Copying!vars
<1>4. ASSUME NEW m \in Messages, Serves(s, m) PROVE Copying!Change
  <2>1. original' = Redo(original, m)
    <3>1. m \in MessageType /\ (m.cmd.op = "upload_file" => m.by # None)
      BY <1>4, MessagesType DEF Serves, Inv, Genuine
    <3>2. PICK e \in DirectoryType : e = Durable(dir[0]) /\ Same(dir[0], e)
      BY <1>0, DurableType, SameDurable
    <3>3. Same(Serve(dir[0], m), Replay(e, m))
      BY <1>0, <1>4, <3>1, <3>2, ReplaySame DEF Serves
    <3>4. Serve(dir[0], m) \in DirectoryType /\ Replay(e, m) \in DirectoryType
      BY <1>0, <1>4, <3>1, <3>2, ReplayType DEF Serves
    <3>5. Durable(Serve(dir[0], m)) = Durable(Replay(e, m))
      BY <3>3, <3>4, SameMeans
    <3> QED  BY <1>4, <3>2, <3>5 DEF Serves, Redo
  <2>2. UNCHANGED copy
    BY <1>4 DEF Serves
  <2> HIDE DEF late, copy, original
  <2>3. late' = [r \in Tracker \ {0} |-> Append(late[r], m)]
    BY <1>1, <1>4 DEF Serves
  <2>4. ASSUME NEW r \in Tracker \ {0} PROVE Len(late'[r]) > Len(late[r])
    <3>1. late[r] \in Seq(issued) /\ late'[r] = Append(late[r], m)
      BY <1>1, <1>2, <2>3
    <3>2. \A q \in Seq(issued) : Len(Append(q, m)) > Len(q)
      OBVIOUS
    <3> QED  BY <3>1, <3>2
  <2> QED  BY <2>1, <2>2, <2>3, <2>4 DEF Copying!Change, late, copy, original
<1>5. ASSUME NEW r \in Tracker \ {0}, Reads(s, r) PROVE Copying!Follow(r)
  <2> DEFINE h == Head(Due(s, r))
  <2>1. h \in MessageType /\ (h.cmd.op = "upload_file" => h.by # None)
    <3>1. h \in issued
      BY <1>2, <1>5 DEF Reads
    <3> QED  BY <3>1, MessagesType DEF Inv, Genuine
  <2>2. Durable(dir'[r]) = Redo(Durable(dir[r]), h)
    <3> HIDE DEF h
    <3>1. PICK e \in DirectoryType : e = Durable(dir[r]) /\ Same(dir[r], e)
      BY <1>0, DurableType, SameDurable
    <3>2. Same(Replay(dir[r], h), Replay(e, h))
      BY <1>0, <2>1, <3>1, ReplayAlike
    <3>3. Replay(dir[r], h) \in DirectoryType /\ Replay(e, h) \in DirectoryType
      BY <1>0, <2>1, <3>1, ReplayType
    <3>4. Durable(Replay(dir[r], h)) = Durable(Replay(e, h))
      BY <3>2, <3>3, SameMeans
    <3> QED  BY <1>5, <3>1, <3>4 DEF Reads, Redo, h
  <2>3. UNCHANGED original
    BY <1>5 DEF Reads
  <2>4. copy' = [copy EXCEPT ![r] = Redo(@, h)]
    <3> HIDE DEF h
    <3> QED  BY <1>5, <2>2 DEF Reads
  <2> HIDE DEF late, copy, original
  <2>5. late[r] = Due(s, r) /\ late[r] # <<>>
        /\ late' = [late EXCEPT ![r] = Tail(@)]
    BY <1>1, <1>5 DEF Reads
  <2> QED  BY <2>3, <2>4, <2>5 DEF Copying!Follow, late, copy, original
<1> QED  BY <1>3, <1>4, <1>5, NextMoves DEF Copying!Next

(* With a single client and trackers that run together from the start, the   *)
(* replicas take over every command the primary serves, once, in its order   *)
(* and with its effect on the durable directory.                             *)
THEOREM ReplicasAreCopies ==
    ASSUME Together, NEW s \in Session, Session = {s}
    PROVE  Spec => IsLaggingCopy
<1>1. Init => Copying!Init /\ Undivided
  BY InitCopying, InitUndivided
<1>2. Inv /\ Inv' /\ Undivided /\ [Next]_vars
        => [Copying!Next]_(Copying!vars) /\ Undivided'
  BY NextCopying, NextUndivided
<1> QED  BY <1>1, <1>2, InitInv, NextInv, PTL DEF Spec, IsLaggingCopy, Copying!Spec

=============================================================================
