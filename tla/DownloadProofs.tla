---------------------------- MODULE DownloadProofs ----------------------------
(***************************************************************************)
(* Theorems about Download for any number of downloads, names, peers and   *)
(* pieces.                                                                 *)
(***************************************************************************)
EXTENDS Download, TLAPS

(* A worker inside a loop is within its bounds. *)
Bounds ==
    \A j \in Job :
        /\ pc[j] \in {"lookup", "pieces"} => at[j] <= Listed[own[j]]
        /\ pc[j] \in {"ask", "read", "starved", "verify", "save", "write",
                      "record", "notify"} => at[j] < Listed[own[j]]
        /\ pc[j] = "copy" => at[j] <= total[j]
        /\ pc[j] = "unlink" => at[j] < total[j]
        /\ pc[j] \in {"new", "lookup"} => at[j] = 0

(* Whatever a worker reaches through activeDownloads has its file name. *)
Entries ==
    /\ \A n \in Name : active[n] # None => NameOf[active[n]] = n
    /\ \A j \in Job : /\ pc[j] # "new" => active[NameOf[j]] # None
                      /\ NameOf[own[j]] = NameOf[j]

(* A worker about to create or write a .part file has verified bytes, and    *)
(* every worker writes to a place that some download of its name asked for.  *)
Saving ==
    \A j \in Job :
        /\ pc[j] \in {"save", "write"} => got[j] = <<FileOf[own[j]], at[j]>>
        /\ \E k \in Job : path[j] = DestOf[k] /\ NameOf[k] = NameOf[j]

BaseInv == TypeOK /\ Bounds /\ Entries /\ Saving

(* What the constants say about a job. *)
LEMMA JobFacts ==
  /\ MaxPieces \in Nat
  /\ \A j \in Job : /\ NameOf[j] \in Name
                   /\ DestOf[j] \in Dest
                   /\ FileOf[j] \in File
                   /\ Listed[j] \in Nat /\ Listed[j] <= MaxPieces
                   /\ Size[FileOf[j]] \in Nat /\ Size[FileOf[j]] <= MaxPieces
  BY JobAssumption

(* The entry of a running worker exists, is of its name, and is a job. *)
LEMMA CurrentFacts ==
  ASSUME BaseInv, NEW j \in Job, pc[j] # "new"
  PROVE  Current(j) \in Job /\ NameOf[Current(j)] = NameOf[j]
  BY JobAssumption DEF BaseInv, TypeOK, Entries, Current

(* A worker that handles a piece is at an index of its list. *)
LEMMA AtPiece ==
  ASSUME BaseInv, NEW j \in Job,
         pc[j] \in {"ask", "read", "starved", "verify", "save", "write",
                   "record", "notify"}
  PROVE  at[j] \in Index /\ at[j] + 1 \in 0..MaxPieces /\ own[j] \in Job
<1>1. own[j] \in Job /\ at[j] \in 0..MaxPieces
  BY DEF BaseInv, TypeOK
<1>2. at[j] < Listed[own[j]]
  BY DEF BaseInv, Bounds
<1> QED
  BY <1>1, <1>2, JobFacts DEF Index

(* A worker that copies a part is at an index of its list. *)
LEMMA AtCopy ==
  ASSUME BaseInv, NEW j \in Job, Copies(j)
  PROVE  /\ at[j] \in Index /\ at[j] \in Nat /\ at[j] + 1 \in -1..MaxPieces
         /\ path[j] \in Dest /\ pc[j] = "copy"
         /\ pc' = [pc EXCEPT ![j] = "unlink"]
  BY JobFacts DEF BaseInv, TypeOK, Copies, Goto, Index

(* A write that goes wrong leaves the types and the other files alone. *)
LEMMA SpoilStep ==
  ASSUME TypeOK, NEW j \in Job, Spoils(j)
  PROVE  /\ final' \in [Dest -> [Index -> Content \cup {Junk, None}]]
         /\ \A d \in Dest \ {path[j]} : final'[d] = final[d]
         /\ \A i \in Index : final'[path[j]][i] \in {final[path[j]][i], Junk}
<1> DEFINE R == IF out[j] = at[j] THEN {at[j]} ELSE {out[j], out[j] + 1}
<1>1. PICK S \in SUBSET {i \in R : final[path[j]][i] \notin {Junk, None}} :
          final' = [final EXCEPT ![path[j]] =
              [i \in Index |-> IF i \in S \/ (i \in R /\ @[i] = None)
                              THEN Junk ELSE @[i]]]
  BY DEF Spoils
<1> QED
  BY <1>1 DEF TypeOK

(* What unlinking a part does, if the disk lets it. *)
LEMMA UnlinkEffect ==
  ASSUME TypeOK, NEW j \in Job, Unlink(j)
  PROVE  \/ /\ part' = [part EXCEPT ![path[j]][at[j]] = None]
            /\ linked' \in [Job -> BOOLEAN]
            /\ \A k \in Job : /\ linked'[k] => linked[k]
                              /\ <<path[k], at[k]>> # <<path[j], at[j]>> =>
                                     linked'[k] = linked[k]
         \/ path[j] \notin Healthy /\ UNCHANGED <<part, linked>>
<1>1. CASE path[j] \notin Healthy /\ UNCHANGED <<part, linked>>
  BY <1>1
<1>2. CASE /\ part' = [part EXCEPT ![path[j]][at[j]] = None]
           /\ linked' = [k \in Job |-> /\ linked[k]
                                      /\ <<path[k], at[k]>> # <<path[j], at[j]>>]
  <2>1. \A k \in Job : linked'[k] = (/\ linked[k]
                                    /\ <<path[k], at[k]>> # <<path[j], at[j]>>)
    BY <1>2
  <2>2. linked' \in [Job -> BOOLEAN]
    BY <1>2 DEF TypeOK
  <2>3. ASSUME NEW k \in Job, <<path[k], at[k]>> # <<path[j], at[j]>>
        PROVE  linked'[k] = linked[k]
    BY <2>1, <2>3, Zenon DEF TypeOK
  <2>4. \A k \in Job : linked'[k] => linked[k]
    BY <2>1
  <2> QED
    BY <1>2, <2>2, <2>3, <2>4
<1> QED
  BY <1>1, <1>2 DEF Unlink

(* Every action keeps the types. *)
LEMMA TypeStep ==
  ASSUME BaseInv, NEW j \in Job, Receive(j) \/ Worker(j)
  PROVE  TypeOK'
<1> USE JobFacts DEF local, disk, Goto
<1>1. CASE Receive(j)
  BY <1>1 DEF BaseInv, TypeOK, Receive
<1>2. CASE Lookup(j)
  BY <1>2, CurrentFacts DEF BaseInv, TypeOK, Lookup
<1>3. CASE SkipPiece(j)
  BY <1>3 DEF BaseInv, TypeOK, SkipPiece
<1>4. CASE StartPiece(j)
  BY <1>4 DEF BaseInv, TypeOK, StartPiece
<1>5. CASE GiveUpPiece(j)
  BY <1>5, AtPiece DEF BaseInv, TypeOK, GiveUpPiece
<1>6. CASE Refused(j)
  BY <1>6 DEF BaseInv, TypeOK, Refused
<1>7. CASE Header(j)
  <2>1. Here(j) \in Index \X (Nat \ {0})
    BY <1>7, AtPiece DEF Header, Here, BaseInv, TypeOK
  <2> QED
    BY <1>7, <2>1 DEF BaseInv, TypeOK, Header
<1>8. CASE Stalled(j)
  BY <1>8 DEF BaseInv, TypeOK, Stalled
<1>9. CASE Truncated(j)
  BY <1>9 DEF BaseInv, TypeOK, Truncated
<1>10. CASE ReadAll(j)
  <2>1. Expected(j) \in Content
    <3>1. pc[j] = "read"
      BY <1>10 DEF ReadAll
    <3>2. at[j] \in Index /\ own[j] \in Job
      BY <3>1, AtPiece
    <3>3. FileOf[own[j]] \in File
      BY <3>2
    <3> QED
      BY <3>2, <3>3 DEF Expected, Content
  <2> QED
    <3>1. \/ got' = [got EXCEPT ![j] = Expected(j)]
          \/ got' = [got EXCEPT ![j] = Junk]
      BY <1>10 DEF ReadAll
    <3>2. got' \in [Job -> Content \cup {Junk}]
      BY <2>1, <3>1 DEF BaseInv, TypeOK
    <3>3. /\ pc' = [pc EXCEPT ![j] = "verify"]
          /\ UNCHANGED <<active, own, downloaded, complete, at, nth, path,
                         total, part, final, linked, out, seeding, notified,
                         sockets>>
      BY <1>10 DEF ReadAll
    <3> QED
      BY <3>2, <3>3 DEF BaseInv, TypeOK
<1>11. CASE HashMismatch(j)
  BY <1>11 DEF BaseInv, TypeOK, HashMismatch
<1>12. CASE HashMatch(j)
  BY <1>12, CurrentFacts DEF BaseInv, TypeOK, HashMatch
<1>13. CASE OpenPart(j)
  <2>1. at[j] \in Index
    BY <1>13, AtPiece DEF OpenPart
  <2> QED
    BY <1>13, <2>1 DEF BaseInv, TypeOK, OpenPart
<1>14. CASE OpenPartFails(j)
  BY <1>14 DEF BaseInv, TypeOK, OpenPartFails
<1>26. CASE WritePart(j)
  <2>1. at[j] \in Index /\ got[j] \in Content
    <3>1. pc[j] = "write"
      BY <1>26 DEF WritePart
    <3>2. at[j] \in Index /\ own[j] \in Job
      BY <3>1, AtPiece
    <3>3. FileOf[own[j]] \in File
      BY <3>2
    <3>4. got[j] = <<FileOf[own[j]], at[j]>>
      BY <3>1 DEF BaseInv, Saving
    <3> QED
      BY <3>2, <3>3, <3>4 DEF Content
  <2>2. part' \in [Dest -> [Index -> Content \cup {Junk, None}]]
    <3>1. part' = part \/ part' = [part EXCEPT ![path[j]][at[j]] = got[j]]
      BY <1>26 DEF WritePart
    <3>2. /\ part \in [Dest -> [Index -> Content \cup {Junk, None}]]
          /\ path[j] \in Dest
      BY DEF BaseInv, TypeOK
    <3>3. CASE part' = part
      BY <3>2, <3>3
    <3>4. CASE part' = [part EXCEPT ![path[j]][at[j]] = got[j]]
      BY <2>1, <3>2, <3>4
    <3> QED
      BY <3>1, <3>3, <3>4
  <2>3. /\ pc' = [pc EXCEPT ![j] = "record"]
        /\ linked' = [linked EXCEPT ![j] = FALSE]
        /\ sockets' = [sockets EXCEPT ![j] = @ \ {Here(j)}]
        /\ UNCHANGED <<active, own, downloaded, complete, local, final, out,
                       seeding, notified>>
    BY <1>26 DEF WritePart
  <2> QED
    BY <2>2, <2>3 DEF BaseInv, TypeOK
<1>15. CASE Record(j)
  BY <1>15, AtPiece DEF BaseInv, TypeOK, Record
<1>16. CASE Notify(j)
  BY <1>16, AtPiece DEF BaseInv, TypeOK, Notify
<1>17. CASE EndIncomplete(j)
  BY <1>17 DEF BaseInv, TypeOK, EndIncomplete
<1>18. CASE BeginMerge(j)
  BY <1>18, CurrentFacts DEF BaseInv, TypeOK, BeginMerge
<1>19. CASE OpenFinal(j)
  BY <1>19 DEF BaseInv, TypeOK, OpenFinal
<1>20. CASE OpenFails(j)
  BY <1>20 DEF BaseInv, TypeOK, OpenFails
<1>21. CASE CopyPiece(j)
  <2>1. Copies(j) /\ at[j] \in Index /\ at[j] + 1 \in -1..MaxPieces
    BY <1>21, AtCopy DEF CopyPiece
  <2> QED
    BY <1>21, <2>1 DEF BaseInv, TypeOK, CopyPiece, Copies
<1>27. CASE CopyShort(j) \/ CopyBehind(j) \/ CopyFails(j)
  <2>1. Copies(j) /\ Spoils(j)
    BY <1>27 DEF CopyShort, CopyBehind, CopyFails
  <2>2. final' \in [Dest -> [Index -> Content \cup {Junk, None}]]
    BY <2>1, SpoilStep DEF BaseInv
  <2>3. out' \in [Job -> -1..MaxPieces]
    <3>1. \/ UNCHANGED out \/ out' = [out EXCEPT ![j] = -1]
          \/ /\ out[j] \in 0..(at[j] - 1)
             /\ out' = [out EXCEPT ![j] = @ + 1]
      BY <1>27 DEF CopyShort, CopyBehind, CopyFails
    <3>2. at[j] \in Nat /\ at[j] + 1 \in -1..MaxPieces
      BY <2>1, AtCopy
    <3>3. out \in [Job -> -1..MaxPieces] /\ MaxPieces \in Nat
      BY DEF BaseInv, TypeOK
    <3>4. CASE UNCHANGED out
      BY <3>3, <3>4
    <3>5. CASE out' = [out EXCEPT ![j] = -1]
      BY <3>3, <3>5
    <3>6. CASE /\ out[j] \in 0..(at[j] - 1)
               /\ out' = [out EXCEPT ![j] = @ + 1]
      <4>1. out[j] + 1 \in -1..MaxPieces
        BY <3>2, <3>3, <3>6
      <4> QED
        BY <3>3, <3>6, <4>1
    <3> QED
      BY <3>1, <3>4, <3>5, <3>6
  <2> QED
    BY <2>1, <2>2, <2>3 DEF BaseInv, TypeOK, Copies
<1>28. CASE CopyNothing(j)
  BY <1>28 DEF BaseInv, TypeOK, CopyNothing, Copies
<1>22. CASE Unlink(j)
  <2>1. at[j] \in 0..MaxPieces /\ total[j] \in 0..MaxPieces /\ MaxPieces \in Nat
    BY DEF BaseInv, TypeOK
  <2>2. at[j] < total[j]
    BY <1>22 DEF BaseInv, Bounds, Unlink
  <2>3. at[j] + 1 \in 0..MaxPieces
    BY <2>1, <2>2
  <2>4. at' \in [Job -> 0..MaxPieces]
    BY <1>22, <2>3 DEF BaseInv, TypeOK, Unlink
  <2>5. /\ part' \in [Dest -> [Index -> Content \cup {Junk, None}]]
        /\ linked' \in [Job -> BOOLEAN]
    <3>1. /\ part \in [Dest -> [Index -> Content \cup {Junk, None}]]
          /\ path[j] \in Dest /\ linked \in [Job -> BOOLEAN] /\ TypeOK
      BY DEF BaseInv, TypeOK
    <3>2. CASE UNCHANGED <<part, linked>>
      BY <3>1, <3>2
    <3>3. CASE /\ part' = [part EXCEPT ![path[j]][at[j]] = None]
               /\ linked' \in [Job -> BOOLEAN]
      BY <3>1, <3>3
    <3> QED
      BY <1>22, <3>1, <3>2, <3>3, UnlinkEffect
  <2> QED
    BY <1>22, <2>4, <2>5 DEF BaseInv, TypeOK, Unlink
<1>23. CASE MissingPart(j)
  BY <1>23 DEF BaseInv, TypeOK, MissingPart
<1>24. CASE Seed(j)
  BY <1>24 DEF BaseInv, TypeOK, Seed
<1>25. CASE Finish(j)
  BY <1>25 DEF BaseInv, TypeOK, Finish
<1> QED
  BY <1>1, <1>2, <1>3, <1>4, <1>5, <1>6, <1>7, <1>8, <1>9, <1>10, <1>11,
     <1>12, <1>13, <1>14, <1>15, <1>16, <1>17, <1>18, <1>19, <1>20, <1>21,
     <1>22, <1>23, <1>24, <1>25, <1>26, <1>27, <1>28 DEF Worker, Fetch, Merge
-----------------------------------------------------------------------------
(* A step of one worker leaves the locals of the others alone. *)
LEMMA OthersUntouched ==
  ASSUME TypeOK, NEW j \in Job, Receive(j) \/ Worker(j),
         NEW k \in Job, k # j
  PROVE  /\ pc'[k] = pc[k] /\ own'[k] = own[k] /\ at'[k] = at[k]
         /\ nth'[k] = nth[k] /\ got'[k] = got[k] /\ path'[k] = path[k]
         /\ total'[k] = total[k] /\ out'[k] = out[k]
         /\ sockets'[k] = sockets[k]
<1> USE DEF TypeOK, local, disk, Goto
<1>1. CASE Receive(j) \/ Lookup(j)
  BY <1>1 DEF Receive, Lookup
<1>2. CASE SkipPiece(j) \/ StartPiece(j) \/ GiveUpPiece(j) \/ Refused(j)
  BY <1>2 DEF SkipPiece, StartPiece, GiveUpPiece, Refused
<1>3. CASE Header(j) \/ Stalled(j) \/ Truncated(j)
  BY <1>3 DEF Header, Stalled, Truncated
<1>4. CASE ReadAll(j) \/ HashMismatch(j) \/ HashMatch(j)
  BY <1>4 DEF ReadAll, HashMismatch, HashMatch
<1>5. CASE OpenPart(j) \/ OpenPartFails(j) \/ WritePart(j)
  BY <1>5 DEF OpenPart, OpenPartFails, WritePart
<1>8. CASE Record(j) \/ Notify(j)
  BY <1>8 DEF Record, Notify
<1>6. CASE EndIncomplete(j) \/ BeginMerge(j) \/ OpenFinal(j) \/ OpenFails(j)
  BY <1>6 DEF EndIncomplete, BeginMerge, OpenFinal, OpenFails
<1>7. CASE Unlink(j) \/ MissingPart(j) \/ Seed(j) \/ Finish(j)
  BY <1>7 DEF Unlink, MissingPart, Seed, Finish
<1>9. CASE CopyPiece(j) \/ CopyShort(j) \/ CopyBehind(j)
  BY <1>9 DEF Copies, CopyPiece, CopyShort, CopyBehind
<1>10. CASE CopyFails(j) \/ CopyNothing(j)
  BY <1>10 DEF Copies, CopyFails, CopyNothing
<1> QED
  BY <1>1, <1>2, <1>3, <1>4, <1>5, <1>6, <1>7, <1>8, <1>9, <1>10
     DEF Worker, Fetch, Merge

(* The loops stay within their bounds. *)
LEMMA BoundsStep ==
  ASSUME BaseInv, NEW j \in Job, Receive(j) \/ Worker(j)
  PROVE  Bounds'
<1> DEFINE B(k) ==
       /\ pc'[k] \in {"lookup", "pieces"} => at'[k] <= Listed[own'[k]]
       /\ pc'[k] \in {"ask", "read", "starved", "verify", "save", "write",
                      "record", "notify"} => at'[k] < Listed[own'[k]]
       /\ pc'[k] = "copy" => at'[k] <= total'[k]
       /\ pc'[k] = "unlink" => at'[k] < total'[k]
       /\ pc'[k] \in {"new", "lookup"} => at'[k] = 0
<1>1. TypeOK /\ Bounds
  BY DEF BaseInv
<1>2. ASSUME NEW k \in Job, k # j PROVE B(k)
  BY <1>1, <1>2, OthersUntouched DEF Bounds
<1>3. B(j)
  <2> USE JobFacts, <1>1 DEF TypeOK, Bounds, local, disk, Goto
  <2>1. CASE Receive(j)
    BY <2>1 DEF Receive
  <2>2. CASE Lookup(j)
    <3>1. own'[j] \in Job
      BY <2>2, CurrentFacts DEF Lookup
    <3> QED
      BY <2>2, <3>1 DEF Lookup
  <2>3. CASE SkipPiece(j)
    BY <2>3 DEF SkipPiece
  <2>4. CASE StartPiece(j)
    BY <2>4 DEF StartPiece
  <2>5. CASE GiveUpPiece(j)
    BY <2>5 DEF GiveUpPiece
  <2>6. CASE Refused(j) \/ Header(j) \/ Stalled(j) \/ Truncated(j)
    BY <2>6 DEF Refused, Header, Stalled, Truncated
  <2>7. CASE ReadAll(j) \/ HashMismatch(j) \/ HashMatch(j)
    BY <2>7 DEF ReadAll, HashMismatch, HashMatch
  <2>8. CASE OpenPart(j) \/ OpenPartFails(j) \/ WritePart(j) \/ Record(j)
    BY <2>8 DEF OpenPart, OpenPartFails, WritePart, Record
  <2>9. CASE Notify(j)
    BY <2>9 DEF Notify
  <2>10. CASE EndIncomplete(j) \/ BeginMerge(j) \/ OpenFails(j)
    BY <2>10 DEF EndIncomplete, BeginMerge, OpenFails
  <2>11. CASE OpenFinal(j)
    BY <2>11 DEF OpenFinal
  <2>12. CASE \/ CopyPiece(j) \/ CopyShort(j) \/ CopyBehind(j)
             \/ CopyFails(j) \/ CopyNothing(j)
    <3>1. Copies(j)
      BY <2>12 DEF CopyPiece, CopyShort, CopyBehind, CopyFails, CopyNothing
    <3> QED
      BY <3>1 DEF Copies
  <2>13. CASE Unlink(j)
    BY <2>13 DEF Unlink
  <2>14. CASE MissingPart(j) \/ Seed(j) \/ Finish(j)
    BY <2>14 DEF MissingPart, Seed, Finish
  <2> QED
    BY <2>1, <2>2, <2>3, <2>4, <2>5, <2>6, <2>7, <2>8, <2>9, <2>10, <2>11,
       <2>12, <2>13, <2>14 DEF Worker, Fetch, Merge
<1> QED
  BY <1>2, <1>3 DEF Bounds

(* Only a FILE_META line changes activeDownloads, and only a worker's start  *)
(* its own pointer.                                                          *)
LEMMA PointerSteps ==
  ASSUME NEW j \in Job, Worker(j), ~ Lookup(j)
  PROVE  UNCHANGED <<active, own>>
  BY DEF Worker, Fetch, Merge, local, disk, SkipPiece, StartPiece,
     GiveUpPiece, Refused, Header, Stalled, Truncated, ReadAll, HashMismatch,
     HashMatch, OpenPart, OpenPartFails, WritePart, Record, Notify,
     EndIncomplete, BeginMerge, OpenFinal, OpenFails, Copies, CopyPiece,
     CopyShort, CopyBehind, CopyFails, CopyNothing, Unlink, MissingPart, Seed,
     Finish

(* A worker that has started has been received. *)
LEMMA PcSteps ==
  ASSUME TypeOK, NEW j \in Job, Worker(j)
  PROVE  pc[j] # "new" /\ pc'[j] # "new"
  BY DEF TypeOK, Worker, Fetch, Merge, Goto, Lookup, SkipPiece, StartPiece,
     GiveUpPiece, Refused, Header, Stalled, Truncated, ReadAll, HashMismatch,
     HashMatch, OpenPart, OpenPartFails, WritePart, Record, Notify,
     EndIncomplete, BeginMerge, OpenFinal, OpenFails, Copies, CopyPiece,
     CopyShort, CopyBehind, CopyFails, CopyNothing, Unlink, MissingPart, Seed,
     Finish

(* Entries keep leading to downloads of their own name. *)
LEMMA EntriesStep ==
  ASSUME BaseInv, NEW j \in Job, Receive(j) \/ Worker(j)
  PROVE  Entries'
<1> USE JobFacts, NoneAssumption DEF BaseInv, TypeOK, Entries
<1>1. CASE Receive(j)
  BY <1>1 DEF Receive, Goto
<1>2. CASE Lookup(j)
  <2>1. UNCHANGED active /\ own' = [own EXCEPT ![j] = Current(j)]
    BY <1>2 DEF Lookup
  <2>2. NameOf[Current(j)] = NameOf[j] /\ pc[j] # "new"
    BY <1>2, CurrentFacts DEF Lookup, Goto
  <2>3. \A k \in Job : pc'[k] # "new" => pc[k] # "new"
    BY <1>2, <2>2 DEF Lookup, Goto
  <2> QED
    BY <2>1, <2>2, <2>3
<1>3. CASE Worker(j) /\ ~ Lookup(j)
  <2>1. UNCHANGED <<active, own>>
    BY <1>3, PointerSteps
  <2>2. \A k \in Job : pc'[k] # "new" => pc[k] # "new"
    BY <1>3, PcSteps, OthersUntouched
  <2> QED
    BY <2>1, <2>2
<1> QED
  BY <1>1, <1>2, <1>3
(* A worker's destination is looked up under its own name.                   *)
LEMMA PathSteps ==
  ASSUME BaseInv, NEW j \in Job, Receive(j) \/ Worker(j)
  PROVE  path'[j] = path[j] \/ \E k \in Job : /\ path'[j] = DestOf[k]
                                            /\ NameOf[k] = NameOf[j]
<1>1. CASE HashMatch(j) \/ BeginMerge(j)
  <2>1. Current(j) \in Job /\ NameOf[Current(j)] = NameOf[j]
    BY <1>1, CurrentFacts DEF HashMatch, BeginMerge, Goto
  <2>2. path'[j] = DestOf[Current(j)]
    BY <1>1 DEF HashMatch, BeginMerge, BaseInv, TypeOK
  <2> QED
    BY <2>1, <2>2
<1>2. CASE ~(HashMatch(j) \/ BeginMerge(j))
  BY <1>2 DEF Worker, Fetch, Merge, local, Receive, Lookup, SkipPiece,
     StartPiece, GiveUpPiece, Refused, Header, Stalled, Truncated, ReadAll,
     HashMismatch, OpenPart, OpenPartFails, WritePart, Record, Notify,
     EndIncomplete, OpenFinal, OpenFails, Copies, CopyPiece, CopyShort,
     CopyBehind, CopyFails, CopyNothing, Unlink, MissingPart, Seed, Finish
<1> QED
  BY <1>1, <1>2

(* Bytes are saved only behind the hash comparison, at a place looked up     *)
(* under the worker's own name.                                              *)
LEMMA SavingStep ==
  ASSUME BaseInv, NEW j \in Job, Receive(j) \/ Worker(j)
  PROVE  Saving'
<1> SUFFICES ASSUME NEW k \in Job
             PROVE  /\ pc'[k] \in {"save", "write"} =>
                           got'[k] = <<FileOf[own'[k]], at'[k]>>
                    /\ \E l \in Job : /\ path'[k] = DestOf[l]
                                     /\ NameOf[l] = NameOf[k]
  BY DEF Saving
<1>0. TypeOK /\ Saving
  BY DEF BaseInv
<1>1. CASE k # j
  BY <1>0, <1>1, OthersUntouched DEF Saving
<1>2. CASE k = j
  <2>1. ASSUME pc'[j] \in {"save", "write"}
        PROVE  got'[j] = <<FileOf[own'[j]], at'[j]>>
    <3>1. HashMatch(j) \/ OpenPart(j)
      BY <1>0, <2>1 DEF TypeOK, Worker, Fetch, Merge, Goto, Receive, Lookup,
         SkipPiece, StartPiece, GiveUpPiece, Refused, Header, Stalled,
         Truncated, ReadAll, HashMismatch, OpenPartFails, WritePart, Record,
         Notify, EndIncomplete, BeginMerge, OpenFinal, OpenFails, Copies,
         CopyPiece, CopyShort, CopyBehind, CopyFails, CopyNothing, Unlink,
         MissingPart, Seed, Finish
    <3>2. CASE HashMatch(j)
      BY <1>0, <3>2 DEF TypeOK, HashMatch, Expected
    <3>3. CASE OpenPart(j)
      BY <1>0, <3>3 DEF TypeOK, Saving, OpenPart, Goto, local
    <3> QED
      BY <3>1, <3>2, <3>3
  <2>2. \E l \in Job : path'[j] = DestOf[l] /\ NameOf[l] = NameOf[j]
    BY <1>0, PathSteps DEF Saving
  <2> QED
    BY <1>2, <2>1, <2>2
<1> QED
  BY <1>1, <1>2

LEMMA BaseStep == BaseInv /\ [Next]_vars => BaseInv'
<1>1. ASSUME BaseInv, UNCHANGED vars PROVE BaseInv'
  BY <1>1 DEF BaseInv, TypeOK, Bounds, Entries, Saving, vars, local, disk
<1> QED
  BY <1>1, TypeStep, BoundsStep, EntriesStep, SavingStep DEF Next, BaseInv

LEMMA BaseInit == Init => BaseInv
<1> SUFFICES ASSUME Init PROVE BaseInv
  OBVIOUS
<1>1. TypeOK
  BY JobFacts, NoneAssumption DEF Init, TypeOK
<1>2. Bounds /\ Entries /\ Saving
  BY JobFacts DEF Init, Bounds, Entries, Saving
<1> QED
  BY <1>1, <1>2 DEF BaseInv

(* The client's tables, its threads' locals and the files keep their types:  *)
(* every index into downloadedPieces and every .part index is in range.      *)
THEOREM TypeCorrect == Spec => []TypeOK
<1>1. BaseInv => TypeOK
  BY DEF BaseInv
<1> QED
  BY <1>1, BaseInit, BaseStep, PTL DEF Spec

-----------------------------------------------------------------------------
(* The actions that touch the disk. *)
LEMMA DiskSteps ==
  ASSUME NEW j \in Job, Receive(j) \/ Worker(j),
         ~ OpenPart(j), ~ WritePart(j), ~ OpenFinal(j), ~ Copies(j), ~ Unlink(j)
  PROVE  UNCHANGED disk
  BY DEF Worker, Fetch, Merge, local, disk, Receive, Lookup, SkipPiece,
     StartPiece, GiveUpPiece, Refused, Header, Stalled, Truncated, ReadAll,
     HashMismatch, HashMatch, OpenPartFails, Record, Notify, EndIncomplete,
     BeginMerge, OpenFails, CopyPiece, CopyShort, CopyBehind, CopyFails,
     CopyNothing, MissingPart, Seed, Finish

(* The parts of VerifiedParts about .part files. *)
PartVerified(d, i) == \/ part[d][i] \in Verified(d, i) \cup {None}
                      \/ \E j \in Job : Writing(j, d, i)

PartsVerified == \A d \in Healthy : \A i \in Index : PartVerified(d, i)

(* A worker that stays between its open and its write is where it was. *)
LEMMA StillWriting ==
  ASSUME BaseInv, NEW j \in Job, Receive(j) \/ Worker(j),
         ~ OpenPart(j), ~ WritePart(j), NEW k \in Job, pc[k] = "write"
  PROVE  /\ pc'[k] = "write" /\ path'[k] = path[k] /\ at'[k] = at[k]
<1>1. k # j
  BY DEF BaseInv, TypeOK, Worker, Fetch, Merge, Goto, Receive, Lookup,
     SkipPiece, StartPiece, GiveUpPiece, Refused, Header, Stalled, Truncated,
     ReadAll, HashMismatch, HashMatch, OpenPartFails, Record, Notify,
     EndIncomplete, BeginMerge, OpenFinal, OpenFails, Copies, CopyPiece,
     CopyShort, CopyBehind, CopyFails, CopyNothing, Unlink, MissingPart, Seed,
     Finish
<1> QED
  BY <1>1, OthersUntouched DEF BaseInv

LEMMA PartsStep ==
  ASSUME BaseInv, PartsVerified, NEW j \in Job, Receive(j) \/ Worker(j)
  PROVE  PartsVerified'
<1> SUFFICES ASSUME NEW d \in Healthy, NEW i \in Index
             PROVE  PartVerified(d, i)'
  BY DEF PartsVerified
<1>0. d \in Dest /\ PartVerified(d, i) /\ TypeOK
  BY JobAssumption DEF PartsVerified, BaseInv
<1>1. CASE OpenPart(j)
  <2>1. /\ pc' = [pc EXCEPT ![j] = "write"]
        /\ linked' = [linked EXCEPT ![j] = TRUE]
        /\ part' = [part EXCEPT ![path[j]][at[j]] = Junk]
        /\ UNCHANGED <<path, at>> /\ pc[j] = "save"
    BY <1>1 DEF OpenPart, Goto, local
  <2>2. CASE d = path[j] /\ i = at[j]
    <3>1. Writing(j, d, i)'
      BY <1>0, <2>1, <2>2 DEF Writing, TypeOK
    <3> QED
      BY <3>1 DEF PartVerified
  <2>3. CASE ~(d = path[j] /\ i = at[j])
    <3>1. part'[d][i] = part[d][i]
      BY <1>0, <2>1, <2>3 DEF TypeOK
    <3>2. \A k \in Job : Writing(k, d, i) => Writing(k, d, i)'
      BY <1>0, <2>1 DEF Writing, TypeOK
    <3> QED
      BY <1>0, <3>1, <3>2 DEF PartVerified, Verified
  <2> QED
    BY <2>2, <2>3
<1>2. CASE WritePart(j)
  <2>1. /\ pc[j] = "write" /\ pc' = [pc EXCEPT ![j] = "record"]
        /\ linked' = [linked EXCEPT ![j] = FALSE]
        /\ \/ /\ linked[j]
              /\ part' = [part EXCEPT ![path[j]][at[j]] = got[j]]
           \/ (~linked[j] \/ path[j] \notin Healthy) /\ UNCHANGED part
        /\ UNCHANGED <<path, at>>
    BY <1>2 DEF WritePart, Goto, local
  <2>2. \A k \in Job \ {j} : Writing(k, d, i) => Writing(k, d, i)'
    BY <1>0, <2>1 DEF Writing, TypeOK
  <2>3. CASE Writing(j, d, i)
    <3>1. part'[d][i] = got[j]
      BY <1>0, <2>1, <2>3 DEF Writing, TypeOK
    <3>2. /\ got[j] = <<FileOf[own[j]], i>> /\ own[j] \in Job
          /\ NameOf[own[j]] = NameOf[j]
          /\ \E l \in Job : d = DestOf[l] /\ NameOf[l] = NameOf[j]
      BY <1>0, <2>1, <2>3 DEF Writing, BaseInv, TypeOK, Saving, Entries
    <3>3. got[j] \in Verified(d, i)
      BY <3>2 DEF Verified
    <3> QED
      BY <3>1, <3>3 DEF PartVerified, Verified
  <2>4. CASE ~ Writing(j, d, i)
    <3>1. part'[d][i] = part[d][i]
      BY <1>0, <2>1, <2>4 DEF Writing, TypeOK
    <3> QED
      BY <1>0, <2>2, <2>4, <3>1 DEF PartVerified, Verified
  <2> QED
    BY <2>3, <2>4
<1>3. CASE Unlink(j)
  <2>1. \A k \in Job : pc[k] = "write" =>
            pc'[k] = "write" /\ path'[k] = path[k] /\ at'[k] = at[k]
    BY <1>3, StillWriting DEF Unlink, OpenPart, WritePart, Goto
  <2>2. CASE d = path[j] /\ i = at[j]
    <3>1. part'[d][i] = None
      BY <1>0, <1>3, <2>2 DEF Unlink, TypeOK
    <3> QED
      BY <3>1 DEF PartVerified
  <2>3. CASE ~(d = path[j] /\ i = at[j])
    <3>1. part'[d][i] = part[d][i]
      BY <1>0, <1>3, <2>3 DEF Unlink, TypeOK
    <3>2. \A k \in Job : linked[k] /\ <<path[k], at[k]>> # <<path[j], at[j]>>
                            => linked'[k]
      BY <1>3 DEF Unlink
    <3>3. \A k \in Job : Writing(k, d, i) => Writing(k, d, i)'
      BY <2>1, <2>3, <3>2 DEF Writing
    <3> QED
      BY <1>0, <3>1, <3>3 DEF PartVerified, Verified
  <2> QED
    BY <2>2, <2>3
<1>4. CASE ~ OpenPart(j) /\ ~ WritePart(j) /\ ~ Unlink(j)
  <2>1. UNCHANGED <<part, linked>>
    BY <1>4, DiskSteps DEF disk, OpenFinal, Copies
  <2>2. \A k \in Job : Writing(k, d, i) => Writing(k, d, i)'
    BY <1>4, <2>1, StillWriting DEF Writing
  <2> QED
    BY <1>0, <2>1, <2>2 DEF PartVerified, Verified
<1> QED
  BY <1>1, <1>2, <1>3, <1>4
-----------------------------------------------------------------------------
(* Downloads that share neither name nor destination with another one, on a  *)
(* healthy disk.                                                             *)

(* The pieces of job j that a set of positions of its list must hold.        *)
InParts(j, S) == \A i \in S : part[DestOf[j]][i] = <<FileOf[j], i>>
InFinal(j, S) == \A i \in S : final[DestOf[j]][i] = <<FileOf[j], i>>
All(j) == 0..(Listed[j] - 1)

(* What worker j has achieved by the time it is where it is. *)
Progress(j) ==
    /\ path[j] = DestOf[j]
    /\ downloaded[j] \subseteq All(j)
    /\ \A i \in Index : <<j, i>> \in notified => i \in downloaded[j]
    /\ pc[j] \in {"ask", "read", "starved", "verify", "save", "write",
                  "record"} => at[j] \notin downloaded[j]
    /\ pc[j] = "write" => linked[j]
    /\ pc[j] = "record" => InParts(j, {at[j]})
    /\ pc[j] = "notify" => at[j] \in downloaded[j]
    /\ pc[j] \in {"new", "lookup", "pieces", "ask", "read", "starved",
                  "verify", "save", "write", "record", "notify", "open"} =>
          InParts(j, downloaded[j])
    /\ pc[j] \in {"open", "copy", "unlink"} =>
          total[j] = Listed[j] /\ All(j) \subseteq downloaded[j]
    /\ pc[j] = "copy" =>
          /\ out[j] = at[j]
          /\ InFinal(j, 0..(at[j] - 1)) /\ InParts(j, at[j]..(Listed[j] - 1))
    /\ pc[j] = "unlink" =>
          /\ out[j] = at[j] + 1
          /\ InFinal(j, 0..at[j]) /\ InParts(j, (at[j] + 1)..(Listed[j] - 1))
    /\ pc[j] \in {"finish", "done"} => \A i \in downloaded[j] :
          <<FileOf[j], i>> \in {part[DestOf[j]][i], final[DestOf[j]][i]}
    /\ complete[j] => pc[j] = "done"
    /\ pc[j] = "finish" \/ complete[j] =>
          InFinal(j, All(j)) /\ seeding[NameOf[j]] = DestOf[j]
    /\ seeding[NameOf[j]] = DestOf[j] =>
          pc[j] \in {"finish", "done"} /\ InFinal(j, All(j))
    /\ \A i \in Index : final[DestOf[j]][i] \in {<<FileOf[j], i>>, None}

AllProgress == \A j \in Sound : Progress(j)

(* With a name of its own a worker only ever meets its own DownloadInfo. *)
LEMMA OwnJob ==
  ASSUME BaseInv, NEW j \in Job, Alone(j)
  PROVE  own[j] = j /\ (pc[j] # "new" => Current(j) = j) /\ path[j] = DestOf[j]
<1>1. /\ own[j] \in Job /\ NameOf[own[j]] = NameOf[j]
      /\ \E k \in Job : path[j] = DestOf[k] /\ NameOf[k] = NameOf[j]
  BY DEF BaseInv, TypeOK, Entries, Saving
<1>2. own[j] = j
  BY <1>1 DEF Alone
<1> QED
  BY <1>1, <1>2, CurrentFacts DEF Alone

(* A step of worker j, whatever entry it has been led to, leaves the files   *)
(* and tables of a download that is alone as they are.                       *)
LEMMA SharedSteps ==
  ASSUME BaseInv, NEW j \in Job,
         Receive(j) \/ Worker(j), NEW k \in Job, k # j, Alone(k)
  PROVE  /\ part'[DestOf[k]] = part[DestOf[k]]
         /\ final'[DestOf[k]] = final[DestOf[k]]
         /\ linked'[k] = linked[k]
         /\ downloaded'[k] = downloaded[k] /\ complete'[k] = complete[k]
         /\ seeding'[NameOf[k]] = seeding[NameOf[k]]
         /\ \A i \in Index : <<k, i>> \in notified' <=> <<k, i>> \in notified
<1>0. /\ own[j] # k /\ own[j] \in Job /\ path[k] = DestOf[k]
      /\ NameOf[k] # NameOf[j] /\ path[j] # DestOf[k]
      /\ NameOf[k] \in Name /\ DestOf[k] \in Dest
  <2>1. own[j] \in Job /\ NameOf[own[j]] = NameOf[j]
    BY DEF BaseInv, TypeOK, Entries
  <2>2. PICK l \in Job : path[j] = DestOf[l] /\ NameOf[l] = NameOf[j]
    BY DEF BaseInv, Saving
  <2>3. NameOf[k] # NameOf[j]
    BY DEF Alone
  <2> QED
    BY <2>1, <2>2, <2>3, JobFacts, OwnJob DEF Alone
<1> USE <1>0 DEF BaseInv, TypeOK, local, disk, Goto
<1>1. CASE Receive(j) \/ Lookup(j)
  BY <1>1 DEF Receive, Lookup
<1>2. CASE SkipPiece(j) \/ StartPiece(j) \/ GiveUpPiece(j) \/ Refused(j)
  BY <1>2 DEF SkipPiece, StartPiece, GiveUpPiece, Refused
<1>3. CASE Header(j) \/ Stalled(j) \/ Truncated(j)
  BY <1>3 DEF Header, Stalled, Truncated
<1>4. CASE ReadAll(j) \/ HashMismatch(j) \/ HashMatch(j)
  BY <1>4 DEF ReadAll, HashMismatch, HashMatch
<1>5. CASE OpenPart(j) \/ OpenPartFails(j) \/ WritePart(j)
  BY <1>5 DEF OpenPart, OpenPartFails, WritePart
<1>6. CASE Record(j)
  BY <1>6 DEF Record
<1>7. CASE Notify(j)
  BY <1>7 DEF Notify
<1>8. CASE EndIncomplete(j) \/ BeginMerge(j) \/ OpenFails(j)
  BY <1>8 DEF EndIncomplete, BeginMerge, OpenFails
<1>9. CASE OpenFinal(j)
  BY <1>9 DEF OpenFinal
<1>14. CASE Unlink(j)
  <2>1. part'[DestOf[k]] = part[DestOf[k]] /\ linked'[k] = linked[k]
    BY <1>14, UnlinkEffect
  <2> QED
    BY <1>14, <2>1 DEF Unlink
<1>12. CASE CopyPiece(j) \/ CopyNothing(j)
  BY <1>12 DEF CopyPiece, CopyNothing, Copies
<1>13. CASE CopyShort(j) \/ CopyBehind(j) \/ CopyFails(j)
  <2>1. Copies(j) /\ Spoils(j)
    BY <1>13 DEF CopyShort, CopyBehind, CopyFails
  <2>2. final'[DestOf[k]] = final[DestOf[k]]
    BY <2>1, SpoilStep
  <2> QED
    BY <2>1, <2>2 DEF Copies
<1>10. CASE MissingPart(j) \/ Seed(j)
  BY <1>10 DEF MissingPart, Seed
<1>11. CASE Finish(j)
  BY <1>11 DEF Finish
<1> QED
  BY <1>1, <1>2, <1>3, <1>4, <1>5, <1>6, <1>7, <1>8, <1>9, <1>10, <1>11,
     <1>12, <1>13, <1>14 DEF Worker, Fetch, Merge

(* The others' progress is not disturbed. *)
LEMMA OthersProgress ==
  ASSUME BaseInv, NEW j \in Job, Receive(j) \/ Worker(j),
         NEW k \in Job, k # j, Alone(k), Progress(k)
  PROVE  Progress(k)'
<1>1. TypeOK
  BY DEF BaseInv
<1>2. /\ pc'[k] = pc[k] /\ at'[k] = at[k]
      /\ path'[k] = path[k] /\ total'[k] = total[k] /\ out'[k] = out[k]
  BY <1>1, OthersUntouched
<1>3. /\ part'[DestOf[k]] = part[DestOf[k]]
      /\ final'[DestOf[k]] = final[DestOf[k]]
      /\ linked'[k] = linked[k]
      /\ downloaded'[k] = downloaded[k] /\ complete'[k] = complete[k]
      /\ seeding'[NameOf[k]] = seeding[NameOf[k]]
      /\ \A i \in Index : <<k, i>> \in notified' => <<k, i>> \in notified
  BY <1>1, SharedSteps
<1>4. /\ \A S : InParts(k, S)' <=> InParts(k, S)
      /\ \A S : InFinal(k, S)' <=> InFinal(k, S)
  BY <1>3 DEF InParts, InFinal
<1> QED
  BY <1>1, <1>2, <1>3, <1>4 DEF Progress, All, InParts, InFinal

(* Steps that leave files, tables and the merge alone keep the progress. *)
LEMMA QuietProgress ==
  ASSUME BaseInv, NEW j \in Job, Progress(j),
         UNCHANGED <<downloaded, complete, part, final, seeding, notified,
                     total>>,
         path'[j] = DestOf[j],
         pc'[j] \in {"ask", "read", "starved", "verify", "save"} =>
             at'[j] \notin downloaded[j],
         pc[j] \in {"new", "lookup", "pieces", "ask", "read", "starved",
                   "verify", "save"},
         pc'[j] \in {"lookup", "pieces", "ask", "read", "starved", "verify",
                    "save"}
  PROVE  Progress(j)'
  BY DEF Progress, InParts, InFinal, All

(* The merge of a download that is alone meets only whole parts. *)
LEMMA NeverShort ==
  ASSUME BaseInv, NEW j \in Sound, Progress(j)
  PROVE  ~ CopyShort(j) /\ ~ CopyBehind(j) /\ ~ CopyNothing(j)
<1> SUFFICES ASSUME CopyShort(j) \/ CopyBehind(j) \/ CopyNothing(j)
             PROVE  FALSE
  OBVIOUS
<1>1. Copies(j) /\ j \in Job /\ path[j] = DestOf[j] /\ DestOf[j] \in Healthy
  BY DEF CopyShort, CopyBehind, CopyNothing, Sound, Progress
<1>2. /\ at[j] \in Index /\ at[j] \in Nat /\ pc[j] = "copy"
      /\ out[j] = at[j] /\ at[j] < Listed[j] /\ Listed[j] \in Nat
  BY <1>1, AtCopy, JobFacts DEF Progress, Copies
<1>3. part[DestOf[j]][at[j]] = Junk
  BY <1>1, <1>2 DEF CopyShort, CopyBehind, CopyNothing, Short
<1>4. part[DestOf[j]][at[j]] = <<FileOf[j], at[j]>> /\ FileOf[j] \in File
  BY <1>1, <1>2, JobFacts DEF Progress, InParts
<1> QED
  BY <1>3, <1>4, NoneAssumption DEF Junk

(* A worker whose name and destination are its own makes progress only. *)
LEMMA OwnProgress ==
  ASSUME BaseInv, NEW j \in Sound, Progress(j), Receive(j) \/ Worker(j)
  PROVE  Progress(j)'
<1> USE DEF local, disk, Goto
<1>0. j \in Job /\ Alone(j) /\ DestOf[j] \in Healthy
  BY DEF Sound
<1> USE <1>0
<1>1. own[j] = j /\ (pc[j] # "new" => Current(j) = j)
  BY OwnJob
<1>2. path[j] = DestOf[j]
  BY DEF Progress
<1>3. CASE Receive(j) \/ Lookup(j) \/ SkipPiece(j) \/ StartPiece(j)
  BY <1>1, <1>2, <1>3, QuietProgress
     DEF Receive, Lookup, SkipPiece, StartPiece, BaseInv, TypeOK
<1>21. pc[j] \in {"ask", "read", "starved", "verify", "save"} =>
          at[j] \notin downloaded[j]
  BY DEF Progress
<1>4. CASE GiveUpPiece(j) \/ Refused(j) \/ Header(j) \/ Stalled(j)
  BY <1>2, <1>4, <1>21, QuietProgress
     DEF GiveUpPiece, Refused, Header, Stalled, BaseInv, TypeOK
<1>5. CASE Truncated(j) \/ ReadAll(j) \/ HashMismatch(j) \/ OpenPartFails(j)
  BY <1>2, <1>5, <1>21, QuietProgress
     DEF Truncated, ReadAll, HashMismatch, OpenPartFails, BaseInv, TypeOK
<1>6. CASE HashMatch(j)
  <2>1. path'[j] = DestOf[j]
    BY <1>1, <1>6 DEF HashMatch, BaseInv, TypeOK
  <2> QED
    BY <1>6, <1>21, <2>1, QuietProgress DEF HashMatch, BaseInv, TypeOK
<1>19. CASE OpenPart(j)
  <2>1. /\ part' = [part EXCEPT ![DestOf[j]][at[j]] = Junk]
        /\ pc[j] = "save" /\ pc'[j] = "write" /\ linked'[j]
        /\ UNCHANGED <<at, path, total, downloaded, complete, final, seeding,
                       notified>>
    BY <1>2, <1>19 DEF OpenPart, BaseInv, TypeOK
  <2>2. at[j] \notin downloaded[j] /\ downloaded[j] \subseteq Index
    BY <2>1 DEF Progress, BaseInv, TypeOK
  <2>3. \A i \in downloaded[j] : part'[DestOf[j]][i] = part[DestOf[j]][i]
    BY <2>1, <2>2, JobFacts DEF BaseInv, TypeOK
  <2> QED
    BY <2>1, <2>2, <2>3 DEF Progress, InParts, InFinal, All
<1>7. CASE WritePart(j)
  <2>1. at[j] \in Index /\ got[j] = <<FileOf[j], at[j]>>
    BY <1>1, <1>7, AtPiece DEF WritePart, BaseInv, Saving
  <2>2. /\ part' = [part EXCEPT ![DestOf[j]][at[j]] = <<FileOf[j], at[j]>>]
        /\ pc[j] = "write" /\ pc'[j] = "record"
        /\ UNCHANGED <<at, path, total, downloaded, complete, final, seeding,
                       notified>>
    BY <1>2, <1>7, <2>1 DEF WritePart, BaseInv, TypeOK, Progress
  <2>3. /\ part'[DestOf[j]][at[j]] = <<FileOf[j], at[j]>>
        /\ \A i \in Index : part[DestOf[j]][i] = <<FileOf[j], i>>
                           => part'[DestOf[j]][i] = <<FileOf[j], i>>
    BY <2>1, <2>2, JobFacts DEF BaseInv, TypeOK
  <2>4. downloaded[j] \subseteq Index
    BY DEF BaseInv, TypeOK
  <2> QED
    BY <2>2, <2>3, <2>4 DEF Progress, InParts, InFinal, All
<1>8. CASE Record(j)
  <2>1. /\ downloaded'[j] = downloaded[j] \cup {at[j]}
        /\ pc[j] = "record" /\ pc'[j] = "notify"
        /\ UNCHANGED <<at, path, total, complete, part, final, seeding,
                       notified>>
    BY <1>1, <1>8 DEF Record, BaseInv, TypeOK
  <2>2. at[j] \in All(j)
    BY <1>1, <2>1, JobFacts DEF BaseInv, Bounds, TypeOK, All
  <2> QED
    BY <2>1, <2>2 DEF Progress, InParts, InFinal, All
<1>9. CASE Notify(j)
  <2>1. /\ pc[j] = "notify" /\ pc'[j] = "pieces"
        /\ UNCHANGED <<path, total, complete, part, final, seeding,
                       downloaded>>
        /\ \A i \in Index : <<j, i>> \in notified' =>
                                <<j, i>> \in notified \/ i = at[j]
    BY <1>1, <1>9 DEF Notify, BaseInv, TypeOK
  <2> QED
    BY <2>1 DEF Progress, InParts, InFinal, All
<1>10. CASE EndIncomplete(j)
  <2>1. /\ pc[j] = "pieces" /\ pc'[j] = "done"
        /\ UNCHANGED <<path, total, complete, part, final, seeding,
                       downloaded, notified>>
    BY <1>10 DEF EndIncomplete, BaseInv, TypeOK
  <2> QED
    BY <2>1 DEF Progress, InParts, InFinal, All
<1>11. CASE BeginMerge(j)
  <2>1. /\ pc[j] = "pieces" /\ pc'[j] = "open"
        /\ path'[j] = DestOf[j] /\ total'[j] = Listed[j]
        /\ All(j) \subseteq downloaded[j]
        /\ UNCHANGED <<complete, part, final, seeding, downloaded, notified>>
    BY <1>1, <1>11 DEF BeginMerge, AllDownloaded, All, BaseInv, TypeOK
  <2> QED
    BY <2>1 DEF Progress, InParts, InFinal, All
<1>12. CASE OpenFinal(j)
  <2>1. /\ pc[j] = "open" /\ pc'[j] = "copy" /\ at'[j] = 0 /\ out'[j] = 0
        /\ final' = [final EXCEPT ![DestOf[j]] = [i \in Index |-> None]]
        /\ UNCHANGED <<path, total, complete, part, seeding, downloaded,
                       notified>>
    BY <1>2, <1>12 DEF OpenFinal, BaseInv, TypeOK
  <2>2. InParts(j, 0..(Listed[j] - 1))
    BY <2>1 DEF Progress, All, InParts
  <2>3. seeding[NameOf[j]] # DestOf[j] /\ ~ complete[j]
    BY <2>1 DEF Progress
  <2>4. \A i \in Index : final'[DestOf[j]][i] = None
    BY <2>1, JobFacts DEF BaseInv, TypeOK
  <2> QED
    BY <2>1, <2>2, <2>3, <2>4, JobFacts DEF Progress, InParts, InFinal, All
<1>13. ~ OpenFails(j) /\ ~ CopyFails(j)
  BY <1>2 DEF OpenFails, CopyFails
<1>20. ~ CopyShort(j) /\ ~ CopyBehind(j) /\ ~ CopyNothing(j)
  BY NeverShort
<1>14. CASE CopyPiece(j)
  <2>1. /\ pc[j] = "copy" /\ pc'[j] = "unlink"
        /\ at[j] < total[j] /\ total[j] = Listed[j]
        /\ final' = [final EXCEPT ![DestOf[j]][at[j]] =
                                        part[DestOf[j]][at[j]]]
        /\ out'[j] = at[j] + 1
        /\ UNCHANGED <<path, total, complete, part, seeding, downloaded,
                       notified, at>>
    BY <1>2, <1>14 DEF CopyPiece, Copies, BaseInv, TypeOK, Progress
  <2>2. /\ at[j] \in 0..(Listed[j] - 1) /\ 0..(Listed[j] - 1) \subseteq Index
        /\ InParts(j, at[j]..(Listed[j] - 1))
        /\ InFinal(j, 0..(at[j] - 1))
    BY <2>1, JobFacts DEF BaseInv, TypeOK, Progress, Index
  <2>3. part[DestOf[j]][at[j]] = <<FileOf[j], at[j]>>
    BY <2>2 DEF InParts
  <2>4. \A i \in 0..at[j] : final'[DestOf[j]][i] = <<FileOf[j], i>>
    <3> TAKE i \in 0..at[j]
    <3>1. /\ at[j] \in Index /\ DestOf[j] \in Dest
          /\ final[DestOf[j]] \in [Index -> Content \cup {Junk, None}]
          /\ final \in [Dest -> [Index -> Content \cup {Junk, None}]]
      BY <2>2, JobFacts DEF BaseInv, TypeOK
    <3>2. CASE i = at[j]
      BY <2>1, <2>3, <3>1, <3>2
    <3>3. CASE i # at[j]
      <4>1. i \in 0..(at[j] - 1)
        BY <2>2, <3>3
      <4>2. final[DestOf[j]][i] = <<FileOf[j], i>>
        BY <2>2, <4>1 DEF InFinal
      <4>3. final'[DestOf[j]][i] = final[DestOf[j]][i]
        BY <2>1, <3>1, <3>3
      <4> QED
        BY <4>2, <4>3
    <3> QED
      BY <3>2, <3>3
  <2>5. InParts(j, (at[j] + 1)..(Listed[j] - 1))
    BY <2>2 DEF InParts
  <2>6. seeding[NameOf[j]] # DestOf[j] /\ ~ complete[j]
    BY <2>1 DEF Progress
  <2>7. \A i \in Index : final'[DestOf[j]][i] \in {<<FileOf[j], i>>, None}
    <3> TAKE i \in Index
    <3>1. CASE i = at[j]
      <4>1. i \in 0..at[j]
        BY <2>2, <3>1
      <4> QED
        BY <2>4, <4>1
    <3>2. CASE i # at[j]
      BY <2>1, <2>2, <3>2, JobFacts DEF BaseInv, TypeOK, Progress
    <3> QED
      BY <3>1, <3>2
  <2> QED
    BY <2>1, <2>4, <2>5, <2>6, <2>7 DEF Progress, InParts, InFinal
<1>15. CASE Unlink(j)
  <2>1. /\ pc[j] = "unlink" /\ pc'[j] = "copy"
        /\ at'[j] = at[j] + 1 /\ out'[j] = out[j]
        /\ part' = [part EXCEPT ![DestOf[j]][at[j]] = None]
        /\ UNCHANGED <<path, total, complete, final, seeding, downloaded,
                       notified>>
    BY <1>2, <1>15 DEF Unlink, BaseInv, TypeOK
  <2>2. /\ at[j] \in Nat /\ Listed[j] \in Nat
        /\ (at[j] + 1)..(Listed[j] - 1) \subseteq Index
    BY JobFacts DEF BaseInv, TypeOK, Index
  <2>3. \A i \in at'[j]..(Listed[j] - 1) : part'[DestOf[j]][i] = <<FileOf[j], i>>
    BY <2>1, <2>2, JobFacts DEF BaseInv, TypeOK, Progress, InParts
  <2>4. \A i \in 0..(at'[j] - 1) : final'[DestOf[j]][i] = <<FileOf[j], i>>
    BY <2>1, <2>2 DEF Progress, InFinal
  <2>5. seeding[NameOf[j]] # DestOf[j] /\ ~ complete[j]
    BY <2>1 DEF Progress
  <2> QED
    BY <2>1, <2>3, <2>4, <2>5 DEF Progress, InParts, InFinal
<1>16. CASE MissingPart(j)
  <2>1. /\ pc[j] = "copy" /\ at[j] < total[j]
        /\ part[DestOf[j]][at[j]] = None
    BY <1>2, <1>16 DEF MissingPart
  <2>2. at[j] \in at[j]..(Listed[j] - 1)
    BY <2>1, JobFacts DEF BaseInv, TypeOK, Progress
  <2>3. <<FileOf[j], at[j]>> = None /\ at[j] \in Index
    <3>1. InParts(j, at[j]..(Listed[j] - 1))
      BY <2>1 DEF Progress
    <3>2. at[j] \in Index
      BY <2>2, JobFacts DEF BaseInv, TypeOK, Index
    <3> QED
      BY <2>1, <2>2, <3>1, <3>2 DEF InParts
  <2>4. <<FileOf[j], at[j]>> \in Content
    BY <2>3, JobFacts DEF Content
  <2> QED
    BY <2>3, <2>4, NoneAssumption
<1>17. CASE Seed(j)
  <2>1. /\ pc[j] = "copy" /\ pc'[j] = "finish" /\ at[j] = Listed[j]
        /\ seeding'[NameOf[j]] = DestOf[j]
        /\ UNCHANGED <<path, total, complete, part, final, downloaded,
                       notified>>
    BY <1>17, JobFacts DEF Seed, BaseInv, TypeOK, Progress
  <2>2. InFinal(j, All(j))
    BY <2>1 DEF Progress, All
  <2> QED
    BY <2>1, <2>2 DEF Progress, InParts, InFinal
<1>18. CASE Finish(j)
  <2>1. /\ pc[j] = "finish" /\ pc'[j] = "done"
        /\ UNCHANGED <<path, total, part, final, seeding, downloaded,
                       notified>>
    BY <1>18 DEF Finish, BaseInv, TypeOK
  <2> QED
    BY <2>1 DEF Progress, InParts, InFinal, All
<1> QED
  BY <1>3, <1>4, <1>5, <1>6, <1>7, <1>8, <1>9, <1>10, <1>11, <1>12, <1>13,
     <1>14, <1>15, <1>16, <1>17, <1>18, <1>19, <1>20 DEF Worker, Fetch, Merge

LEMMA ProgressStep == BaseInv /\ AllProgress /\ [Next]_vars => AllProgress'
<1> SUFFICES ASSUME BaseInv, AllProgress, [Next]_vars PROVE AllProgress'
  OBVIOUS
<1>1. ASSUME UNCHANGED vars PROVE AllProgress'
  <2>1. ASSUME NEW j \in Job, Progress(j) PROVE Progress(j)'
    BY <1>1, <2>1 DEF vars, local, disk, Progress, InParts, InFinal, All
  <2> QED
    BY <2>1 DEF AllProgress, Sound, Alone
<1>2. ASSUME NEW j \in Job, Receive(j) \/ Worker(j), NEW k \in Sound
      PROVE  Progress(k)'
  BY <1>2, OwnProgress, OthersProgress DEF AllProgress, Sound
<1>3. ASSUME NEW j \in Job, Receive(j) \/ Worker(j) PROVE AllProgress'
  BY <1>2, <1>3 DEF AllProgress, Sound, Alone
<1> QED
  BY <1>1, <1>3 DEF Next

LEMMA ProgressInit == Init => AllProgress
<1> SUFFICES ASSUME Init, NEW j \in Job PROVE Progress(j)
  BY DEF AllProgress, Sound
<1>1. NameOf[j] \in Name /\ DestOf[j] \in Dest /\ None \notin Dest
  BY JobFacts, NoneAssumption
<1> QED
  BY <1>1 DEF Init, Progress, InParts, InFinal, All

LEMMA ProgressAlways == Spec => [](BaseInv /\ AllProgress)
<1>1. BaseInv /\ AllProgress /\ [Next]_vars => (BaseInv /\ AllProgress)'
  BY BaseStep, ProgressStep
<1>2. Init => BaseInv /\ AllProgress
  BY BaseInit, ProgressInit
<1> QED
  BY <1>1, <1>2, PTL DEF Spec

(* On a healthy disk a .part file holds nothing but verified pieces for its  *)
(* own position and name, save between a worker's truncating open and its    *)
(* write, however many downloads share a name; and no merge of a download    *)
(* that is alone meets one it can read half of.                              *)
THEOREM DiskIsVerified == Spec => []VerifiedParts
<1>1. BaseInv /\ PartsVerified /\ [Next]_vars => PartsVerified'
  <2>1. ASSUME UNCHANGED vars, PartsVerified PROVE PartsVerified'
    BY <2>1 DEF vars, local, disk, PartsVerified, PartVerified, Verified,
       Writing
  <2> QED
    BY <2>1, PartsStep DEF Next
<1>2. Init => PartsVerified
  BY JobAssumption DEF Init, PartsVerified, PartVerified
<1>3. PartsVerified /\ AllProgress => VerifiedParts
  BY DEF PartsVerified, PartVerified, AllProgress, Progress, Sound,
     VerifiedParts
<1> QED
  BY <1>1, <1>2, <1>3, BaseInit, BaseStep, ProgressAlways, PTL DEF Spec

(* A download that shares nothing never loses a piece the tracker was told   *)
(* of, whatever the others do to each other and to their disks.              *)
THEOREM NotifiedIsHeld == Spec => []NotifiedHeld
<1>1. BaseInv /\ AllProgress => NotifiedHeld
  <2> SUFFICES ASSUME BaseInv, AllProgress, NEW j \in Job, Alone(j),
                      DestOf[j] \in Healthy, NEW i \in Index, <<j, i>> \in notified
               PROVE  \/ part[DestOf[j]][i] = <<FileOf[j], i>>
                      \/ final[DestOf[j]][i] = <<FileOf[j], i>>
    BY DEF NotifiedHeld
  <2>1. Progress(j) /\ i \in downloaded[j]
    BY DEF AllProgress, Sound, Progress
  <2>2. i \in All(j) /\ i \in Nat /\ at[j] \in Nat /\ Listed[j] \in Nat
    BY <2>1, JobFacts DEF Progress, All, BaseInv, TypeOK
  <2>3. CASE pc[j] \in {"finish", "done"}
    BY <2>1, <2>3 DEF Progress
  <2>4. CASE pc[j] = "copy"
    <3>1. i \in 0..(at[j] - 1) \/ i \in at[j]..(Listed[j] - 1)
      BY <2>2 DEF All
    <3> QED
      BY <2>1, <2>4, <3>1 DEF Progress, InParts, InFinal
  <2>5. CASE pc[j] = "unlink"
    <3>1. i \in 0..at[j] \/ i \in (at[j] + 1)..(Listed[j] - 1)
      BY <2>2 DEF All
    <3> QED
      BY <2>1, <2>5, <3>1 DEF Progress, InParts, InFinal
  <2>6. CASE pc[j] \in {"new", "lookup", "pieces", "ask", "read", "starved",
                       "verify", "save", "write", "record", "notify", "open"}
    BY <2>1, <2>6 DEF Progress, InParts
  <2> QED
    BY <2>3, <2>4, <2>5, <2>6 DEF BaseInv, TypeOK
<1> QED
  BY <1>1, ProgressAlways, PTL

(* "Download completed" is true of a download that shares neither name nor   *)
(* destination, when every piece was listed and the destination takes every  *)
(* write; each of the three conditions is needed.                            *)
THEOREM CompleteMeansWhole == Spec => []AloneIsWhole
<1>1. AllProgress => AloneIsWhole
  BY DEF AllProgress, Sound, Progress, AloneIsWhole, Whole, InFinal, All, FullyListed
<1> QED
  BY <1>1, ProgressAlways, PTL

(* What is entered in seedingFiles after such a download is whole and stays  *)
(* so.                                                                       *)
THEOREM SeedsAreWhole == Spec => []SeedsWhole
<1>1. ASSUME AllProgress, NEW j \in Sound, FullyListed(j),
             seeding[NameOf[j]] = DestOf[j]
      PROVE  Whole(j)
  <2>1. InFinal(j, All(j))
    BY <1>1 DEF AllProgress, Progress
  <2> QED
    BY <1>1, <2>1 DEF Whole, InFinal, All, FullyListed
<1>2. AllProgress => SeedsWhole
  BY <1>1 DEF SeedsWhole, Sound
<1> QED
  BY <1>2, ProgressAlways, PTL
-----------------------------------------------------------------------------
(* Where the disks are healthy, connection c of worker j is the one in   *)
(* use or leads to a seeder that can send wrong bytes; for that, a mismatch  *)
(* comes from such a seeder, and a worker has no connection before it has    *)
(* its DownloadInfo.                                                         *)
Accounted(j, c) ==
    \/ /\ pc[j] \in {"read", "starved", "verify", "save", "write"}
       /\ c = Here(j)
    \/ "wrong" \in Answers[Seeders[own[j]][c[1]][c[2]]]

Tidy(j) ==
    (\A k \in Namesakes(j) : DestOf[k] \in Healthy) =>
        /\ \A c \in sockets[j] : Accounted(j, c)
        /\ pc[j] = "verify" /\ got[j] # Expected(j) =>
              "wrong" \in Answers[Sources(j)[nth[j]]]
        /\ pc[j] \in {"new", "lookup"} => sockets[j] = {}

AllTidy == \A j \in Job : Tidy(j)

(* A worker's own step keeps its connections accounted for. *)
LEMMA OwnTidy ==
  ASSUME BaseInv, NEW j \in Job, Tidy(j), Receive(j) \/ Worker(j)
  PROVE  Tidy(j)'
<1> SUFFICES ASSUME \A k \in Namesakes(j) : DestOf[k] \in Healthy
             PROVE  /\ \A c \in sockets'[j] : Accounted(j, c)'
                    /\ pc'[j] = "verify" /\ got'[j] # Expected(j)' =>
                          "wrong" \in Answers[Sources(j)'[nth'[j]]]
                    /\ pc'[j] \in {"new", "lookup"} => sockets'[j] = {}
  BY DEF Tidy, Namesakes
<1>1. /\ \A c \in sockets[j] : Accounted(j, c)
      /\ pc[j] = "verify" /\ got[j] # Expected(j) =>
            "wrong" \in Answers[Sources(j)[nth[j]]]
      /\ pc[j] \in {"new", "lookup"} => sockets[j] = {}
  BY DEF Tidy
<1>2. /\ pc \in [Job -> {"new", "lookup", "pieces", "ask", "read", "starved",
                        "verify", "save", "write", "record", "notify", "open",
                        "copy", "unlink", "finish", "done"}]
      /\ sockets \in [Job -> SUBSET (Index \X (Nat \ {0}))]
      /\ got \in [Job -> Content \cup {Junk}]
      /\ at \in [Job -> 0..MaxPieces] /\ nth \in [Job -> Nat \ {0}]
  BY DEF BaseInv, TypeOK
<1> USE <1>1, <1>2 DEF local, disk, Goto, Accounted, Expected, Sources, Here
<1>3. CASE Receive(j) \/ Lookup(j)
  BY <1>3 DEF Receive, Lookup
<1>4. CASE SkipPiece(j) \/ StartPiece(j) \/ GiveUpPiece(j) \/ Refused(j)
  BY <1>4 DEF SkipPiece, StartPiece, GiveUpPiece, Refused
<1>5. CASE Header(j)
  BY <1>5 DEF Header
<1>6. CASE Stalled(j) \/ Truncated(j)
  BY <1>6 DEF Stalled, Truncated
<1>7. CASE ReadAll(j)
  BY <1>7 DEF ReadAll, MayAnswer
<1>8. CASE HashMismatch(j)
  BY <1>8 DEF HashMismatch
<1>9. CASE HashMatch(j)
  BY <1>9 DEF HashMatch
<1>10. CASE OpenPart(j) \/ WritePart(j)
  BY <1>10 DEF OpenPart, WritePart
<1>11. CASE OpenPartFails(j)
  <2>1. \E k \in Namesakes(j) : path[j] = DestOf[k]
    BY DEF BaseInv, Saving, Namesakes
  <2> QED
    BY <1>11, <2>1 DEF OpenPartFails
<1>12. CASE Record(j) \/ Notify(j) \/ EndIncomplete(j) \/ BeginMerge(j)
  BY <1>12 DEF Record, Notify, EndIncomplete, BeginMerge
<1>13. CASE OpenFinal(j) \/ OpenFails(j) \/ Unlink(j) \/ Copies(j)
  BY <1>13 DEF OpenFinal, OpenFails, Unlink, Copies
<1>14. CASE MissingPart(j) \/ Seed(j) \/ Finish(j)
  BY <1>14 DEF MissingPart, Seed, Finish
<1> QED
  BY <1>3, <1>4, <1>5, <1>6, <1>7, <1>8, <1>9, <1>10, <1>11, <1>12, <1>13,
     <1>14 DEF Worker, Fetch, Merge, CopyPiece, CopyShort, CopyBehind,
     CopyFails, CopyNothing

(* Where the disks are healthy no connection is left open but to seeders that *)
(* can send wrong bytes, for any number of downloads, peers and pieces, also *)
(* when a worker has been led to another download's list.                    *)
THEOREM SocketsAreClosed == Spec => []NoSocketLeak
<1>1. BaseInv /\ AllTidy /\ [Next]_vars => AllTidy'
  <2> SUFFICES ASSUME BaseInv, AllTidy, [Next]_vars, NEW k \in Job
               PROVE  Tidy(k)'
    BY DEF AllTidy
  <2>1. Tidy(k)
    BY DEF AllTidy
  <2>2. CASE /\ pc'[k] = pc[k] /\ own'[k] = own[k] /\ at'[k] = at[k]
             /\ nth'[k] = nth[k] /\ got'[k] = got[k]
             /\ sockets'[k] = sockets[k]
    BY <2>1, <2>2 DEF Tidy, Namesakes, Accounted, Expected, Sources, Here
  <2>3. UNCHANGED vars => UNCHANGED <<pc, own, at, nth, got, sockets>>
    BY DEF vars, local
  <2>4. ASSUME NEW j \in Job, Receive(j) \/ Worker(j), j # k
        PROVE  /\ pc'[k] = pc[k] /\ own'[k] = own[k] /\ at'[k] = at[k]
               /\ nth'[k] = nth[k] /\ got'[k] = got[k]
               /\ sockets'[k] = sockets[k]
    BY <2>4, OthersUntouched DEF BaseInv
  <2> QED
    BY <2>1, <2>2, <2>3, <2>4, OwnTidy DEF Next
<1>2. Init => AllTidy
  BY DEF Init, AllTidy, Tidy
<1>3. AllTidy => NoSocketLeak
  BY DEF AllTidy, Tidy, NoSocketLeak, Accounted
<1> QED
  BY <1>1, <1>2, <1>3, BaseStep, BaseInit, PTL DEF Spec
-----------------------------------------------------------------------------
(* Download implements Transfer. *)

(* Of a download that is alone, no piece is on disk but the recorded ones    *)
(* and the one about to be recorded.                                         *)
Exact(j) == HeldBy(j) \subseteq downloaded[j] \cup
                               (IF pc[j] = "record" THEN {at[j]} ELSE {})

AllExact == \A j \in Sound : Exact(j)

(* The five ways to copy a part. *)
LEMMA OnlyCopies ==
  ASSUME NEW j \in Job, Receive(j) \/ Worker(j), Copies(j), TypeOK
  PROVE  \/ CopyPiece(j) \/ CopyShort(j) \/ CopyBehind(j)
         \/ CopyFails(j) \/ CopyNothing(j)
  BY DEF TypeOK, Worker, Fetch, Merge, Goto, Receive, Lookup, SkipPiece,
     StartPiece, GiveUpPiece, Refused, Header, Stalled, Truncated, ReadAll,
     HashMismatch, HashMatch, OpenPart, OpenPartFails, WritePart, Record,
     Notify, EndIncomplete, BeginMerge, OpenFinal, OpenFails, Copies, Unlink,
     MissingPart, Seed, Finish

LEMMA OwnExact ==
  ASSUME BaseInv, NEW j \in Sound, Progress(j), Exact(j),
         Receive(j) \/ Worker(j)
  PROVE  Exact(j)'
<1> USE DEF local, disk, Goto
<1>1. /\ j \in Job /\ DestOf[j] \in Healthy /\ DestOf[j] \in Dest
      /\ own[j] = j /\ path[j] = DestOf[j]
      /\ \A i \in Index : <<FileOf[j], i>> \notin {None, Junk}
  BY OwnJob, JobFacts, NoneAssumption DEF Sound, Content, Junk
<1>6. CASE OpenPart(j)
  <2>1. /\ pc[j] = "save" /\ pc'[j] = "write" /\ at[j] \in Index
        /\ UNCHANGED <<downloaded, final>>
        /\ part' = [part EXCEPT ![DestOf[j]][at[j]] = Junk]
    BY <1>1, <1>6, AtPiece DEF OpenPart, BaseInv, TypeOK
  <2>2. HeldBy(j)' \subseteq HeldBy(j)
    BY <1>1, <2>1 DEF HeldBy, BaseInv, TypeOK
  <2> QED
    BY <2>1, <2>2 DEF Exact
<1>2. CASE WritePart(j)
  <2>1. at[j] \in Index /\ pc'[j] = "record"
        /\ UNCHANGED <<at, downloaded, final>>
        /\ part' = [part EXCEPT ![DestOf[j]][at[j]] = got[j]]
    BY <1>1, <1>2, AtPiece DEF WritePart, BaseInv, TypeOK, Progress
  <2>2. HeldBy(j)' \subseteq HeldBy(j) \cup {at[j]}
    BY <1>1, <2>1 DEF HeldBy, BaseInv, TypeOK
  <2> QED
    BY <1>2, <2>1, <2>2 DEF Exact, WritePart
<1>3. CASE Record(j)
  <2>1. /\ pc[j] = "record" /\ pc'[j] = "notify" /\ UNCHANGED <<part, final>>
        /\ downloaded'[j] = downloaded[j] \cup {at[j]}
    BY <1>1, <1>3 DEF Record, BaseInv, TypeOK
  <2> QED
    BY <2>1 DEF Exact, HeldBy
<1>4. CASE OpenFinal(j) \/ Copies(j) \/ Unlink(j)
  <2>1. pc[j] # "record" /\ pc'[j] # "record" /\ UNCHANGED downloaded
    BY <1>4 DEF OpenFinal, Copies, Unlink, BaseInv, TypeOK
  <2>2. HeldBy(j)' \subseteq HeldBy(j)
    <3> USE <1>1 DEF BaseInv, TypeOK, HeldBy
    <3>2. CASE OpenFinal(j)
      BY <3>2 DEF OpenFinal
    <3>3. CASE Copies(j)
      <4>2. part' = part /\ pc[j] = "copy" /\ pc'[j] = "unlink"
        BY <3>3 DEF Copies
      <4>3. CASE CopyPiece(j)
        BY <4>2, <4>3 DEF CopyPiece
      <4>4. CASE CopyNothing(j)
        BY <4>2, <4>4 DEF CopyNothing
      <4>5. CASE CopyShort(j) \/ CopyBehind(j) \/ CopyFails(j)
        BY <4>2, <4>5, SpoilStep DEF CopyShort, CopyBehind, CopyFails
      <4> QED
        BY <3>3, <4>3, <4>4, <4>5, OnlyCopies
    <3>4. CASE Unlink(j)
      <4>1. /\ part' = [part EXCEPT ![DestOf[j]][at[j]] = None]
            /\ UNCHANGED final
        BY <3>4, UnlinkEffect DEF Unlink
      <4> QED
        BY <4>1
    <3> QED
      BY <1>4, <3>2, <3>3, <3>4
  <2> QED
    BY <2>1, <2>2 DEF Exact
<1>5. CASE ~(\/ OpenPart(j) \/ WritePart(j) \/ Record(j) \/ OpenFinal(j)
            \/ Copies(j) \/ Unlink(j))
  <2>1. UNCHANGED <<part, final>>
    BY <1>1, <1>5, DiskSteps
  <2>2. UNCHANGED downloaded /\ pc[j] # "record" /\ pc'[j] # "record"
    BY <1>5 DEF BaseInv, TypeOK, Worker, Fetch, Merge, Receive, Lookup,
       SkipPiece, StartPiece, GiveUpPiece, Refused, Header, Stalled,
       Truncated, ReadAll, HashMismatch, HashMatch, OpenPartFails, Notify,
       EndIncomplete, BeginMerge, OpenFails, CopyPiece, CopyShort, CopyBehind,
       CopyFails, CopyNothing, MissingPart, Seed, Finish
  <2> QED
    BY <2>1, <2>2 DEF Exact, HeldBy
<1> QED
  BY <1>2, <1>3, <1>4, <1>5, <1>6

LEMMA ExactAlways == Spec => [](BaseInv /\ AllProgress /\ AllExact)
<1>1. ASSUME BaseInv, AllProgress, AllExact, [Next]_vars PROVE AllExact'
  <2> SUFFICES ASSUME NEW k \in Sound PROVE Exact(k)'
    BY DEF AllExact, Sound, Alone
  <2>0. k \in Job /\ Alone(k)
    BY DEF Sound
  <2>1. Progress(k) /\ Exact(k)
    BY <1>1 DEF AllProgress, AllExact
  <2>2. CASE UNCHANGED vars
    BY <2>1, <2>2 DEF vars, local, disk, Exact, HeldBy
  <2>3. ASSUME NEW j \in Job, Receive(j) \/ Worker(j) PROVE Exact(k)'
    <3>1. CASE j = k
      BY <1>1, <2>1, <2>3, <3>1, OwnExact
    <3>2. CASE j # k
      BY <1>1, <2>0, <2>1, <2>3, <3>2, SharedSteps, OthersUntouched
         DEF Exact, HeldBy, BaseInv
    <3> QED
      BY <3>1, <3>2
  <2> QED
    BY <1>1, <2>2, <2>3 DEF Next
<1>2. Init => AllExact
  <2> SUFFICES ASSUME Init, NEW j \in Job PROVE HeldBy(j) = {}
    BY DEF AllExact, Exact, Sound
  <2>1. \A i \in Index : None # <<FileOf[j], i>>
    BY JobFacts, NoneAssumption DEF Content
  <2> QED
    BY <2>1, JobFacts DEF Init, HeldBy
<1> QED
  BY <1>1, <1>2, ProgressAlways, BaseStep, ProgressStep, BaseInit,
     ProgressInit, PTL DEF Spec

(* A step of another worker is none of this transfer. *)
LEMMA OtherTransfer ==
  ASSUME BaseInv, NEW j \in Job, Receive(j) \/ Worker(j),
         NEW k \in Sound, k # j
  PROVE  /\ StageOf(k)' = StageOf(k)
         /\ HeldBy(k)' = HeldBy(k)
         /\ ToldOf(k)' = ToldOf(k)
<1>1. k \in Job /\ Alone(k) /\ TypeOK
  BY DEF Sound, BaseInv
<1> QED
  BY <1>1, SharedSteps, OthersUntouched DEF StageOf, HeldBy, ToldOf

(* What a worker's own step is for its transfer. *)
Moves(j) ==
    \/ /\ StageOf(j) = "fetching" /\ UNCHANGED StageOf(j)
       /\ \E i \in All(j) :
             \/ HeldBy(j)' = HeldBy(j) \cup {i} /\ UNCHANGED ToldOf(j)
             \/ /\ i \in HeldBy(j) /\ UNCHANGED HeldBy(j)
                /\ ToldOf(j)' = ToldOf(j) \cup {i}
    \/ /\ UNCHANGED <<HeldBy(j), ToldOf(j)>>
       /\ \/ UNCHANGED StageOf(j)
          \/ StageOf(j) = "idle" /\ StageOf(j)' = "fetching"
          \/ /\ HeldBy(j) = All(j)
             /\ StageOf(j) = "fetching" /\ StageOf(j)' = "offered"
          \/ StageOf(j) = "offered" /\ StageOf(j)' = "complete"
          \/ /\ HeldBy(j) # All(j)
             /\ StageOf(j) = "fetching" /\ StageOf(j)' = "ended"

LEMMA OwnTransfer ==
  ASSUME BaseInv, NEW j \in Sound, Progress(j), Exact(j),
         Receive(j) \/ Worker(j)
  PROVE  Moves(j)
<1> USE DEF local, disk, Goto
<1>1. /\ j \in Job /\ Alone(j) /\ DestOf[j] \in Healthy /\ DestOf[j] \in Dest
      /\ own[j] = j /\ path[j] = DestOf[j]
      /\ All(j) \subseteq Index /\ downloaded[j] \subseteq All(j)
  BY OwnJob, JobFacts DEF Sound, Progress, All, Index
<1>2. /\ complete[j] => pc[j] = "done"
      /\ seeding[NameOf[j]] = DestOf[j] => pc[j] \in {"finish", "done"}
      /\ pc[j] = "finish" => seeding[NameOf[j]] = DestOf[j]
  BY <1>1 DEF Progress
<1>3. CASE Receive(j)
  BY <1>1, <1>2, <1>3
     DEF Moves, Receive, StageOf, HeldBy, ToldOf, BaseInv, TypeOK
<1>4. CASE \/ Lookup(j) \/ SkipPiece(j) \/ StartPiece(j) \/ GiveUpPiece(j)
           \/ Refused(j) \/ Header(j) \/ Stalled(j) \/ Truncated(j)
           \/ ReadAll(j) \/ HashMismatch(j) \/ HashMatch(j)
           \/ OpenPartFails(j) \/ Record(j) \/ BeginMerge(j)
  <2>1. /\ UNCHANGED <<complete, part, final, seeding, notified>>
        /\ pc[j] \notin {"new", "finish", "done"}
        /\ pc'[j] \notin {"new", "finish", "done"}
    BY <1>1, <1>4 DEF BaseInv, TypeOK, Lookup, SkipPiece, StartPiece,
       GiveUpPiece, Refused, Header, Stalled, Truncated, ReadAll,
       HashMismatch, HashMatch, OpenPartFails, Record, BeginMerge
  <2> QED
    BY <1>2, <2>1 DEF Moves, StageOf, HeldBy, ToldOf
<1>13. CASE OpenPart(j)
  <2>1. /\ at[j] \in All(j) /\ pc[j] = "save" /\ pc'[j] = "write"
        /\ UNCHANGED <<complete, final, seeding, notified>>
        /\ part' = [part EXCEPT ![DestOf[j]][at[j]] = Junk]
    BY <1>1, <1>13, JobFacts DEF OpenPart, BaseInv, TypeOK, Bounds, All
  <2>2. at[j] \notin HeldBy(j)
    BY <2>1 DEF Exact, Progress
  <2>3. <<FileOf[j], at[j]>> # Junk
    BY <1>1, JobFacts, NoneAssumption DEF Junk
  <2>4. HeldBy(j)' = HeldBy(j)
    BY <1>1, <2>1, <2>2, <2>3 DEF HeldBy, BaseInv, TypeOK
  <2> QED
    BY <1>2, <2>1, <2>4 DEF Moves, StageOf, ToldOf
<1>5. CASE WritePart(j)
  <2>1. /\ at[j] \in All(j) /\ got[j] = <<FileOf[j], at[j]>>
        /\ pc[j] = "write" /\ pc'[j] = "record"
        /\ UNCHANGED <<complete, final, seeding, notified>>
        /\ part' = [part EXCEPT ![DestOf[j]][at[j]] = got[j]]
    <3>1. pc[j] = "write" /\ at[j] < Listed[j] /\ linked[j]
      BY <1>1, <1>5 DEF WritePart, BaseInv, Bounds, Progress
    <3>2. at[j] \in All(j) /\ got[j] = <<FileOf[j], at[j]>>
      BY <1>1, <3>1, JobFacts DEF BaseInv, TypeOK, Saving, All
    <3> QED
      BY <1>1, <1>5, <3>1, <3>2 DEF WritePart, BaseInv, TypeOK
  <2>2. HeldBy(j)' = HeldBy(j) \cup {at[j]}
    BY <1>1, <2>1 DEF HeldBy, BaseInv, TypeOK
  <2>3. /\ StageOf(j) = "fetching" /\ UNCHANGED StageOf(j)
        /\ UNCHANGED ToldOf(j)
    BY <1>2, <2>1 DEF StageOf, ToldOf
  <2> QED
    BY <2>1, <2>2, <2>3 DEF Moves
<1>6. CASE Notify(j)
  <2>1. /\ pc[j] = "notify" /\ pc'[j] = "pieces"
        /\ UNCHANGED <<complete, part, final, seeding>>
        /\ notified' = notified \/ notified' = notified \cup {<<j, at[j]>>}
    BY <1>1, <1>6 DEF Notify, BaseInv, TypeOK
  <2>2. at[j] \in All(j) /\ at[j] \in HeldBy(j)
    BY <1>1, <2>1 DEF Progress, InParts, HeldBy
  <2>3. /\ StageOf(j) = "fetching" /\ UNCHANGED StageOf(j)
        /\ UNCHANGED HeldBy(j)
    BY <1>2, <2>1 DEF StageOf, HeldBy
  <2>4. ToldOf(j)' = ToldOf(j) \/ ToldOf(j)' = ToldOf(j) \cup {at[j]}
    BY <1>1, <2>1, <2>2 DEF ToldOf
  <2> QED
    BY <2>2, <2>3, <2>4 DEF Moves
<1>7. CASE EndIncomplete(j)
  <2>1. /\ pc[j] = "pieces" /\ pc'[j] = "done"
        /\ UNCHANGED <<complete, part, final, seeding, notified>>
        /\ \E i \in All(j) : i \notin downloaded[j]
    BY <1>1, <1>7 DEF EndIncomplete, AllDownloaded, All, BaseInv, TypeOK
  <2>2. HeldBy(j) # All(j)
    BY <2>1 DEF Exact
  <2> QED
    BY <1>2, <2>1, <2>2 DEF Moves, StageOf, HeldBy, ToldOf
<1>8. CASE OpenFinal(j) \/ CopyPiece(j) \/ Unlink(j)
  <2>1. /\ pc[j] \in {"open", "copy", "unlink"}
        /\ pc'[j] \in {"copy", "unlink"}
        /\ UNCHANGED <<complete, seeding, notified>>
    BY <1>1, <1>8 DEF OpenFinal, CopyPiece, Copies, Unlink, BaseInv, TypeOK
  <2>2. HeldBy(j)' = HeldBy(j)
    <3> USE NoneAssumption, <1>1 DEF BaseInv, TypeOK, HeldBy
    <3>1. \A i \in Index : None # <<FileOf[j], i>>
      BY JobFacts DEF Content
    <3>2. CASE OpenFinal(j)
      <4>1. /\ pc[j] = "open" /\ part' = part
            /\ final' = [final EXCEPT ![DestOf[j]] = [i \in Index |-> None]]
        BY <3>2 DEF OpenFinal
      <4>2. \A i \in HeldBy(j) : part[DestOf[j]][i] = <<FileOf[j], i>>
        BY <4>1 DEF Exact, Progress, InParts
      <4> QED
        BY <3>1, <4>1, <4>2
    <3>3. CASE CopyPiece(j)
      <4>1. /\ pc[j] = "copy" /\ part' = part
            /\ at[j] < Listed[j] /\ at[j] \in Nat /\ Listed[j] \in Nat
            /\ final' = [final EXCEPT ![DestOf[j]][at[j]] =
                                          part[DestOf[j]][at[j]]]
        BY <3>3, JobFacts DEF CopyPiece, Copies, Progress
      <4>2. part[DestOf[j]][at[j]] = <<FileOf[j], at[j]>>
        <5>1. InParts(j, at[j]..(Listed[j] - 1))
          BY <4>1 DEF Progress
        <5>2. at[j] \in at[j]..(Listed[j] - 1)
          BY <4>1
        <5> QED
          BY <5>1, <5>2 DEF InParts
      <4> QED
        BY <4>1, <4>2
    <3>4. CASE Unlink(j)
      <4>1. pc[j] = "unlink" /\ InFinal(j, 0..at[j]) /\ at[j] \in 0..at[j]
        BY <3>4 DEF Unlink, Progress
      <4>2. final[DestOf[j]][at[j]] = <<FileOf[j], at[j]>>
        BY <4>1 DEF InFinal
      <4>3. /\ part' = [part EXCEPT ![DestOf[j]][at[j]] = None]
            /\ UNCHANGED final
        BY <3>4, UnlinkEffect DEF Unlink
      <4> QED
        BY <3>1, <4>2, <4>3
    <3> QED
      BY <1>8, <3>2, <3>3, <3>4
  <2> QED
    BY <1>2, <2>1, <2>2 DEF Moves, StageOf, ToldOf
<1>9. ~OpenFails(j) /\ ~CopyFails(j)
  BY <1>1 DEF OpenFails, CopyFails
<1>14. ~CopyShort(j) /\ ~CopyBehind(j) /\ ~CopyNothing(j)
  BY <1>1, NeverShort
<1>10. ~MissingPart(j)
  <2> SUFFICES ASSUME MissingPart(j) PROVE FALSE
    OBVIOUS
  <2>1. /\ pc[j] = "copy" /\ at[j] < total[j] /\ total[j] = Listed[j]
        /\ part[DestOf[j]][at[j]] = None
    BY <1>1 DEF MissingPart, Progress
  <2>2. at[j] \in at[j]..(Listed[j] - 1) /\ at[j] \in Index
    BY <1>1, <2>1, JobFacts DEF BaseInv, TypeOK, Index
  <2>3. <<FileOf[j], at[j]>> = None /\ <<FileOf[j], at[j]>> \in Content
    BY <1>1, <2>1, <2>2, JobFacts DEF Progress, InParts, Content
  <2> QED
    BY <2>3, NoneAssumption
<1>11. CASE Seed(j)
  <2>1. /\ pc[j] = "copy" /\ pc'[j] = "finish" /\ at[j] = Listed[j]
        /\ All(j) \subseteq downloaded[j]
        /\ seeding'[NameOf[j]] = DestOf[j]
        /\ UNCHANGED <<complete, part, final, notified>>
    BY <1>1, <1>11, JobFacts DEF Seed, BaseInv, TypeOK, Progress
  <2>2. HeldBy(j) = All(j)
    BY <1>1, <2>1 DEF Exact, HeldBy, Progress, InFinal, All
  <2> QED
    BY <1>2, <2>1, <2>2 DEF Moves, StageOf, HeldBy, ToldOf
<1>12. CASE Finish(j)
  <2>1. /\ pc[j] = "finish" /\ complete'[j] = TRUE /\ complete[j] = FALSE
        /\ UNCHANGED <<part, final, notified, seeding>>
    BY <1>1, <1>2, <1>12 DEF Finish, BaseInv, TypeOK
  <2> QED
    BY <1>2, <2>1 DEF Moves, StageOf, HeldBy, ToldOf
<1> QED
  BY <1>3, <1>4, <1>5, <1>6, <1>7, <1>8, <1>9, <1>10, <1>11, <1>12, <1>13,
     <1>14 DEF Worker, Fetch, Merge

(* A download that meets no other of its name or destination implements      *)
(* Transfer, beside any number of others, with any peers.                    *)
THEOREM DownloadIsTransfer == Spec => IsTransfer
<1> DEFINE stages == [j \in Sound |-> StageOf(j)]
           helds == [j \in Sound |-> HeldBy(j)]
           tolds == [j \in Sound |-> ToldOf(j)]
           pieces == [j \in Sound |-> 0..(Listed[j] - 1)]
<1>1. ASSUME Init PROVE Promise!Init
  <2>1. ASSUME NEW j \in Sound
        PROVE  StageOf(j) = "idle" /\ HeldBy(j) = {} /\ ToldOf(j) = {}
    <3>1. j \in Job /\ DestOf[j] \in Dest /\ NameOf[j] \in Name /\ FileOf[j] \in File
      BY JobFacts DEF Sound
    <3>2. \A i \in Index : None # <<FileOf[j], i>>
      BY <3>1, NoneAssumption DEF Content
    <3>3. None # DestOf[j]
      BY <3>1, NoneAssumption
    <3> QED
      BY <1>1, <3>1, <3>2, <3>3 DEF Init, StageOf, HeldBy, ToldOf
  <2> QED
    BY <2>1 DEF Promise!Init
<1>2. ASSUME BaseInv, AllProgress, AllExact, [Next]_vars
      PROVE  [Promise!Next]_(Promise!vars)
  <2>1. CASE UNCHANGED vars
    <3>1. \A j \in Sound : /\ StageOf(j)' = StageOf(j)
                           /\ HeldBy(j)' = HeldBy(j)
                           /\ ToldOf(j)' = ToldOf(j)
      BY <2>1 DEF vars, local, disk, StageOf, HeldBy, ToldOf
    <3> QED
      BY <3>1 DEF Promise!vars
  <2>2. ASSUME NEW j \in Job, Receive(j) \/ Worker(j), j \notin Sound
        PROVE  UNCHANGED (Promise!vars)
    BY <1>2, <2>2, OtherTransfer DEF Promise!vars
  <2>3. ASSUME NEW j \in Sound, Receive(j) \/ Worker(j)
        PROVE  Promise!Next \/ UNCHANGED (Promise!vars)
    <3>1. j \in Job /\ Progress(j) /\ Exact(j)
      BY <1>2 DEF Sound, AllProgress, AllExact
    <3>2. Moves(j)
      BY <1>2, <2>3, <3>1, OwnTransfer
    <3>3. /\ stages' = [stages EXCEPT ![j] = StageOf(j)']
          /\ helds' = [helds EXCEPT ![j] = HeldBy(j)']
          /\ tolds' = [tolds EXCEPT ![j] = ToldOf(j)']
      BY <1>2, <2>3, <3>1, OtherTransfer
    <3>4. /\ stages[j] = StageOf(j) /\ helds[j] = HeldBy(j)
          /\ tolds[j] = ToldOf(j) /\ pieces[j] = All(j)
      BY DEF All
    <3>5. CASE /\ UNCHANGED <<HeldBy(j), ToldOf(j)>>
               /\ UNCHANGED StageOf(j)
      BY <3>3, <3>4, <3>5 DEF Promise!vars
    <3>6. CASE /\ StageOf(j) = "fetching" /\ UNCHANGED StageOf(j)
               /\ \E i \in All(j) : HeldBy(j)' = HeldBy(j) \cup {i}
               /\ UNCHANGED ToldOf(j)
      <4>1. PICK i \in All(j) : HeldBy(j)' = HeldBy(j) \cup {i}
        BY <3>6
      <4>2. Promise!Obtain(j, i)
        BY <3>3, <3>4, <3>6, <4>1 DEF Promise!Obtain
      <4> QED
        BY <3>4, <4>2 DEF Promise!Next
    <3>7. CASE /\ StageOf(j) = "fetching" /\ UNCHANGED StageOf(j)
               /\ \E i \in All(j) : /\ i \in HeldBy(j)
                                    /\ ToldOf(j)' = ToldOf(j) \cup {i}
               /\ UNCHANGED HeldBy(j)
      <4>1. PICK i \in All(j) : /\ i \in HeldBy(j)
                                /\ ToldOf(j)' = ToldOf(j) \cup {i}
        BY <3>7
      <4>2. Promise!Report(j, i)
        BY <3>3, <3>4, <3>7, <4>1 DEF Promise!Report
      <4> QED
        BY <3>4, <4>2 DEF Promise!Next
    <3>8. CASE /\ UNCHANGED <<HeldBy(j), ToldOf(j)>>
               /\ \/ StageOf(j) = "idle" /\ StageOf(j)' = "fetching"
                  \/ /\ HeldBy(j) = All(j)
                     /\ StageOf(j) = "fetching" /\ StageOf(j)' = "offered"
                  \/ StageOf(j) = "offered" /\ StageOf(j)' = "complete"
                  \/ /\ HeldBy(j) # All(j)
                     /\ StageOf(j) = "fetching" /\ StageOf(j)' = "ended"
      <4>1. helds' = helds /\ tolds' = tolds
        BY <3>3, <3>8
      <4>2. \/ Promise!Begin(j) \/ Promise!Offer(j)
            \/ Promise!Complete(j) \/ Promise!GiveUp(j)
        BY <3>3, <3>4, <3>8, <4>1 DEF Promise!Begin, Promise!Offer,
           Promise!Complete, Promise!GiveUp, Promise!Goto
      <4> QED
        BY <4>2 DEF Promise!Next
    <3> QED
      BY <3>2, <3>5, <3>6, <3>7, <3>8 DEF Moves
  <2> QED
    BY <1>2, <2>1, <2>2, <2>3 DEF Next
<1> QED
  BY <1>1, <1>2, ExactAlways, PTL DEF Spec, IsTransfer, Promise!Spec
=============================================================================
