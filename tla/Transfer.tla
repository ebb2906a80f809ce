------------------------------- MODULE Transfer -------------------------------
(***************************************************************************)
(* What a download promises to the rest of the system, without peers,      *)
(* threads and files: pieces are only gained, the tracker is told of       *)
(* pieces that are there, and a file is offered to other peers and then    *)
(* called complete when every piece is.                                    *)
(***************************************************************************)
CONSTANTS
    Job,        \* downloads
    Pieces      \* the set of pieces each of them was told of

VARIABLES
    stage,      \* idle, fetching, then offered and complete, or ended
    held,       \* pieces that are on this client's disk
    reported    \* pieces the tracker has been told of

vars == <<stage, held, reported>>

Init ==
    /\ stage = [j \in Job |-> "idle"]
    /\ held = [j \in Job |-> {}]
    /\ reported = [j \in Job |-> {}]

Goto(j, from, to) == stage[j] = from /\ stage' = [stage EXCEPT ![j] = to]

Begin(j) == Goto(j, "idle", "fetching") /\ UNCHANGED <<held, reported>>

Obtain(j, i) ==
    /\ stage[j] = "fetching"
    /\ held' = [held EXCEPT ![j] = @ \cup {i}]
    /\ UNCHANGED <<stage, reported>>

Report(j, i) ==
    /\ stage[j] = "fetching"
    /\ i \in held[j]
    /\ reported' = [reported EXCEPT ![j] = @ \cup {i}]
    /\ UNCHANGED <<stage, held>>

Offer(j) ==
    /\ held[j] = Pieces[j]
    /\ Goto(j, "fetching", "offered")
    /\ UNCHANGED <<held, reported>>

Complete(j) == Goto(j, "offered", "complete") /\ UNCHANGED <<held, reported>>

GiveUp(j) ==
    /\ held[j] # Pieces[j]
    /\ Goto(j, "fetching", "ended")
    /\ UNCHANGED <<held, reported>>

Next ==
    \E j \in Job :
        \/ Begin(j) \/ Offer(j) \/ Complete(j) \/ GiveUp(j)
        \/ \E i \in Pieces[j] : Obtain(j, i) \/ Report(j, i)

Spec == Init /\ [][Next]_vars
=============================================================================
