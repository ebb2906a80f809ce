----------------------------- MODULE LaggingCopy -----------------------------
(***************************************************************************)
(* What replication promises, without messages, threads and health checks: *)
(* every write to the original is made to every copy once, in the same     *)
(* order and with the same effect, some time later.                        *)
(***************************************************************************)
EXTENDS Naturals, Sequences

CONSTANTS
    State,          \* states of the original
    Write,
    Apply(_, _),    \* the state after a write
    Copy

VARIABLES
    original,
    copy,           \* the state of each copy
    late            \* the writes each copy has not seen, oldest first

vars == <<original, copy, late>>

Init ==
    /\ original \in State
    /\ copy = [c \in Copy |-> original]
    /\ late = [c \in Copy |-> <<>>]

(* The first conjunct follows from the second; it comes first to spare TLC   *)
(* the choice of a write in the many steps that are not one.                 *)
Change ==
    /\ \A c \in Copy : Len(late'[c]) > Len(late[c])
    /\ \E w \in Write :
          /\ late' = [c \in Copy |-> Append(late[c], w)]
          /\ original' = Apply(original, w)
    /\ UNCHANGED copy

Follow(c) ==
    /\ late[c] # <<>>
    /\ copy' = [copy EXCEPT ![c] = Apply(@, Head(late[c]))]
    /\ late' = [late EXCEPT ![c] = Tail(@)]
    /\ UNCHANGED original

Next == Change \/ \E c \in Copy : Follow(c)

Spec == Init /\ [][Next]_vars
=============================================================================
