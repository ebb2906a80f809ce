------------------------------ MODULE MCDownload ------------------------------
(***************************************************************************)
(* Instances of Download for TLC: a download that is alone, two that share *)
(* a name, and four kinds of peers.                                        *)
(***************************************************************************)
EXTENDS Download

CONSTANTS j1, j2, j3, n1, n2, d1, d2, d3, fa, fb,
          honest,   \* serves what it is asked for
          flaky,    \* away or silent
          stale,    \* seeds other bytes under the same name
          dying     \* may be killed while it sends

Behaviour == [p \in {honest, flaky, stale, dying} |->
                 CASE p = honest -> {"good"}
                   [] p = flaky  -> {"refuse", "stall"}
                   [] p = stale  -> {"wrong"}
                   [] p = dying  -> {"truncate", "good"}]

Sizes == [f \in {fa, fb} |-> 2]

(* One value for j1, others for the downloads that share a name. *)
Each(x, y, z) == [j \in Job |-> CASE j = j1 -> x [] j = j2 -> y
                                           [] j = j3 -> z]
Names == Each(n1, n2, n2)
Dests == Each(d1, d2, d3)
Files == Each(fa, fb, fb)
AllPieces == Each(2, 2, 2)
MixedPeers ==
    LET pieces(first, second) == [i \in 0..1 |-> IF i = 0 THEN first ELSE second]
    IN  Each(pieces(<<stale, honest>>, <<flaky, honest>>),
             pieces(<<dying>>, <<honest>>), pieces(<<honest>>, <<>>))

(* Bound: the lone download and the last one are not both made. *)
TwoAtATime == pc[j1] = "new" \/ pc[j3] = "new"

(* One name downloaded twice. *)
Twice(x, y) == [j \in Job |-> IF j = j1 THEN x ELSE y]
SameName == Twice(n1, n1)
TwoDests == Twice(d1, d2)
SameFile == Twice(fa, fa)
FullTwice == Twice(2, 2)
HonestPeers == [j \in Job |-> [i \in 0..1 |-> <<flaky, honest>>]]
=============================================================================
