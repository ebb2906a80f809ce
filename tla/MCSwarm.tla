------------------------------- MODULE MCSwarm -------------------------------
(***************************************************************************)
(* Three clients for TLC: one uploads, two download, and                   *)
(* one of those has a file of the same name to upload; the uploader may    *)
(* quit and start again, stop sharing, or lose its file, and the group may *)
(* be created anew.  One downloads to a path where writing fails.          *)
(***************************************************************************)
EXTENDS Swarm, FiniteSets

CONSTANTS a, b, c, g, n, pa, pb, pc, qc, fa, fc

Sizes == [f \in File |-> IF f = fa THEN 2 ELSE 3]
Files == [p \in Path |-> CASE p = pa -> fa [] p = qc -> fc [] OTHER -> None]
UploadCmds == {<<a, <<g, n>>, pa>>, <<c, <<g, n>>, qc>>}
DownloadCmds == {<<b, <<g, n>>, pb>>, <<c, <<g, n>>, pc>>}
StopCmds == {<<a, <<g, n>>>>}
EditCmds == {<<pa, None>>}

(* Bound: a behaviour has at most four of the commands. *)
FourCommands == Cardinality(issued) <= 4
=============================================================================
