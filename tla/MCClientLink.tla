---------------------------- MODULE MCClientLink ----------------------------
(***************************************************************************)
(* ClientLink with two trackers, the second of which does not serve its    *)
(* health port.                                                            *)
(***************************************************************************)
EXTENDS ClientLink

Unserved == {N - 1}
=============================================================================
