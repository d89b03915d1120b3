------------------------------- MODULE MCDaemon -------------------------------
(***************************************************************************)
(* An instance of Daemon for TLC: a library with two videos and one with   *)
(* none.                                                                   *)
(***************************************************************************)
EXTENDS Daemon, TLC

CONSTANTS k1, k2, v1, v2

BothInOne == (v1 :> k1) @@ (v2 :> k1)
===============================================================================
