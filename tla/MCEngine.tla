------------------------------- MODULE MCEngine -------------------------------
(***************************************************************************)
(* Instances of Engine for TLC: one video, two with targets of their own,  *)
(* and three of which two have names that differ only in the extension.    *)
(***************************************************************************)
EXTENDS Engine, TLC

CONSTANTS v1, v2, v3, t1, t2

DistinctTargets == (v1 :> t1) @@ (v2 :> t2)
SameName == (v1 :> t1) @@ (v2 :> t1) @@ (v3 :> t2)
OneTarget == (v1 :> t1)
===============================================================================
