---------------------------- MODULE MCRunExecution -----------------------------
(* Instances of RunExecution for TLC.                                      *)
EXTENDS RunExecution

CONSTANTS a1, a2

Parcels3 == 1..3
Parcels4 == 1..4
Admins1 == {a1}
Admins2 == {a1, a2}
================================================================================
