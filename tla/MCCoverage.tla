------------------------------ MODULE MCCoverage -------------------------------
(* Instances of Coverage for TLC.  The columns of a county's file: "pin"   *)
(* and "alt" share a reference, "owner" shares none with them, and "empty" *)
(* yields none (each of its rows is skipped).                              *)
EXTENDS Coverage

CONSTANTS l1, l2, r1, r2, y1

Layers1 == {l1}
Layers2 == {l1, l2}
Requests2 == {r1, r2}
NoYears == {}
Years1 == {y1}
Columns == {"pin", "alt", "owner", "empty"}
ColumnRefs == [pin |-> {1, 2}, alt |-> {2, 4}, owner |-> {3}, empty |-> {}]
================================================================================
