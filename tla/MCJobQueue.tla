------------------------------ MODULE MCJobQueue -------------------------------
(* Instances of JobQueue for TLC.                                          *)
EXTENDS JobQueue

CONSTANTS j1, j2, w1, w2

Jobs1 == {j1}
Jobs2 == {j1, j2}
Workers1 == {w1}
Workers2 == {w1, w2}
================================================================================
