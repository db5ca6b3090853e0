------------------------------ MODULE MCUploadYear -----------------------------
(* Instances of UploadYear for TLC.                                        *)
EXTENDS UploadYear

CONSTANTS f1, f2, f3, r1, r2

Files2 == {f1, f2}
Files3 == {f1, f2, f3}
Requests2 == {r1, r2}
================================================================================
