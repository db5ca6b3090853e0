----------------------------- MODULE MCStructures ------------------------------
(* Instances of Structures for TLC: a grid of 3 x 4 pixels.                *)
EXTENDS Structures

All == 0 .. 11
Left == {p \in All : p % 4 =< 1}
Right == {p \in All : p % 4 >= 2}

See(parcel, base, target) == [parcel |-> parcel, base |-> base, target |-> target]

\* Both years in full; halves that agree, that do not meet, a target that lacks a corner;
\* a year with too little or nothing; a parcel without a pixel.
SightsFew ==
    {See(All, All, All), See(All, Left, Left), See(All, Left, Right), See(All, All, All \ {0}),
     See(All, {0}, All), See(All, All, {0, 1}), See(All, {0}, {}), See({}, All, All)}
================================================================================
