------------------------------ MODULE MCNaipIngest -----------------------------
(* Instances of NaipIngest for TLC.                                        *)
EXTENDS NaipIngest

CONSTANTS i1, i2, i3, r1, r2, r3

Items3 == {i1, i2, i3}
Requests3 == {r1, r2, r3}

Tile(i) == [id |-> i, complete |-> TRUE, meets |-> TRUE, year |-> TRUE]
Page(lists, next) == [lists |-> lists, next |-> next]

\* Half published; all of it, beside an item of another year, with an item listed again on
\* the second of as many pages as are followed; nothing usable; a page more than are
\* followed; an item listed twice on a page.
CatalogsFew == {
    <<Page(<<Tile(i1)>>, 0)>>,
    <<Page(<<Tile(i1), [Tile(i3) EXCEPT !.year = FALSE]>>, 2), Page(<<Tile(i2), Tile(i1)>>, 0)>>,
    <<Page(<<[Tile(i1) EXCEPT !.complete = FALSE], [Tile(i3) EXCEPT !.meets = FALSE]>>, 0)>>,
    <<Page(<<Tile(i1)>>, 2), Page(<<Tile(i2)>>, 3), Page(<<Tile(i3)>>, 2)>>,
    <<Page(<<Tile(i2), Tile(i2)>>, 0)>>}
================================================================================
