------------------------------ MODULE MCEvaluation -----------------------------
EXTENDS Evaluation

Parcel(p, y) == [pid |-> p, built |-> y, ok |-> TRUE]

\* Pages of two: a short last page, a full one before an empty one, and more pages than
\* are read.  Three old parcels for a quota of two; one without a year, one out of range.
MCServices == {
    <<Parcel(1, 5), Parcel(2, 3), Parcel(3, 4)>>,
    <<Parcel(1, 8), Parcel(2, 9), Parcel(3, 0), Parcel(4, 5)>>,
    <<Parcel(1, 9), [pid |-> 2, built |-> 6, ok |-> FALSE], Parcel(3, 0), Parcel(4, 7),
      Parcel(5, 6)>>,
    <<Parcel(1, 5), Parcel(2, 5), Parcel(3, 4), Parcel(4, 0), Parcel(5, 0), Parcel(6, 0),
      Parcel(7, 9)>>}

MCCountyCount == [s \in Strata |-> CASE s = "positive" -> 1
                                     [] s = "negative_old" -> 3 [] OTHER -> 2]

MCTop == [of |-> 1, in |-> 3]
================================================================================
