------------------------------- MODULE Structures ------------------------------
(***************************************************************************)
(* One comparison of a parcel's two years, from the built-up pixels of     *)
(* each to a verdict (detection/detector.py: compare, _open,               *)
(* _largest_structure).  A mask is the set of its pixels, a pixel its      *)
(* row-major index; what colour makes a pixel built-up is left out, so any *)
(* set of newly built pixels may arrive.  The union-find that labels the   *)
(* blobs is modelled loop by loop, path halving included.  Lengths are in  *)
(* decimetres.                                                             *)
(***************************************************************************)
EXTENDS Integers, FiniteSets

CONSTANTS Height, Width,       \* the comparison grid
          Sights,              \* the records [parcel, base, target] of pixel sets that
                               \* may arrive: the parcel, and where each year has imagery
          Resolutions,         \* sizes a pixel may have
          MIN_STRUCTURE,       \* MIN_STRUCTURE_M
          HALF_STRUCTURE,      \* SCORE_HALF_STRUCTURE_M2
          MIN_AREA,            \* the run's min_new_area_m2
          FILL_NUM, FILL_DEN,  \* MIN_STRUCTURE_FILL
          THR_NUM, THR_DEN     \* the run's threshold

ASSUME GridAssumption == Height \in Nat \ {0} /\ Width \in Nat \ {0}

Grid == 0 .. Height * Width - 1

ASSUME SightsAssumption ==
    Sights \subseteq [parcel : SUBSET Grid, base : SUBSET Grid, target : SUBSET Grid]

ASSUME ResolutionAssumption == MIN_STRUCTURE \in Nat /\ Resolutions \subseteq Nat \ {0}

\* A run may have both at 0 (api/runs.py:63-64); then every parcel it scores is a candidate.
ASSUME RunAssumption ==
    /\ HALF_STRUCTURE \in Nat \ {0}
    /\ MIN_AREA \in Nat /\ THR_NUM \in Nat /\ THR_DEN \in Nat \ {0} /\ THR_NUM =< THR_DEN
    /\ MIN_AREA > 0 \/ THR_NUM > 0

VARIABLES sight,    \* parcel_mask and the two masks
          res,      \* resolution_m
          built,    \* built_target & ~built_base, opened to new_builtup
          seen,     \* the mask that _open was called with, until it returns
          pc,       \* where compare is
          at,       \* the loop's counter
          node,     \* find's argument, moving to the root
          root,     \* find(a), while find(b) runs
          parent,   \* the union-find forest
          label,    \* roots
          best,     \* best_member
          verdict   \* the skip reason, or whether the parcel is a candidate

vars == <<sight, res, built, seen, pc, at, node, root, parent, label, best, verdict>>

Unset == -1

--------------------------------------------------------------------------------
(* Geometry of the grid.                                                   *)

Row(p) == p \div Width
Col(p) == p % Width
Cell(r, c) == IF r \in 0 .. Height - 1 /\ c \in 0 .. Width - 1 THEN r * Width + c ELSE Unset

Within(p, q, d) == Row(p) - Row(q) \in -d .. d /\ Col(p) - Col(q) \in -d .. d

Block(p, d) == {q \in Grid : Within(p, q, d)}
Around == [p \in Grid |-> Block(p, 1)]

\* Faulty variant: a pixel is eroded by its four straight neighbours only.
ErodeStraight(m) ==
    {p \in m : \A q \in Around[p] : Row(p) = Row(q) \/ Col(p) = Col(q) => q \in m}
\* A pixel stays when its neighbours inside the grid are set: beyond it nothing erodes.
Erode(m) == {p \in m : Around[p] \subseteq m}

Dilate(m) == Grid \ Erode(Grid \ m)

\* Python's round: halves go to the even side.
Round(a, b) ==
    LET q == a \div b
        r == 2 * (a % b)
    IN  IF r < b \/ (r = b /\ q % 2 = 0) THEN q ELSE q + 1

Span(r) == LET s == Round(MIN_STRUCTURE, r) IN IF s < 1 THEN 1 ELSE s

\* How often _open erodes, and then dilates.
Turns == IF Span(res) =< 1 THEN 0 ELSE Span(res) \div 2

Px == Cardinality(sight.parcel)
Valid == sight.parcel \cap sight.base \cap sight.target

\* The four neighbours that a row-major scan has already visited.
Neighbour(p, side) ==
    CASE side = 0 -> Cell(Row(p) - 1, Col(p) - 1)
      [] side = 1 -> Cell(Row(p) - 1, Col(p))
      [] side = 2 -> Cell(Row(p) - 1, Col(p) + 1)
      [] side = 3 -> Cell(Row(p), Col(p) - 1)

\* The scan's steps, four to a pixel, and the two ends of each.
Edges == 4 * Height * Width
Pixel(e) == e \div 4
Beside(e) == Neighbour(e \div 4, e % 4)
IsEdge(e) == Pixel(e) \in built /\ Beside(e) \in built

--------------------------------------------------------------------------------
Init ==
    /\ sight \in Sights
    /\ res \in Resolutions
    /\ built \in SUBSET Grid /\ seen = {}
    /\ pc = "cover"
    /\ at = 0 /\ node = Unset /\ root = Unset
    /\ parent = <<>> /\ label = <<>>
    /\ best = {}
    /\ verdict = "none"

Lacks(year) == 2 * Cardinality(year \cap sight.parcel) < Px

\* score_parcel tells a year that has next to nothing of the parcel from one that has
\* too little (NO_COVERAGE_VALID_FRAC = 5 %).
Reason(none, year) ==
    IF 20 * Cardinality(year \cap sight.parcel) =< Px THEN none ELSE "partial_coverage"

\* compare refuses: the parcel has no pixel, or one of the years, the base first, lacks
\* more than half of it.  A target year without an asset here is noticed before (read_parcel
\* returns None); a base year without one has the same reason either way.
Refuse ==
    /\ pc = "cover"
    /\ \/ Px = 0 /\ verdict' = "no_coverage_base"
       \/ Px > 0 /\ Lacks(sight.base) /\ verdict' = Reason("no_coverage_base", sight.base)
       \/ /\ Px > 0 /\ ~Lacks(sight.base) /\ Lacks(sight.target)
          /\ verdict' = Reason("no_coverage_target", sight.target)
       \/ sight.target = {} /\ verdict' = "no_coverage_target"
    /\ pc' = "done"
    /\ UNCHANGED <<sight, res, built, seen, at, node, root, parent, label, best>>

\* Faulty variant: pixels that the base year does not show count as new.
NewBuiltUpUnseen == built \cap sight.parcel \cap sight.target
\* built_target & ~built_base & valid
NewBuiltUp == built \cap Valid

Measure ==
    /\ pc = "cover" /\ Px > 0 /\ ~Lacks(sight.base) /\ ~Lacks(sight.target)
    /\ built' = NewBuiltUp /\ seen' = NewBuiltUp
    /\ pc' = "erode"
    /\ UNCHANGED <<sight, res, at, node, root, parent, label, best, verdict>>

ErodeOnce ==
    /\ pc = "erode" /\ at < Turns
    /\ built' = Erode(built)
    /\ at' = at + 1
    /\ UNCHANGED <<sight, res, seen, pc, node, root, parent, label, best, verdict>>

BeginDilate ==
    /\ pc = "erode" /\ at >= Turns
    /\ pc' = "dilate" /\ at' = 0
    /\ UNCHANGED <<sight, res, built, seen, node, root, parent, label, best, verdict>>

DilateOnce ==
    /\ pc = "dilate" /\ at < Turns
    /\ built' = Dilate(built)
    /\ at' = at + 1
    /\ UNCHANGED <<sight, res, seen, pc, node, root, parent, label, best, verdict>>

\* new_builtup is there: a forest of its pixels, each its own root.
BeginScan ==
    /\ pc = "dilate" /\ at >= Turns
    /\ parent' = [p \in built |-> p]
    /\ label' = [p \in built |-> Unset]
    /\ seen' = {}
    /\ pc' = IF built = {} THEN "judge" ELSE "scan"
    /\ at' = 0
    /\ UNCHANGED <<sight, res, built, node, root, best, verdict>>

\* The next of the four neighbours is outside the grid or not set.
Skip ==
    /\ pc = "scan" /\ at < Edges /\ ~IsEdge(at)
    /\ at' = at + 1
    /\ UNCHANGED <<sight, res, built, seen, pc, node, root, parent, label, best, verdict>>

\* union(a, b) begins with find(a).
Unite ==
    /\ pc = "scan" /\ at < Edges /\ IsEdge(at)
    /\ node' = Pixel(at)
    /\ pc' = "find_a"
    /\ UNCHANGED <<sight, res, built, seen, at, root, parent, label, best, verdict>>

\* Faulty variant: the parent is hung under the node.
HalvedDown(p) == [parent EXCEPT ![parent[p]] = p]
\* parent[node] = parent[parent[node]]
Halved(p) == [parent EXCEPT ![p] = parent[parent[p]]]

\* One turn of find's loop.
Climb ==
    /\ pc \in {"find_a", "find_b", "find"} /\ parent[node] # node
    /\ parent' = Halved(node)
    /\ node' = parent'[node]
    /\ UNCHANGED <<sight, res, built, seen, pc, at, root, label, best, verdict>>

FoundA ==
    /\ pc = "find_a" /\ parent[node] = node
    /\ root' = node
    /\ node' = Beside(at)
    /\ pc' = "find_b"
    /\ UNCHANGED <<sight, res, built, seen, at, parent, label, best, verdict>>

\* Faulty variant: the pixel itself is hung under the other root.
LinkedPixel(a, b) == [parent EXCEPT ![Pixel(at)] = IF a < b THEN a ELSE b]
\* The higher of two roots is hung under the lower.
Linked(a, b) ==
    IF a = b THEN parent
    ELSE [parent EXCEPT ![IF a < b THEN b ELSE a] = IF a < b THEN a ELSE b]

FoundB ==
    /\ pc = "find_b" /\ parent[node] = node
    /\ parent' = Linked(root, node)
    /\ node' = Unset /\ root' = Unset
    /\ at' = at + 1
    /\ pc' = "scan"
    /\ UNCHANGED <<sight, res, built, seen, label, best, verdict>>

\* roots = [find(node) for node in ...], pixel by pixel.
BeginLabels ==
    /\ pc = "scan" /\ at = Edges
    /\ pc' = "label" /\ at' = 0
    /\ UNCHANGED <<sight, res, built, seen, node, root, parent, label, best, verdict>>

FindLabel ==
    /\ pc = "label" /\ at < Height * Width
    /\ IF at \in built THEN node' = at /\ pc' = "find" /\ at' = at
       ELSE at' = at + 1 /\ UNCHANGED <<node, pc>>
    /\ UNCHANGED <<sight, res, built, seen, root, parent, label, best, verdict>>

FoundLabel ==
    /\ pc = "find" /\ parent[node] = node
    /\ label' = [label EXCEPT ![at] = node]
    /\ node' = Unset
    /\ at' = at + 1
    /\ pc' = "label"
    /\ UNCHANGED <<sight, res, built, seen, root, parent, best, verdict>>

\* The side of the bounding box: from the first to the last of these rows or columns.
Extent(places) ==
    LET low == CHOOSE x \in places : \A y \in places : x =< y
        high == CHOOSE x \in places : \A y \in places : y =< x
    IN  high - low + 1

\* The blob fills its bounding box well enough.
IsCompact(S) ==
    Cardinality(S) * FILL_DEN >= FILL_NUM * Extent({Row(p) : p \in S}) * Extent({Col(p) : p \in S})

Better(S, T) == IsCompact(S) /\ Cardinality(S) > Cardinality(T)

BeginPick ==
    /\ pc = "label" /\ at = Height * Width
    /\ pc' = "pick" /\ at' = 0
    /\ UNCHANGED <<sight, res, built, seen, node, root, parent, label, best, verdict>>

\* The roots in ascending order: a blob that is compact and larger than the best so far
\* becomes the best.
Pick ==
    /\ pc = "pick" /\ at < Height * Width
    /\ LET member == {p \in built : label[p] = at}
       IN  best' = IF member # {} /\ Better(member, best) THEN member ELSE best
    /\ at' = at + 1
    /\ UNCHANGED <<sight, res, built, seen, pc, node, root, parent, label, verdict>>

EndPick ==
    /\ pc = "pick" /\ at = Height * Width
    /\ pc' = "judge" /\ at' = 0
    /\ UNCHANGED <<sight, res, built, seen, node, root, parent, label, best, verdict>>

Area(S) == Cardinality(S) * res * res

\* Faulty variant: the two conditions are alternatives.
IsCandidateEither(m2) ==
    (m2 * THR_DEN >= THR_NUM * (m2 + HALF_STRUCTURE)) \/ m2 >= MIN_AREA
\* score >= threshold and structure_m2 >= min_new_area_m2
IsCandidate(m2) ==
    (m2 * THR_DEN >= THR_NUM * (m2 + HALF_STRUCTURE)) /\ m2 >= MIN_AREA

Judge ==
    /\ pc = "judge"
    /\ verdict' = IF IsCandidate(Area(best)) THEN "candidate" ELSE "unchanged"
    /\ pc' = "done"
    /\ UNCHANGED <<sight, res, built, seen, at, node, root, parent, label, best>>

Next ==
    \/ Refuse \/ Measure
    \/ ErodeOnce \/ BeginDilate \/ DilateOnce \/ BeginScan
    \/ Skip \/ Unite \/ Climb \/ FoundA \/ FoundB
    \/ BeginLabels \/ FindLabel \/ FoundLabel
    \/ BeginPick \/ Pick \/ EndPick \/ Judge

Spec == Init /\ [][Next]_vars

\* One thread runs compare to its end.
FairSpec == Spec /\ WF_vars(Next)

--------------------------------------------------------------------------------
(* Reference definitions.                                                  *)

\* Pixels that touch, a corner included.
Touch(p, q) == q \in Around[p]

Component(m, p) ==
    LET reach[i \in 0 .. Cardinality(m)] ==
            IF i = 0 THEN {p}
            ELSE LET near == reach[i - 1]
                 IN  {q \in m : Around[q] \cap near # {}}
    IN  reach[Cardinality(m)]

Blobs(m) == {Component(m, p) : p \in m}


\* How far compare is: its stage, the end of the stage's counter, and the find of a turn.
Stage ==
    CASE pc = "cover" -> 0 [] pc = "erode" -> 1 [] pc = "dilate" -> 2
      [] pc \in {"scan", "find_a", "find_b"} -> 3 [] pc \in {"label", "find"} -> 4
      [] pc = "pick" -> 5 [] pc = "judge" -> 6 [] pc = "done" -> 7
Limit == CASE Stage \in {1, 2} -> Turns [] Stage = 3 -> Edges [] Stage \in {4, 5} -> Height * Width
           [] OTHER -> 0
Search == CASE pc \in {"find_a", "find"} -> 1 [] pc = "find_b" -> 2 [] OTHER -> 0

\* A set of pixels that the forest, or that touching, never leaves or enters.
ParentClosed(S) == \A p \in built : p \in S <=> parent[p] \in S
TouchClosed(S) == \A p, q \in built : Touch(p, q) => (p \in S <=> q \in S)

--------------------------------------------------------------------------------
(* Properties.                                                             *)

\* Every variable keeps its type (detector.py: compare).
TypeOK ==
    /\ sight \in Sights /\ res \in Resolutions
    /\ built \subseteq Grid /\ best \subseteq built /\ seen \subseteq Valid
    /\ pc \in {"cover", "erode", "dilate", "scan", "find_a", "find_b", "label", "find", "pick",
              "judge", "done"}
    /\ at \in 0 .. Limit
    /\ node \in IF pc \in {"find_a", "find_b", "find"} THEN built ELSE {Unset}
    /\ root \in IF pc = "find_b" THEN built ELSE {Unset}
    /\ pc \in {"scan", "find_a", "find_b", "label", "find", "pick"} =>
           parent \in [built -> built] /\ label \in [built -> built \cup {Unset}]

\* An opening keeps exactly the squares of 2 * (span \div 2) + 1 pixels that fit into the
\* newly built pixels both years show, cut off at the border of the grid: no other narrow
\* strip is reported, and nothing that covers such a square is lost (_open, _erode, _dilate).
\* It is not what the docstring of _open says, "at least that wide survives"
\* (detector.py:459-461): an even span needs a square one pixel wider than it, and a border
\* strip needs less.
OpenedIsBlocks ==
    [][pc = "dilate" /\ pc' # "dilate" =>
         LET d == Span(res) \div 2
         IN  built' = UNION {b \in {Block(p, d) : p \in Grid} : b \subseteq seen}]_vars

\* The structure a parcel is judged by lies on ground of the parcel that both years show,
\* after masking, opening, labelling and picking (compare, _largest_structure).
OnlySeenGround == best \subseteq Valid

\* When the blobs are measured, the forest has a tree for each blob: the sets of pixels
\* it never leaves are those that touching never leaves (find, union).
TreesAreBlobs ==
    pc = "pick" /\ at = 0 =>
        \A S \in SUBSET built : ParentClosed(S) <=> TouchClosed(S)

\* A parcel is a candidate exactly if some compact blob has at least the run's area and at
\* least HALF * t / (1 - t), as the comment above SCORE_HALF_STRUCTURE_M2 inverts the score:
\* picking the largest blob first loses no candidate (compare).
CandidateIfSomeBlob ==
    pc = "done" /\ verdict \in {"candidate", "unchanged"} =>
        (verdict = "candidate" <=>
            \E b \in Blobs(built) :
                /\ IsCompact(b)
                /\ Area(b) >= MIN_AREA
                /\ Area(b) * (THR_DEN - THR_NUM) >= HALF_STRUCTURE * THR_NUM)

\* Every turn of every loop brings compare nearer its end: a find moves to a lower pixel,
\* though links are halved and roots are linked meanwhile, and when no find is under way a
\* counter rises (find, union, _open, _largest_structure).
EveryTurnAdvances ==
    [][\/ Stage' > Stage
       \/ Stage' = Stage /\ at' > at
       \/ Stage' = Stage /\ at' = at /\ Search' > Search
       \/ Stage' = Stage /\ at' = at /\ Search' = Search /\ node' < node]_vars

\* Every comparison ends: no find runs in a circle (find, union).
CompareEnds == <>(pc = "done")
================================================================================
