------------------------------- MODULE Evaluation ------------------------------
(***************************************************************************)
(* `ptax-eval` as a whole: build, then fetch, then score and chips         *)
(* (eval/cli.py).  Scoring judges the detector's outcome for each parcel   *)
(* of the set; its figures (eval/metrics.py) are carried from the sample   *)
(* to the county by weights.  What a parcel's outcome is compared with     *)
(* comes from its stratum, or from labels made by eye on contact sheets    *)
(* (eval/chips.py), and an audit may move parcels to other strata.         *)
(*                                                                         *)
(* Weights are multiples of 1/Scale, and rates are pairs of sums.          *)
(***************************************************************************)
EXTENDS EvalSet, EvalCache, TLC

CONSTANTS
    Scores,         \* the detector's scores
    Scale,          \* a multiple of every number of parcels a stratum may have in a sample
    Top,            \* Top.of / Top.in: the fraction at the top of the ranking
    PerSheet        \* parcels on a contact sheet, two in a row

ASSUME EvaluationAssumption ==
    /\ Scores \subseteq Nat
    /\ Scale \in Nat /\ \A n \in 1..Quota + 1 : Scale % n = 0
    /\ Top.of \in Nat \ {0} /\ Top.in \in Nat \ {0}
    /\ PerSheet \in Nat \ {0}

VARIABLES
    score,      \* how far the command is: "idle", "scoring", "labelled", "audited", "sheets"
    results,    \* results[p]: the outcome of parcel p of the set
    labels,     \* labels[p]: what the imagery of p shows: "yes", "no", or "unknown"
    corrected,  \* the results after the audit
    covered,    \* the parcels that have imagery of both years when the sheets are made
    sheets,     \* sheets[k]: the contact sheet in file k: the parcel whose chip is in each cell
    index       \* the parcels of the contact sheets, and their places

chipping == <<covered, sheets, index>>
scoring == <<score, results, labels, corrected, chipping>>
evalVars == <<evalSet, evalCache, scoring>>

Drawn == UNION {set[s].drawn : s \in Strata}
StratumOf(p) == CHOOSE s \in Strata : p \in set[s].drawn

--------------------------------------------------------------------------------
(* The figures, over the results rs of a scored set.                       *)

Scored(rs) == {p \in DOMAIN rs : ~rs[p].skipped}

\* Without a label, the outcome is that of the stratum.
Improved(rs) == {p \in Scored(rs) : IF rs[p].seen = "unknown" THEN rs[p].stratum = "positive"
                                                            ELSE rs[p].seen = "yes"}

Flagged(rs) == {p \in Scored(rs) : rs[p].flagged}

\* Faulty variant: a skipped parcel counts as evidence.
CountAll(rs, s) == Cardinality({p \in DOMAIN rs : rs[p].stratum = s})

Count(rs, s) == Cardinality({p \in Scored(rs) : rs[p].stratum = s})

\* The county's parcels each sampled one stands for; none when none was scored.
Weight(rs, s) == IF Count(rs, s) = 0 THEN 0 ELSE CountyCount[s] * (Scale \div Count(rs, s))

Weights(rs, ps) == SumFunction([p \in ps |-> Weight(rs, rs[p].stratum)])

\* precision is truePositive / flagged, recall truePositive / positive, and so on.
Summarise(rs) ==
    [total |-> Weights(rs, Scored(rs)),
     flagged |-> Weights(rs, Flagged(rs)),
     truePositive |-> Weights(rs, Flagged(rs) \cap Improved(rs)),
     positive |-> Weights(rs, Improved(rs))]

Above(a, b) == a > b

\* The members of S in the order of before, a strict and total one.
InOrder(S, before(_, _)) ==
    [n \in 1..Cardinality(S) |-> CHOOSE x \in S : Cardinality({y \in S : before(y, x)}) = n - 1]

\* Best first; ties in the order of their PID.
Before(rs, p, q) == \/ rs[p].score > rs[q].score
                    \/ rs[p].score = rs[q].score /\ p < q

\* Faulty variant: tied parcels are ranked by their PID.
GroupsByPid(rs) ==
    LET ranked == InOrder(Scored(rs), LAMBDA p, q : Before(rs, p, q))
    IN  [i \in DOMAIN ranked |-> {ranked[i]}]

\* The parcels from the best score down, tied ones together.
Groups(rs) ==
    LET ranks == InOrder({rs[p].score : p \in Scored(rs)}, Above)
    IN  [i \in DOMAIN ranks |-> {p \in Scored(rs) : rs[p].score = ranks[i]}]

\* Every positive of a group is retrieved at the same precision, hits / seen.  The sum of
\* those precisions is num / den.
AveragePrecision(rs) ==
    LET Next1(acc, group) ==
            LET seen == acc.seen + Weights(rs, group)
                gain == Weights(rs, group \cap Improved(rs))
            IN  IF seen = 0 THEN acc
                ELSE [seen |-> seen, hits |-> acc.hits + gain,
                      num |-> acc.num * seen + gain * (acc.hits + gain) * acc.den,
                      den |-> acc.den * seen]
    IN  FoldLeft(Next1, [seen |-> 0, hits |-> 0, num |-> 0, den |-> 1], Groups(rs))

Ranked(rs) == InOrder(Scored(rs), LAMBDA p, q : Before(rs, p, q))

\* precision_at_top_fraction(): hits / taken over the parcels at the top that fit in the
\* budget, and over the first one in any case.
TopOfRanking(rs) ==
    LET total == Summarise(rs).total
        Take1(acc, p) ==
            LET w == Weight(rs, rs[p].stratum)
            IN  IF acc.full \/ (acc.taken > 0 /\ (acc.taken + w) * Top.in > total * Top.of)
                THEN [acc EXCEPT !.full = TRUE]
                ELSE [acc EXCEPT !.taken = @ + w, !.parcels = @ \cup {p},
                                 !.hits = IF p \in Improved(rs) THEN @ + w ELSE @]
    IN  FoldLeft(Take1, [taken |-> 0, hits |-> 0, parcels |-> {}, full |-> FALSE], Ranked(rs))

\* improvement_base_rate(): the share of the county with an improvement to be seen, from
\* the labels alone.  A stratum without labels is left out.
ImprovementBaseRate ==
    LET Labelled(s) == {p \in set[s].drawn : labels[p] # "unknown"}
        Shown(s)    == {p \in set[s].drawn : labels[p] = "yes"}
        with        == {s \in Strata : Labelled(s) # {}}
    IN  [positive |-> SumFunction([s \in with |-> CountyCount[s] * Cardinality(Shown(s))
                                                    * (Scale \div Cardinality(Labelled(s)))]),
         total |-> Scale * SumFunctionOnSet(CountyCount, with)]

--------------------------------------------------------------------------------
(* score                                                                   *)

EvalInit ==
    /\ BuildInit /\ FetchInit
    /\ score = "idle"
    /\ results = <<>> /\ corrected = <<>>
    /\ labels = <<>>
    /\ covered = {} /\ sheets = <<>> /\ index = <<>>

Outcomes(s) ==
    {[stratum |-> s, skipped |-> TRUE, score |-> 0, flagged |-> FALSE, seen |-> "unknown"]}
    \cup [stratum : {s}, skipped : {FALSE}, score : Scores, flagged : BOOLEAN, seen : {"unknown"}]

ScoreStart ==
    /\ score = "idle"
    /\ build = "done" /\ fetch = "idle" /\ Readable
    /\ score' = "scoring"
    /\ UNCHANGED <<evalSet, evalCache, results, labels, corrected, chipping>>

\* A parcel without imagery in either year, or with too little, is skipped.
ScoreParcel(p) ==
    /\ score = "scoring"
    /\ p \in Drawn \ DOMAIN results
    /\ \A q \in Drawn \ DOMAIN results : p <= q
    /\ \E r \in Outcomes(StratumOf(p)) :
          results' = [q \in DOMAIN results \cup {p} |-> IF q = p THEN r ELSE results[q]]
    /\ UNCHANGED <<evalSet, evalCache, score, labels, corrected, chipping>>

\* A parcel's files cannot be opened: the command raises, and nothing it did is kept.
ScoreFails ==
    /\ score = "scoring" /\ Unreadable
    /\ score' = "idle"
    /\ results' = <<>>
    /\ UNCHANGED <<evalSet, evalCache, labels, corrected, chipping>>

\* The labels leave the stratum, and so the weight, alone.
ApplyLabels ==
    /\ score = "scoring"
    /\ DOMAIN results = Drawn
    /\ score' = "labelled"
    /\ labels' \in [Drawn -> {"yes", "no", "unknown"}]
    /\ results' = [p \in Drawn |-> [results[p] EXCEPT !.seen = labels'[p]]]
    /\ UNCHANGED <<evalSet, evalCache, corrected, chipping>>

\* Faulty variant: the corrected result is built anew, without what the imagery showed.
RestratifiedAnew(r, s) == [r EXCEPT !.stratum = s, !.seen = "unknown"]

Restratified(r, s) == [r EXCEPT !.stratum = s]

\* A parcel corrected out of the population leaves it.
ApplyAudit(corrections) ==
    [p \in {q \in DOMAIN results : q \in DOMAIN corrections => corrections[q] \in Strata} |->
        IF p \in DOMAIN corrections THEN Restratified(results[p], corrections[p])
                                    ELSE results[p]]

\* Bound: one correction.
Audit ==
    /\ score = "labelled"
    /\ score' = "audited"
    /\ \E p \in Drawn, s \in Strata \cup {"excluded"} : corrected' = ApplyAudit([q \in {p} |-> s])
    /\ UNCHANGED <<evalSet, evalCache, results, labels, chipping>>

--------------------------------------------------------------------------------
(* chips --all                                                             *)

SheetOrder(ps) ==
    LET Rank(s) == CASE s = "positive" -> 1 [] s = "negative_old" -> 2 [] OTHER -> 3
        SheetBefore(p, q) == \/ Rank(StratumOf(p)) < Rank(StratumOf(q))
                             \/ StratumOf(p) = StratumOf(q) /\ p < q
    IN  InOrder(ps, SheetBefore)

\* contact_sheet(), two columns: the cell of a row and a column shows the tile that comes
\* 2 * row + column after the first.
ContactSheet(tiles) ==
    [at \in {rc \in (0..Len(tiles)) \X {0, 1} : 2 * rc[1] + rc[2] < Len(tiles)} |->
        tiles[2 * at[1] + at[2] + 1]]

\* The tiles go on a new sheet, and the pending parcels in the index.
Pasted(acc) ==
    [acc EXCEPT !.sheets = Append(@, ContactSheet(acc.tiles)),
                !.index = @ \o [n \in DOMAIN acc.pending |->
                                   [pid |-> acc.pending[n], sheet |-> Len(acc.sheets) + 1,
                                    row |-> (n - 1) \div 2, column |-> (n - 1) % 2]]]

\* Faulty variant: what was pending for a sheet stays pending for the next.
FlushTilesOnly(acc) ==
    IF acc.tiles = <<>> THEN acc ELSE [Pasted(acc) EXCEPT !.tiles = <<>>]

Flush(acc) ==
    IF acc.tiles = <<>> THEN acc ELSE [Pasted(acc) EXCEPT !.tiles = <<>>, !.pending = <<>>]

NothingPasted == [sheets |-> <<>>, tiles |-> <<>>, pending |-> <<>>, index |-> <<>>]

\* Parcels without imagery have no chip.
SheetsOf(chipped) ==
    LET Add(acc, p) ==
            LET with == [acc EXCEPT !.tiles = Append(@, p), !.pending = Append(@, p)]
            IN  IF p \notin chipped THEN acc
                ELSE IF Len(with.tiles) >= PerSheet THEN Flush(with) ELSE with
    IN  Flush(FoldLeft(Add, NothingPasted, SheetOrder(Drawn)))

\* A command that cannot open a file raises and writes no index: it is not a step.
ChipSheets ==
    /\ score = "idle"
    /\ build = "done" /\ fetch = "idle" /\ Readable
    /\ score' = "sheets"
    /\ covered' \in SUBSET Drawn
    /\ LET made == SheetsOf(covered') IN sheets' = made.sheets /\ index' = made.index
    /\ UNCHANGED <<evalSet, evalCache, results, labels, corrected>>

EvalNext ==
    \/ score = "idle" /\ BuildNext /\ UNCHANGED <<evalCache, scoring>>
    \/ build = "done" /\ score = "idle" /\ FetchNext /\ UNCHANGED <<evalSet, scoring>>
    \/ ScoreStart \/ ScoreFails \/ ApplyLabels \/ Audit \/ ChipSheets
    \/ \E p \in Drawn : ScoreParcel(p)

EvalSpec == EvalInit /\ [][EvalNext]_evalVars

--------------------------------------------------------------------------------
(* Properties.                                                             *)

\* Sums over the parcels at least as good as p.
SeenAt(rs, p) == Weights(rs, {q \in Scored(rs) : rs[q].score >= rs[p].score})
HitsAt(rs, p) == Weights(rs, {q \in Improved(rs) : rs[q].score >= rs[p].score})

Product(ns) == FoldFunction(LAMBDA a, b : a * b, 1, [n \in ns |-> n])

\* The average precision is the mean, over the county's improved parcels, of the precision
\* at which each is retrieved: it depends on the scores alone, never on how ties are
\* sorted (metrics.py:194-196).
AveragePrecisionIsMean(rs) ==
    LET den == Product({SeenAt(rs, p) : p \in Scored(rs)} \ {0})
        num == SumFunction([p \in Improved(rs) |-> IF SeenAt(rs, p) = 0 THEN 0
                   ELSE Weight(rs, rs[p].stratum) * HitsAt(rs, p) * (den \div SeenAt(rs, p))])
    IN  AveragePrecision(rs).num * den = num * AveragePrecision(rs).den

\* The top of the ranking is the longest part of it that fits in the budget, or its first
\* parcel that weighs anything.
TopIsLongest(rs) ==
    LET top   == TopOfRanking(rs)
        total == Summarise(rs).total
        rest  == Scored(rs) \ top.parcels
    IN  /\ top.taken * Top.in > total * Top.of
              => Cardinality({p \in top.parcels : Weight(rs, rs[p].stratum) > 0}) = 1
        /\ \A p \in top.parcels, q \in rest : rs[p].score >= rs[q].score
        /\ rest # {} => \E q \in rest :
              (top.taken + Weight(rs, rs[q].stratum)) * Top.in > total * Top.of

RankingFigures ==
    /\ score = "labelled" => AveragePrecisionIsMean(results) /\ TopIsLongest(results)
    /\ score = "audited" => AveragePrecisionIsMean(corrected) /\ TopIsLongest(corrected)

\* The scored parcels of rs stand for every parcel of the county in their strata.
StandForCounty(rs) ==
    Summarise(rs).total = Scale * SumFunctionOnSet(CountyCount, {rs[p].stratum : p \in Scored(rs)})

\* The weights carry the sample to the county: the scored parcels stand for every parcel of
\* the strata they were drawn from, and after an audit for those of the strata it put them
\* in, the parcel it moved with the weight of its new stratum; and when none was skipped the
\* base rate of the summary is the one computed from the labels alone (metrics.py:142-153 and
\* 272-278, dataset.py:222-242).
WeightsCarryCounty ==
    /\ score = "labelled" => StandForCounty(results)
    /\ score = "audited" => StandForCounty(corrected)
    /\ score = "labelled" /\ Scored(results) = Drawn /\ (\A p \in Drawn : labels[p] # "unknown") =>
          /\ Summarise(results).positive = ImprovementBaseRate.positive
          /\ Summarise(results).total = ImprovementBaseRate.total

\* The audit corrects strata and nothing else: a parcel it keeps has the outcome the labels
\* gave it, whatever stratum it is moved to (metrics.py:272-278).
AuditKeepsOutcome ==
    score = "audited" =>
        \A p \in Drawn : labels[p] # "unknown" /\ p \in Scored(corrected) =>
            (p \in Improved(corrected) <=> labels[p] = "yes")

\* Cell at of sheet k is the one that entry e of the index names.
NamesCell(e, k, at) == e.sheet = k /\ at = <<e.row, e.column>>

\* The index and the contact sheets agree: each parcel with imagery is named once, every
\* entry names a cell that shows that parcel's chip, and every chip that was pasted is named,
\* whatever is left for the last sheet (cli.py:694-723, chips.py:152-169).
IndexNamesChips ==
    score = "sheets" =>
        /\ covered = {index[n].pid : n \in DOMAIN index}
        /\ \A n, m \in DOMAIN index : index[n].pid = index[m].pid => n = m
        /\ \A n \in DOMAIN index : \E k \in DOMAIN sheets : \E at \in DOMAIN sheets[k] :
              NamesCell(index[n], k, at) /\ sheets[k][at] = index[n].pid
        /\ \A k \in DOMAIN sheets : \A at \in DOMAIN sheets[k] :
              \E n \in DOMAIN index : NamesCell(index[n], k, at)
================================================================================
