--------------------------------- MODULE EvalSet -------------------------------
(***************************************************************************)
(* `ptax-eval build` (eval/cli.py, eval/dataset.py, eval/sources.py): the  *)
(* parcels of an area of interest are fetched page by page, labelled by    *)
(* the year the assessor says they were built on, and sampled by stratum.  *)
(***************************************************************************)
EXTENDS Naturals, Sequences, FiniteSets, SequencesExt

CONSTANTS
    Services,           \* what the parcel service may hold: sequences of [pid, built, ok]
    PageSize, MaxPages,
    BaseYear, TargetYear,
    CountyCount,        \* CountyCount[s]: the parcels of the whole county in stratum s
    Quota               \* parcels drawn per stratum

Strata == {"positive", "negative_old", "negative_future"}

ASSUME EvalSetAssumption ==
    /\ PageSize \in Nat \ {0} /\ MaxPages \in Nat /\ Quota \in Nat
    /\ BaseYear \in Nat /\ TargetYear \in Nat /\ 0 < BaseYear /\ BaseYear < TargetYear
    /\ \A sv \in Services : /\ sv \in Seq([pid : Nat, built : Nat, ok : BOOLEAN])
                            /\ \A n, m \in DOMAIN sv : sv[n].pid = sv[m].pid => n = m
    /\ CountyCount \in [Strata -> Nat]

VARIABLES
    service,    \* the parcels of the area, in the service's order
    build,      \* how far the command is: "idle", "paging", "sampling", "done", "failed"
    page,       \* the page it asks for
    parcels,    \* the parcels returned so far
    set,        \* the set file: set[s] is what was drawn from stratum s, and from how many
    short       \* a page was answered with fewer parcels than it had (history)

evalSet == <<service, build, page, parcels, set, short>>

NoSet == [s \in Strata |-> [drawn |-> {}, eligible |-> 0]]

BuildInit ==
    /\ service \in Services
    /\ build = "idle"
    /\ page = 0
    /\ parcels = <<>>
    /\ set = NoSet
    /\ short = FALSE

\* A year of 0 is one the assessor does not know.
LabelFor(built) ==
    IF built = 0 THEN "excluded"
    ELSE IF built <= BaseYear THEN "negative_old"
    ELSE IF built <= TargetYear THEN "positive"
    ELSE "negative_future"

\* Parcels of an area outside the sampled range are dropped before they are labelled.
Stratify(s) == {n \in DOMAIN parcels : parcels[n].ok /\ LabelFor(parcels[n].built) = s}

\* The whole stratum when it is smaller than the quota.
Take(s) == Min({Quota, Cardinality(Stratify(s))})

BuildStart ==
    /\ build = "idle"
    /\ build' = "paging"
    /\ UNCHANGED <<service, page, parcels, set, short>>

PageAt(n) == SubSeq(service, n * PageSize + 1, Min({(n + 1) * PageSize, Len(service)}))

\* Faulty variant: paging also ends when the last page allowed is full.
LastPageOrFull(features) == Len(features) < PageSize \/ page + 1 = MaxPages

LastPage(features) == Len(features) < PageSize

\* What the service may answer for a page: its parcels, only the first of them (a limit of
\* the service, lower than the page), or none (an error reported with status 200, which has
\* no "features").
Answers(n) == {SubSeq(PageAt(n), 1, k) : k \in 0..Len(PageAt(n))}

\* fetch_parcels(): a page that is not full is the last one.
FetchPage ==
    /\ build = "paging" /\ page < MaxPages
    /\ page' = page + 1
    /\ \E features \in Answers(page) :
          /\ parcels' = parcels \o features
          /\ short' = (Len(features) < Len(PageAt(page)))
          /\ build' = IF LastPage(features) THEN "sampling" ELSE "paging"
    /\ UNCHANGED <<service, set>>

\* "parcel query exceeded MAX_PAGES pages", or a request that fails.
BuildFails ==
    /\ build = "paging"
    /\ build' = "failed"
    /\ UNCHANGED <<service, page, parcels, set, short>>

\* sample_strata(), and write_set().
Sample ==
    /\ build = "sampling"
    /\ build' = "done"
    /\ \E drawn \in [Strata -> SUBSET {parcels[n].pid : n \in DOMAIN parcels}] :
          /\ \A s \in Strata : /\ drawn[s] \subseteq {parcels[n].pid : n \in Stratify(s)}
                               /\ Cardinality(drawn[s]) = Take(s)
          /\ set' = [s \in Strata |->
                        [drawn |-> drawn[s], eligible |-> Cardinality(Stratify(s))]]
    /\ UNCHANGED <<service, page, parcels, short>>

BuildNext == BuildStart \/ FetchPage \/ BuildFails \/ Sample

--------------------------------------------------------------------------------
(* Properties.                                                             *)

\* The parcels of stratum s among the first k of the area.
Eligible(s, k) == {n \in 1..k : service[n].ok /\ LabelFor(service[n].built) = s}

\* A set that was written was drawn from every parcel of the area, none missed or fetched
\* twice at a page boundary, and each stratum gives the detector as many as it can
\* (sources.py:77-101, dataset.py:132-151).  When the service answered a page short, or
\* without features, the code takes it for the last page, though it promises "Every parcel
\* intersecting bbox" (sources.py:65, 95): the set is drawn from the parcels before the gap.
SetIsDrawnFromAll ==
    build = "done" =>
        \E k \in 0..Len(service) :
            /\ k = Len(service) \/ short
            /\ \A s \in Strata :
                  /\ set[s].eligible = Cardinality(Eligible(s, k))
                  /\ set[s].drawn \subseteq {service[n].pid : n \in Eligible(s, k)}
                  /\ \/ Cardinality(set[s].drawn) = Quota
                     \/ Cardinality(set[s].drawn) = Cardinality(Eligible(s, k))
================================================================================
