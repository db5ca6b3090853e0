------------------------------- MODULE Coverage --------------------------------
(***************************************************************************)
(* The coverage report of a county's imagery years, over its parcel        *)
(* layers.  A report relates a year to two things a layer provides: the    *)
(* ground its parcels cover (the footprint, cached on the layer by         *)
(* parcels/footprint.py) and the parcels themselves, which are counted.    *)
(* The job of a year writes the report when it ends, and a job queued with *)
(* every activation of a layer rewrites it for the years that are ready    *)
(* (imagery/ingest.py).                                                    *)
(*                                                                         *)
(* Each job reads the footprint when it starts.  The county's row is read  *)
(* again only when a commit has expired it, so the parcels it counts are   *)
(* those of the layer it started with or of the layer current when it      *)
(* ends: a layer that becomes current under a job overtakes it.            *)
(***************************************************************************)
EXTENDS ParcelLayers

CONSTANT Years  \* imagery years

VARIABLES
    footprint,  \* footprint[l]: parcel_layers.footprint, as the references it covers; {} if NULL
    year,       \* year[y]: imagery_years.status
    report,     \* report[y]: the ground and the layer its coverage was computed from
    took,       \* took[y]: the ground and the layer the job of y read
    recompute,  \* recompute[r]: the job queued when the ingest of r made its layer current
    listed,     \* listed[r]: the ground and the layer that job read, and the years it lists
    stale       \* the years whose report is that of a job a layer overtook (history)

reports  == <<footprint, year, report, took, recompute, listed, stale>>
allVars  == <<vars, reports>>

Nothing == [ground |-> {}, layer |-> NoLayer]

CoverageInit ==
    /\ Init
    /\ footprint = [l \in Layers |-> {}]
    /\ year = [y \in Years |-> "absent"]
    /\ report = [y \in Years |-> Nothing]
    /\ took = [y \in Years |-> Nothing]
    /\ recompute = [r \in Requests |-> "absent"]
    /\ listed = [r \in Requests |-> [from |-> Nothing, years |-> {}]]
    /\ stale = {}

--------------------------------------------------------------------------------
(* footprint_for()                                                         *)

\* Otherwise NoParcelLayer is raised.
HasFootprint == current # NoLayer /\ (footprint[current] # {} \/ rows[current] # {})

Ground == IF footprint[current] = {} THEN rows[current] ELSE footprint[current]

\* The union of the parcels is stored the first time it is asked for.
FillFootprint == footprint' = [footprint EXCEPT ![current] = Ground]

--------------------------------------------------------------------------------
(* The years.                                                              *)

\* A year is created only over a footprint.
CreateYear(y) ==
    /\ year[y] = "absent"
    /\ HasFootprint
    /\ FillFootprint
    /\ year' = [year EXCEPT ![y] = "queued"]
    /\ UNCHANGED <<vars, report, took, recompute, listed, stale>>

\* A retry, or files added to a year that is ready.
OrderAgain(y) ==
    /\ year[y] \in {"failed", "ready"}
    /\ year' = [year EXCEPT ![y] = "queued"]
    /\ UNCHANGED <<vars, footprint, report, took, recompute, listed, stale>>

YearStart(y) ==
    /\ year[y] = "queued"
    /\ IF HasFootprint
       THEN /\ FillFootprint
            /\ took' = [took EXCEPT ![y] = [ground |-> Ground, layer |-> current]]
            /\ year' = [year EXCEPT ![y] = "processing"]
       ELSE /\ year' = [year EXCEPT ![y] = "failed"]
            /\ UNCHANGED <<footprint, took>>
    /\ UNCHANGED <<vars, report, recompute, listed, stale>>

\* compute_coverage(): the footprint is the one passed, the layer is the county's.
CoverageOf(from) == {[ground |-> from.ground, layer |-> l] : l \in {from.layer, current}}

\* The job that read `from` writes the reports of the years ys.
Report(ys, from) ==
    /\ \E c \in CoverageOf(from) :
          report' = [y \in Years |-> IF y \in ys THEN c ELSE report[y]]
    /\ stale' = IF from.layer = current THEN stale \ ys ELSE stale \cup ys

\* The report and the status, in one commit.
YearReady(y) ==
    /\ year[y] = "processing"
    /\ year' = [year EXCEPT ![y] = "ready"]
    /\ Report({y}, took[y])
    /\ UNCHANGED <<vars, footprint, took, recompute, listed>>

\* An error, or a stop after which the job starts over.
YearStops(y) ==
    /\ year[y] = "processing"
    /\ \E s \in {"failed", "queued"} : year' = [year EXCEPT ![y] = s]
    /\ UNCHANGED <<vars, footprint, report, took, recompute, listed, stale>>

--------------------------------------------------------------------------------
(* imagery.recompute_coverage                                              *)

RecomputeStart(r) ==
    /\ recompute[r] = "queued"
    /\ IF HasFootprint
       THEN /\ FillFootprint
            /\ listed' = [listed EXCEPT ![r].from = [ground |-> Ground, layer |-> current]]
            /\ recompute' = [recompute EXCEPT ![r] = "running"]
       ELSE /\ recompute' = [recompute EXCEPT ![r] = "failed"]
            /\ UNCHANGED <<footprint, listed>>
    /\ UNCHANGED <<vars, year, report, took, stale>>

ReadyYears == {y \in Years : year[y] = "ready"}

RecomputeList(r) ==
    /\ recompute[r] = "running"
    /\ recompute' = [recompute EXCEPT ![r] = "listed"]
    /\ listed' = [listed EXCEPT ![r].years = ReadyYears]
    /\ UNCHANGED <<vars, footprint, year, report, took, stale>>

\* Every report in one commit.
RecomputeEnd(r) ==
    /\ recompute[r] = "listed"
    /\ recompute' = [recompute EXCEPT ![r] = "ended"]
    /\ Report(listed[r].years, listed[r].from)
    /\ UNCHANGED <<vars, footprint, year, took, listed>>

\* The handler catches nothing, so an error rolls back every report and the job is failed
\* without a retry; a job whose worker died is not taken up again either.
RecomputeFails(r) ==
    /\ recompute[r] \in {"queued", "running", "listed"}
    /\ recompute' = [recompute EXCEPT ![r] = "failed"]
    /\ UNCHANGED <<vars, footprint, year, report, took, listed, stale>>

--------------------------------------------------------------------------------
(* The layers, and what an activation queues in its own commit.            *)

\* Faulty variant: only a county's first layer has its coverage computed.
QueuesRecomputeOnce(r) == current = NoLayer

QueuesRecompute(r) == TRUE

LayerStep ==
    /\ Next
    /\ UNCHANGED <<footprint, year, report, took, listed, stale>>
    /\ LET activated == {r \in Requests : /\ ingesting[r] = "running"
                                           /\ ingesting'[r] = "ended"
                                           /\ status'[req[r].layer] = "ready"}
       IN  recompute' = [r \in Requests |->
                            IF r \in activated /\ QueuesRecompute(r) THEN "queued"
                                                                    ELSE recompute[r]]

CoverageNext ==
    \/ LayerStep
    \/ \E y \in Years : CreateYear(y) \/ OrderAgain(y) \/ YearStart(y) \/ YearReady(y) \/ YearStops(y)
    \/ \E r \in Requests : \/ RecomputeStart(r) \/ RecomputeList(r)
                           \/ RecomputeEnd(r) \/ RecomputeFails(r)

CoverageSpec == CoverageInit /\ [][CoverageNext]_allVars

CoverageFairSpec ==
    /\ CoverageSpec
    /\ \A l \in Layers : WF_vars(InspectStep(l))
    /\ \A r \in Requests : WF_vars(IngestStep(r)) /\ WF_vars(IngestCommit(r))

--------------------------------------------------------------------------------
(* Properties.                                                             *)

Ordered(r, l) == req[r].pc = "done" /\ req[r].layer = l

\* What the coverage of the current layer is computed from.
Whole == [ground |-> rows[current], layer |-> current]

\* Unless the recomputation queued with the current layer is due or failed, every ready year
\* reports the coverage of that layer: its own ground, its own parcels
\* (parcels/ingest.py:134, "re-derive them for the new one"), whatever became of earlier
\* recomputations and whatever years became ready meanwhile.  It needs that no ingest was
\* accepted late, which would add parcels under a stored footprint.  The two cases left out
\* keep the report of the superseded layer, against the plan's "never describe a superseded
\* layer" (docs/plans/2026-09-21-imagery-and-detection.md:363): a recomputation that failed is
\* not tried again (imagery/ingest.py:277-293, worker.py:67-70), and the years of stale were
\* reported last by a job that a layer overtook (imagery/ingest.py:262).
ReportsAreCurrent ==
    /\ ~late
    /\ current # NoLayer /\ rows[current] # {}
    /\ \A r \in Requests : Ordered(r, current) => recompute[r] \in {"absent", "ended"}
    => \A y \in ReadyYears \ stale : report[y] = Whole
================================================================================
