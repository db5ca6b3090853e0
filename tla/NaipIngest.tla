------------------------------- MODULE NaipIngest ------------------------------
(***************************************************************************)
(* One NAIP year of a county: the requests that order it, and retry it     *)
(* when it failed (api/imagery.py, naip_ingest), and the jobs that copy    *)
(* its tiles (imagery/ingest.py, ingest_naip).                             *)
(*                                                                         *)
(* A request reads the year and later commits it with a job, which is      *)
(* named after the request.  A job polls for a stop before each tile, and  *)
(* a tile is one commit.  OneWorker is how the worker is deployed          *)
(* (infra/lib/compute-stack.ts:154-161).                                   *)
(*                                                                         *)
(* The order and each job search the catalog anew, and the catalog may     *)
(* have changed between them; it does not change during a search.          *)
(***************************************************************************)
EXTENDS NaipCatalog

CONSTANTS
    Catalogs,   \* the states of the catalog
    Requests,
    OneWorker,  \* TRUE: one job at a time
    MaxChanges, \* bound: changes of the catalog
    MaxStops,   \* bound: deploys that interrupt a job
    MaxFaults   \* bound: workers that die under a job

ASSUME NaipIngestAssumption ==
    /\ \A c \in Catalogs : Catalog(c)
    /\ MAX_PAGES \in Nat
    /\ OneWorker \in BOOLEAN
    /\ MaxChanges \in Nat
    /\ MaxStops \in Nat
    /\ MaxFaults \in Nat

VARIABLES
    catalog,
    year,       \* imagery_years.status; "absent" before the row exists
    tiles,      \* tiles[i]: the ready assets whose source_ref is i
    req,        \* req[r]: how far request r is
    job,        \* job[r]: how far the job of request r is
    seen,       \* seen[r]: the year's status as request r, then its job, read it
    todo,       \* todo[r]: how many copies of each tile the job of r has still to make
    wanted,     \* wanted[r]: what the catalog listed when this start of the job of r
                \* searched it (history)
    most,       \* most[i]: the most often that one search of a job returned i (history)
    changes, stops, faults

vars == <<catalog, year, tiles, req, job, seen, todo, wanted, most, changes, stops, faults>>

service  == <<catalog, changes>>
searched == <<wanted, most>>

YearStatuses == {"queued", "processing", "ready", "failed"}
Working      == {"opening", "planning", "copying"}

Init ==
    /\ catalog \in Catalogs
    /\ changes = 0
    /\ wanted = [r \in Requests |-> {}]
    /\ year = "absent"
    /\ tiles = [i \in Items |-> 0]
    /\ req = [r \in Requests |-> "idle"]
    /\ job = [r \in Requests |-> "absent"]
    /\ seen = [r \in Requests |-> "absent"]
    /\ todo = [r \in Requests |-> [i \in Items |-> 0]]
    /\ most = [i \in Items |-> 0]
    /\ stops = 0
    /\ faults = 0

--------------------------------------------------------------------------------
(* The catalog's service changes what it answers.                          *)

CatalogChanges ==
    /\ changes < MaxChanges
    /\ changes' = changes + 1
    /\ catalog' \in Catalogs \ {catalog}
    /\ UNCHANGED <<year, tiles, req, job, seen, todo, searched, stops, faults>>

--------------------------------------------------------------------------------
(* Requests.  A search that fails is answered 502, one without items 404,  *)
(* one with too many 422, and any status but these 409.                    *)

\* Faulty variant: a year that is being copied may be ordered again.
MayOrderAny == year # "ready"

MayOrder == year \in {"absent", "failed"}

OrderRead(r) ==
    /\ req[r] = "idle"
    /\ SearchEnds(catalog)
    /\ ItemsFor(catalog) # {}
    /\ Cardinality(ItemsFor(catalog)) <= MaxItems
    /\ MayOrder
    /\ req' = [req EXCEPT ![r] = "read"]
    /\ seen' = [seen EXCEPT ![r] = year]
    /\ UNCHANGED <<service, searched, year, tiles, job, todo, stops, faults>>

\* The retry deletes the assets that are not ready; a tile's asset is ready when its row
\* is committed (store_cog), so there are none.
KeepReadyTiles == UNCHANGED tiles

\* An insert of a second row for the year meets the unique key (tenant, year, source).
OrderCommit(r) ==
    /\ req[r] = "read"
    /\ req' = [req EXCEPT ![r] = "done"]
    /\ IF seen[r] = "absent" /\ year # "absent"
       THEN UNCHANGED <<year, tiles, job>>
       ELSE /\ year' = "queued"
            /\ KeepReadyTiles
            /\ job' = [job EXCEPT ![r] = "queued"]
    /\ UNCHANGED <<service, searched, seen, todo, stops, faults>>

--------------------------------------------------------------------------------
(* imagery.ingest_naip                                                     *)

MayCopy(s) == s \in {"queued", "processing"}

JobRead(r) ==
    /\ job[r] = "queued"
    /\ OneWorker => \A q \in Requests : job[q] \notin Working
    /\ seen' = [seen EXCEPT ![r] = year]
    /\ job' = [job EXCEPT ![r] = IF MayCopy(year) THEN "opening" ELSE "ended"]
    /\ wanted' = [wanted EXCEPT ![r] = {}]
    /\ UNCHANGED <<service, most, year, tiles, req, todo, stops, faults>>

\* The row is written only when its status changes.
JobOpen(r) ==
    /\ job[r] = "opening"
    /\ job' = [job EXCEPT ![r] = "planning"]
    /\ year' = IF seen[r] = "processing" THEN year ELSE "processing"
    /\ UNCHANGED <<service, searched, tiles, req, seen, todo, stops, faults>>

\* Faulty variant: a resumed job copies every tile again.
NotDoneAll(c) == [i \in Items |-> Times(c, i)]

\* The tiles that are there when the job starts are left out; `done` is not added to, so an
\* item that is returned twice is copied twice.
NotDone(c) == [i \in Items |-> IF tiles[i] = 0 THEN Times(c, i) ELSE 0]

\* The tiles of an earlier search stay, listed or not.
Plan(r) ==
    /\ job[r] = "planning"
    /\ SearchEnds(catalog)
    /\ ItemsFor(catalog) # {}
    /\ job' = [job EXCEPT ![r] = "copying"]
    /\ todo' = [todo EXCEPT ![r] = NotDone(catalog)]
    /\ wanted' = [wanted EXCEPT ![r] = Listed(catalog)]
    /\ most' = [i \in Items |-> IF Times(catalog, i) > most[i] THEN Times(catalog, i) ELSE most[i]]
    /\ UNCHANGED <<service, year, tiles, req, seen, stops, faults>>

CopyTile(r, i) ==
    /\ job[r] = "copying"
    /\ todo[r][i] > 0
    /\ todo' = [todo EXCEPT ![r][i] = @ - 1]
    /\ tiles' = [tiles EXCEPT ![i] = @ + 1]
    /\ UNCHANGED <<service, searched, year, req, job, seen, stops, faults>>

\* _check_stop() raises JobInterrupted, and the job is queued again.
Interrupt(r) ==
    /\ job[r] = "copying"
    /\ \E i \in Items : todo[r][i] > 0
    /\ stops < MaxStops
    /\ stops' = stops + 1
    /\ job' = [job EXCEPT ![r] = "queued"]
    /\ UNCHANGED <<service, searched, year, tiles, req, seen, todo, faults>>

\* Faulty variant: the loop leaves after the first tile.
AllCopiedEarly(r) == Cardinality({i \in Items : todo[r][i] > 0}) <= 1

AllCopied(r) == \A i \in Items : todo[r][i] = 0

\* The coverage report and the status, in one commit.
Finish(r) ==
    /\ job[r] = "copying"
    /\ AllCopied(r)
    /\ job' = [job EXCEPT ![r] = "ended"]
    /\ year' = "ready"
    /\ UNCHANGED <<service, searched, tiles, req, seen, todo, stops, faults>>

\* Faulty variant: the error is recorded, the status stays.
FailedUnmarked == year

\* The status _fail_year() writes.
Failed == "failed"

\* No footprint, a catalog error, a tile that cannot be copied: _fail_year().
Fail(r) ==
    /\ job[r] \in {"planning", "copying"}
    /\ job' = [job EXCEPT ![r] = "failed"]
    /\ year' = Failed
    /\ UNCHANGED <<service, searched, tiles, req, seen, todo, stops, faults>>

\* The worker dies; the job stays "running" in the jobs table for ever.
Die(r) ==
    /\ job[r] \in Working
    /\ faults < MaxFaults
    /\ faults' = faults + 1
    /\ job' = [job EXCEPT ![r] = "dead"]
    /\ UNCHANGED <<service, searched, year, tiles, req, seen, todo, stops>>

--------------------------------------------------------------------------------

JobStep(r) ==
    \/ JobRead(r) \/ JobOpen(r) \/ Plan(r)
    \/ \E i \in Items : CopyTile(r, i)
    \/ Finish(r) \/ Fail(r)

Next ==
    \/ CatalogChanges
    \/ \E r \in Requests :
           OrderRead(r) \/ OrderCommit(r) \/ JobStep(r) \/ Interrupt(r) \/ Die(r)

Spec == Init /\ [][Next]_vars

\* Workers drain the queue (JobQueue!EveryJobEnds), and a request that began ends.
FairSpec == Spec /\ \A r \in Requests : WF_vars(JobStep(r)) /\ WF_vars(OrderCommit(r))

--------------------------------------------------------------------------------
(* Properties.                                                             *)

TypeOK ==
    /\ catalog \in Catalogs
    /\ year \in YearStatuses \cup {"absent"}
    /\ tiles \in [Items -> Nat]
    /\ req \in [Requests -> {"idle", "read", "done"}]
    /\ job \in [Requests -> Working \cup {"absent", "queued", "ended", "failed", "dead"}]
    /\ seen \in [Requests -> YearStatuses \cup {"absent"}]
    /\ todo \in [Requests -> [Items -> Nat]]
    /\ most \in [Items -> Nat]
    /\ wanted \in [Requests -> SUBSET Items]
    /\ changes \in 0..MaxChanges
    /\ stops \in 0..MaxStops
    /\ faults \in 0..MaxFaults

\* However often a job is interrupted or ordered again, and however the catalog changed, a
\* tile is stored no more often than one search returned it (ingest.py:158-170): once, if
\* the catalog never listed it twice in one search.
NoDuplicateTiles == \A i \in Items : tiles[i] <= most[i]

\* A year is ready by a job that ended well, and such a job leaves every usable item that
\* the catalog listed, on all its pages, when it searched, whatever failed on the way and
\* however often the catalog changed (naip.py:62-80, ingest.py:155-179).
ReadyIsComplete ==
    /\ \A r \in Requests : job[r] = "ended" => \A i \in wanted[r] : tiles[i] > 0
    /\ year = "ready" => \E r \in Requests : job[r] = "ended" /\ wanted[r] # {}

\* Neither a job nor a resumption takes a ready year back: only a request that read it
\* failed and commits late does.
ReadyLeftOnlyLate ==
    [][year = "ready" /\ year' # "ready" =>
          \E r \in Requests : /\ req[r] = "read" /\ req'[r] = "done"
                              /\ seen[r] = "failed"]_vars

\* Behind a year that is under way there is a job that will go on with it, or one whose
\* worker died; resumptions, overlapping orders and failures leave none without
\* (ingest.py:149-152, 180-191).
NoYearLeftBehind ==
    year \in {"queued", "processing"} =>
        \E r \in Requests : job[r] \in Working \cup {"queued", "dead"}

\* Every order ends, unless a worker dies under one.
YearSettles ==
    year \in {"queued", "processing"} ~> year \in {"ready", "failed"} \/ faults > 0
================================================================================
