------------------------------- MODULE UploadYear ------------------------------
(***************************************************************************)
(* One upload year of a county: the requests that create it, register      *)
(* files with it and finalize it (api/imagery.py), and the jobs that turn  *)
(* pending files into stored COGs (imagery/ingest.py, ingest_upload).      *)
(*                                                                         *)
(* A request reads the year and later commits.  A file is an object in S3  *)
(* and a row in imagery_assets, and the two are not written together.      *)
(* One worker runs the jobs, as deployed                                   *)
(* (infra/lib/compute-stack.ts:154-161).                                   *)
(***************************************************************************)
EXTENDS Naturals

CONSTANTS
    Files, NoFile,
    Requests,   \* requests to finalize the year
    MaxStops,   \* bound: deploys that interrupt a job
    MaxFaults,  \* bound: workers that die under a job
    MaxRefusals \* bound: deletions of an original that S3 refuses

ASSUME UploadYearAssumption ==
    /\ NoFile \notin Files
    /\ MaxStops \in Nat
    /\ MaxFaults \in Nat
    /\ MaxRefusals \in Nat

VARIABLES
    year,       \* imagery_years.status; "absent" before the row exists
    asset,      \* asset[f]: imagery_assets.status; "absent" before the row exists
    originals,  \* the uploaded objects in S3
    cogs,       \* the stored COGs in S3
    reg,        \* reg[f]: how far the request that registers f is
    fin,        \* fin[r]: how far finalize request r is
    asked,      \* asked[r]: the files that were pending when r was committed (history)
    job,        \* job[r]: the job queued by request r
    pc,         \* how far the handler of the running job is
    todo,       \* the files it has still to process
    file,       \* the file it is processing
    stops, faults, refusals

files   == <<asset, originals, cogs>>
handler == <<pc, todo, file>>
bounds  == <<stops, faults, refusals>>
vars    == <<year, files, reg, fin, asked, job, handler, bounds>>

YearStatuses  == {"queued", "processing", "ready", "failed"}
AssetStatuses == {"pending", "ready", "failed"}
JobStates     == {"absent", "queued", "running", "ended", "dead"}

Init ==
    /\ year = "absent"
    /\ asset = [f \in Files |-> "absent"]
    /\ originals = Files
    /\ cogs = {}
    /\ reg = [f \in Files |-> "idle"]
    /\ fin = [r \in Requests |-> "idle"]
    /\ asked = [r \in Requests |-> {}]
    /\ job = [r \in Requests |-> "absent"]
    /\ pc = "idle" /\ todo = {} /\ file = NoFile
    /\ stops = 0 /\ faults = 0 /\ refusals = 0

--------------------------------------------------------------------------------
(* Requests.                                                               *)

CreateYear ==
    /\ year = "absent"
    /\ year' = "queued"
    /\ UNCHANGED <<files, reg, fin, asked, job, handler, bounds>>

\* A year that is processing is answered 409.
Open == year \in {"queued", "ready", "failed"}

RegisterRead(f) ==
    /\ reg[f] = "idle"
    /\ Open
    /\ reg' = [reg EXCEPT ![f] = "read"]
    /\ UNCHANGED <<year, files, fin, asked, job, handler, bounds>>

RegisterCommit(f) ==
    /\ reg[f] = "read"
    /\ reg' = [reg EXCEPT ![f] = "done"]
    /\ asset' = [asset EXCEPT ![f] = "pending"]
    /\ UNCHANGED <<year, originals, cogs, fin, asked, job, handler, bounds>>

Pending == {f \in Files : asset[f] = "pending"}

FinalizeRead(r) ==
    /\ fin[r] = "idle"
    /\ Open
    /\ Pending # {}
    /\ fin' = [fin EXCEPT ![r] = "read"]
    /\ UNCHANGED <<year, files, reg, asked, job, handler, bounds>>

FinalizeCommit(r) ==
    /\ fin[r] = "read"
    /\ fin' = [fin EXCEPT ![r] = "done"]
    /\ asked' = [asked EXCEPT ![r] = Pending]
    /\ year' = "processing"
    /\ job' = [job EXCEPT ![r] = "queued"]
    /\ UNCHANGED <<files, reg, handler, bounds>>

--------------------------------------------------------------------------------
(* imagery.ingest_upload                                                   *)

JobStart(r) ==
    /\ job[r] = "queued"
    /\ \A q \in Requests : job[q] # "running"
    /\ IF year = "processing"
       THEN job' = [job EXCEPT ![r] = "running"] /\ pc' = "listing"
       ELSE job' = [job EXCEPT ![r] = "ended"] /\ UNCHANGED pc
    /\ UNCHANGED <<year, files, reg, fin, asked, todo, file, bounds>>

\* Faulty variant: the job takes the files it has already stored as well.
ToProcessAll == {f \in Files : asset[f] # "absent"}

ToProcess == Pending

List ==
    /\ pc = "listing"
    /\ pc' = "next"
    /\ todo' = ToProcess
    /\ UNCHANGED <<year, files, reg, fin, asked, job, file, bounds>>

\* Faulty variant: the original is moved, not copied.
MoveOriginal(f) == originals' = originals \ {f}

CopyOriginal(f) == UNCHANGED originals

\* The original is downloaded, is valid, and is converted.
Fetch(f) ==
    /\ pc = "next"
    /\ f \in todo
    /\ f \in originals
    /\ pc' = "fetched"
    /\ file' = f
    /\ CopyOriginal(f)
    /\ UNCHANGED <<year, asset, cogs, reg, fin, asked, job, todo, bounds>>

\* store_cog(): the COG is put in S3, then its row is committed ready.
PutCog ==
    /\ pc = "fetched"
    /\ pc' = "put"
    /\ cogs' = cogs \cup {file}
    /\ UNCHANGED <<year, asset, originals, reg, fin, asked, job, todo, file, bounds>>

CommitAsset ==
    /\ pc = "put"
    /\ pc' = "stored"
    /\ asset' = [asset EXCEPT ![file] = "ready"]
    /\ UNCHANGED <<year, originals, cogs, reg, fin, asked, job, todo, file, bounds>>

NextFile(f) == pc' = "next" /\ todo' = todo \ {f} /\ file' = NoFile

DeleteOriginal ==
    /\ pc = "stored"
    /\ originals' = originals \ {file}
    /\ NextFile(file)
    /\ UNCHANGED <<year, asset, cogs, reg, fin, asked, job, bounds>>

\* The file is missing or invalid, or S3 or GDAL fail: the asset is marked, and the loop
\* goes on with the next file.
Reject(f) ==
    /\ \/ pc = "next" /\ f \in todo
       \/ pc \in {"fetched", "put"} /\ f = file
    /\ asset' = [asset EXCEPT ![f] = "failed"]
    /\ NextFile(f)
    /\ UNCHANGED <<year, originals, cogs, reg, fin, asked, job, bounds>>

\* The same except clause catches an original that cannot be deleted.
DeleteRefused ==
    /\ pc = "stored"
    /\ refusals < MaxRefusals
    /\ refusals' = refusals + 1
    /\ asset' = [asset EXCEPT ![file] = "failed"]
    /\ NextFile(file)
    /\ UNCHANGED <<year, originals, cogs, reg, fin, asked, job, stops, faults>>

\* Faulty variant: the loop is left at the first file that failed.
AllProcessedOrFailed == todo = {} \/ \E f \in Files : asset[f] = "failed"

AllProcessed == todo = {}

\* Faulty variant: the year is ready when the loop ends.
VerdictAlways == "ready"

Verdict == IF \E f \in Files : asset[f] = "ready" THEN "ready" ELSE "failed"

JobEnds(state) ==
    /\ \E r \in Requests : job[r] = "running" /\ job' = [job EXCEPT ![r] = state]
    /\ pc' = "idle" /\ todo' = {} /\ file' = NoFile

Conclude ==
    /\ pc = "next"
    /\ AllProcessed
    /\ year' = Verdict
    /\ JobEnds("ended")
    /\ UNCHANGED <<files, reg, fin, asked, bounds>>

\* No footprint, a database error between two files, the coverage report: _fail_year().
Fail ==
    /\ pc \in {"listing", "next"}
    /\ year' = "failed"
    /\ JobEnds("ended")
    /\ UNCHANGED <<files, reg, fin, asked, bounds>>

\* Faulty variant: the handler returns when it is told to stop.
AfterStopReturn == "ended"

\* JobInterrupted: the job is queued again.
AfterStop == "queued"

Interrupt ==
    /\ pc = "next"
    /\ todo # {}
    /\ stops < MaxStops
    /\ stops' = stops + 1
    /\ JobEnds(AfterStop)
    /\ UNCHANGED <<year, files, reg, fin, asked, faults, refusals>>

\* The worker dies; the job stays "running" in the jobs table, and no worker takes it.
Die ==
    /\ pc # "idle"
    /\ faults < MaxFaults
    /\ faults' = faults + 1
    /\ JobEnds("dead")
    /\ UNCHANGED <<year, files, reg, fin, asked, stops, refusals>>

--------------------------------------------------------------------------------

JobStep ==
    \/ \E r \in Requests : JobStart(r)
    \/ \E f \in Files : Fetch(f) \/ Reject(f)
    \/ List \/ PutCog \/ CommitAsset \/ DeleteOriginal \/ DeleteRefused
    \/ Conclude \/ Fail

Next ==
    \/ CreateYear
    \/ \E f \in Files : RegisterRead(f) \/ RegisterCommit(f)
    \/ \E r \in Requests : FinalizeRead(r) \/ FinalizeCommit(r)
    \/ JobStep \/ Interrupt \/ Die

Spec == Init /\ [][Next]_vars

\* The worker drains the queue (JobQueue!EveryJobEnds).
FairSpec == Spec /\ WF_vars(JobStep)

--------------------------------------------------------------------------------
(* Properties.                                                             *)

TypeOK ==
    /\ year \in YearStatuses \cup {"absent"}
    /\ asset \in [Files -> AssetStatuses \cup {"absent"}]
    /\ originals \in SUBSET Files /\ cogs \in SUBSET Files
    /\ reg \in [Files -> {"idle", "read", "done"}]
    /\ fin \in [Requests -> {"idle", "read", "done"}]
    /\ asked \in [Requests -> SUBSET Files]
    /\ job \in [Requests -> JobStates]
    /\ pc \in {"idle", "listing", "next", "fetched", "put", "stored"}
    /\ todo \in SUBSET Files
    /\ file \in Files \cup {NoFile}
    /\ stops \in 0..MaxStops /\ faults \in 0..MaxFaults /\ refusals \in 0..MaxRefusals

\* At every commit, stop or death, the object a row points to is in S3: the original while
\* the row is pending, the COG once it is ready (models.py, ImageryAsset.s3_key).
NoImageLost ==
    \A f \in Files : /\ asset[f] = "pending" => f \in originals
                     /\ asset[f] = "ready" => f \in cogs

\* A ready year has imagery, however its requests and jobs overlap.
ReadyYearHasImagery == year = "ready" => \E f \in Files : asset[f] = "ready"

\* A job that makes the year ready has judged every file that was pending when it was
\* asked for, interrupted or not (ingest.py:226-264).  It is about the job that does the
\* work: a job that finds the year ready returns at once (ingest.py:223-224), and leaves the
\* files of its finalization pending when no other job had listed them.
ReadyJudgesBatch ==
    [][\A r \in Requests :
          job[r] = "running" /\ job'[r] = "ended" /\ year' = "ready"
             => \A f \in asked[r] : asset[f] # "pending"]_vars

\* Nothing but a refused deletion takes a stored file back: no further finalization, stop
\* or death does.
StoredLostOnlyByRefusal ==
    [][\A f \in Files :
          asset[f] = "ready" => asset'[f] = "ready" \/ refusals' > refusals]_vars

\* A stored file stays ready (docs/plans/2026-09-21-imagery-and-detection.md:359: an asset
\* is failed "on rejection").
StoredStaysReady == [][\A f \in Files : asset[f] = "ready" => asset'[f] = "ready"]_vars

\* Behind a year that is processing there is a job that will go on with it, or one whose
\* worker died: no stop, failure or second finalization leaves it without
\* (api/imagery.py:242-245, ingest.py:219-275).
NoYearLeftBehind ==
    year = "processing" => \E r \in Requests : job[r] \in {"queued", "running", "dead"}

\* Every finalized year comes to rest, unless a worker dies under its job.
YearSettles == year = "processing" ~> year \in {"ready", "failed"} \/ faults > 0
================================================================================
