----------------------------- MODULE RunExecution ------------------------------
(***************************************************************************)
(* One comparison run: its row and its per-parcel rows (db/models.py), the *)
(* job that executes it in committed batches (detection/run.py), and the   *)
(* requests that cancel it (api/runs.py).  Every request and every handler *)
(* transaction reads the row first and writes it later, under READ         *)
(* COMMITTED: what it writes rests on what it read.                        *)
(*                                                                         *)
(* At most one worker executes the job (JobQueue!ExclusiveClaim), so there *)
(* is one handler.  The handler sees the stop flag, as when ptax.worker is *)
(* imported; JobQueue models the process that does not.  The columns       *)
(* started_at, finished_at and error are left out.                         *)
(***************************************************************************)
EXTENDS Integers, FiniteSets

CONSTANTS
    Parcels,        \* the layer's parcels, numbered along the geohash order
    BATCH_SIZE,     \* run.BATCH_SIZE
    Admins,         \* concurrent cancel requests
    MaxFaults       \* bound: crashes and database outages in a behaviour

ASSUME RunAssumption ==
    /\ IsFiniteSet(Parcels) /\ Parcels \subseteq Nat
    /\ BATCH_SIZE \in Nat \ {0}
    /\ MaxFaults \in Nat

VARIABLES
    status,     \* runs.status; "absent" before create_run commits
    row,        \* row[p]: what run_parcels says of parcel p; "none" without a row
    counts,     \* runs.parcels_processed, candidates and parcels_skipped
    job,        \* jobs.status of the run's job
    pc,         \* where execute_run is; "idle" when no worker runs it
    seen,       \* the status the handler's session loaded when it opened the run
    todo,       \* the parcels execute_run has yet to score
    result,     \* how execute_run ended
    stop,       \* the worker has been signalled
    asked,      \* asked[a]: cancel request a has read a status it may cancel
    faults,     \* faults so far
    late        \* history: batches committed since the run was last cancelled

dbVars      == <<status, row, counts, job>>
handlerVars == <<pc, seen, todo, result>>
vars        == <<dbVars, handlerVars, stop, asked, faults, late>>

Active   == {"queued", "running"}
Ended    == {"succeeded", "failed", "cancelled"}
Verdicts == {"clear", "candidate", "skipped"}
Zero     == [processed |-> 0, candidates |-> 0, skipped |-> 0]

Init ==
    /\ status = "absent" /\ job = "absent"
    /\ row = [p \in Parcels |-> "none"]
    /\ counts = Zero
    /\ pc = "idle" /\ seen = "none" /\ todo = {} /\ result = "none"
    /\ stop = FALSE
    /\ asked = [a \in Admins |-> FALSE]
    /\ faults = 0 /\ late = 0

\* create_run(): the run and its job become visible in one commit.
CreateRun ==
    /\ status = "absent"
    /\ status' = "queued" /\ job' = "queued"
    /\ UNCHANGED <<row, counts, handlerVars, stop, asked, faults, late>>

\* Writing a status ends the period in which the run was cancelled.
SetStatus(s) == status' = s /\ late' = 0

--------------------------------------------------------------------------------
(* cancel_run(): a request reads the run, then writes it.                  *)

CancelRead(a) ==
    /\ status \in Active
    /\ ~asked[a]
    /\ asked' = [asked EXCEPT ![a] = TRUE]
    /\ UNCHANGED <<dbVars, handlerVars, stop, faults, late>>

CancelCommit(a) ==
    /\ asked[a]
    /\ status' = "cancelled"
    /\ late' = IF status = "cancelled" THEN late ELSE 0
    /\ asked' = [asked EXCEPT ![a] = FALSE]
    /\ UNCHANGED <<row, counts, job, handlerVars, stop, faults>>

--------------------------------------------------------------------------------
(* execute_run().                                                          *)

HandlerEnds(r) == pc' = "record" /\ result' = r /\ UNCHANGED <<seen, todo>>

Claimable == job = "queued"

Claim ==
    /\ Claimable
    /\ pc = "idle"
    /\ job' = "running" /\ pc' = "claimed"
    /\ UNCHANGED <<status, row, counts, seen, todo, result, stop, asked, faults, late>>

Startable == status \in Active

\* db.get_one(Run, ...): a run that was cancelled or has ended is left alone.
Open ==
    /\ pc = "claimed"
    /\ \/ /\ Startable
          /\ pc' = "opened" /\ seen' = status
          /\ UNCHANGED <<todo, result>>
       \/ ~Startable /\ HandlerEnds("ok")
    /\ UNCHANGED <<dbVars, stop, asked, faults, late>>

Scored == {p \in Parcels : row[p] # "none"}

\* Faulty variant: a resumed run scores every parcel again.
RemainingAll == Parcels

\* ordered_ids without done.
Remaining == Parcels \ Scored

\* What the counters of a set of rows should be.
Tally(r) ==
    [processed  |-> Cardinality({p \in Parcels : r[p] # "none"}),
     candidates |-> Cardinality({p \in Parcels : r[p] = "candidate"}),
     skipped    |-> Cardinality({p \in Parcels : r[p] = "skipped"})]

\* _restore_counters() and the commit before the loop.  The session writes status
\* only if it loaded another value, so a resumed run leaves a cancellation standing
\* and a queued one overwrites it.
Start ==
    /\ pc = "opened"
    /\ IF seen = "running" THEN UNCHANGED <<status, late>> ELSE SetStatus("running")
    /\ counts' = Tally(row)
    /\ todo' = Remaining
    /\ pc' = "scoring"
    /\ UNCHANGED <<row, job, seen, result, stop, asked, faults>>

\* The first BATCH_SIZE parcels of S in geohash order.
BatchOf(S) == {p \in S : Cardinality({q \in S : q < p}) < BATCH_SIZE}

CountOf(v, x) == Cardinality({p \in DOMAIN v : v[p] = x})

\* Faulty variant: the counter advances by the batch size, the last batch being short.
CountsWithFull(v) ==
    [processed  |-> counts.processed + BATCH_SIZE,
     candidates |-> counts.candidates + CountOf(v, "candidate"),
     skipped    |-> counts.skipped + CountOf(v, "skipped")]

CountsWith(v) ==
    [processed  |-> counts.processed + Cardinality(DOMAIN v),
     candidates |-> counts.candidates + CountOf(v, "candidate"),
     skipped    |-> counts.skipped + CountOf(v, "skipped")]

\* score_parcel() of a batch and flush_batch(): rows and counters in one commit.
FlushBatch ==
    /\ pc = "scoring"
    /\ todo # {}
    /\ \E v \in [BatchOf(todo) -> Verdicts] :
          /\ row' = [p \in Parcels |-> IF p \in DOMAIN v THEN v[p] ELSE row[p]]
          /\ counts' = CountsWith(v)
    /\ todo' = todo \ BatchOf(todo)
    /\ pc' = "flushed"
    /\ late' = IF status = "cancelled" THEN late + 1 ELSE 0
    /\ UNCHANGED <<status, job, seen, result, stop, asked, faults>>

\* Faulty variant: the row is not refreshed, so the cancellation is not seen.
SeesCancelStale == FALSE

SeesCancel == status = "cancelled"

\* db.refresh(run) after the batch, then the two reasons to leave the loop.
AfterBatch ==
    /\ pc = "flushed"
    /\ \/ SeesCancel /\ HandlerEnds("ok")
       \/ ~SeesCancel /\ stop /\ HandlerEnds("interrupted")
       \/ ~SeesCancel /\ ~stop /\ pc' = "scoring" /\ UNCHANGED <<seen, todo, result>>
    /\ UNCHANGED <<dbVars, stop, asked, faults, late>>

\* Faulty variant: a stop breaks out of the loop.
LoopLeft == todo = {} \/ stop

LoopDone == todo = {}

\* After the loop: the status is written whatever it is by now.
Succeed ==
    /\ pc = "scoring"
    /\ LoopDone
    /\ SetStatus("succeeded")
    /\ HandlerEnds("ok")
    /\ UNCHANGED <<row, counts, job, stop, asked, faults>>

\* Faulty variant: only JobInterrupted is caught, other exceptions go to run_once().
NotMarked == UNCHANGED <<status, late>>

MarkRunFailed == SetStatus("failed")

\* Anything raised inside the loop: rollback, then the run is written "failed".
Fail ==
    /\ pc \in {"scoring", "flushed"}
    /\ MarkRunFailed
    /\ HandlerEnds("error")
    /\ UNCHANGED <<row, counts, job, stop, asked, faults>>

\* run_once(): the job is marked in a commit of its own.  A worker that was
\* signalled exits and another process takes over.
RecordJob ==
    /\ pc = "record"
    /\ job' = [ok |-> "succeeded", interrupted |-> "queued", error |-> "failed"][result]
    /\ pc' = "idle" /\ result' = "none" /\ stop' = FALSE
    /\ UNCHANGED <<status, row, counts, seen, todo, asked, faults, late>>

--------------------------------------------------------------------------------
(* The environment.                                                        *)

Signal ==
    /\ pc # "idle"
    /\ ~stop
    /\ stop' = TRUE
    /\ UNCHANGED <<dbVars, handlerVars, asked, faults, late>>

\* The worker dies, or cannot mark the job: it stays "running" and nobody takes it.
Crash ==
    /\ pc # "idle"
    /\ faults < MaxFaults
    /\ faults' = faults + 1
    /\ pc' = "idle" /\ result' = "none" /\ stop' = FALSE
    /\ UNCHANGED <<dbVars, seen, todo, asked, late>>

\* The database fails under the handler and under its attempt to record that, and
\* is back when run_once() marks the job.
FailUnrecorded ==
    /\ pc \in {"claimed", "opened", "scoring", "flushed"}
    /\ faults < MaxFaults
    /\ faults' = faults + 1
    /\ HandlerEnds("error")
    /\ UNCHANGED <<dbVars, stop, asked, late>>

--------------------------------------------------------------------------------

Handler == Claim \/ Open \/ Start \/ FlushBatch \/ AfterBatch \/ Succeed \/ RecordJob

Next ==
    \/ CreateRun
    \/ \E a \in Admins : CancelRead(a) \/ CancelCommit(a)
    \/ Handler \/ Fail
    \/ Signal \/ Crash \/ FailUnrecorded

Spec == Init /\ [][Next]_vars

\* A worker is always there to take the job, and a handler that runs goes on.
FairSpec == Spec /\ WF_vars(Handler)

--------------------------------------------------------------------------------
(* Properties.                                                             *)

TypeOK ==
    /\ status \in Active \cup Ended \cup {"absent"}
    /\ row \in [Parcels -> Verdicts \cup {"none"}]
    /\ counts \in [processed : Nat, candidates : Nat, skipped : Nat]
    /\ job \in {"absent", "queued", "running", "succeeded", "failed"}
    /\ pc \in {"idle", "claimed", "opened", "scoring", "flushed", "record"}
    /\ seen \in Active \cup {"none"}
    /\ todo \subseteq Parcels
    /\ result \in {"none", "ok", "interrupted", "error"}
    /\ stop \in BOOLEAN
    /\ asked \in [Admins -> BOOLEAN]
    /\ faults \in 0..MaxFaults
    /\ late \in Nat

\* In every committed state, across crashes and resumptions, the run's counters are
\* the counts of its rows (run.py:219-242: counters are incremented per batch, and
\* restored from the rows on resume).
CountersMatchRows == counts = Tally(row)

\* What the handler still plans to score is exactly what has no row, however often it
\* was stopped or crashed: no batch meets the (run_id, parcel_id) key of an earlier one
\* and no parcel is left out (run.py:283, models.py:289-294).
PlanIsUnscored == pc \in {"scoring", "flushed"} => todo = Parcels \ Scored

\* A run that says it succeeded has a result for every parcel of its layer, and its
\* progress reads parcels_total (run.py:305, runs.py:133-146).
SucceededIsComplete ==
    status = "succeeded" => Scored = Parcels /\ counts.processed = Cardinality(Parcels)

\* While a run stays cancelled, at most the batch that was under way is committed
\* (runs.py:188, "at its next batch boundary"; run.py:297-302).
CancelStopsAtBoundary == late =< 1

\* When the job has ended, so has the run: no run is left queued or running with
\* nothing to finish it, unless the database failed (run.py:315-324, worker.py:57-73).
NoRunLeftBehind == job \in {"succeeded", "failed"} /\ faults = 0 => status \in Ended

\* A queued run ends however often its worker is stopped, unless one crashes or loses the
\* database (queue.py:26-27; a claim commits a batch before it can be interrupted).
RunEnds == status = "queued" ~> status \in Ended \/ faults > 0

\* Once a request has cancelled the run, it stays cancelled (runs.py:188, "Stop a
\* queued run before it starts, or a running one at its next batch boundary").
CancelIsFinal == [][status = "cancelled" => status' = "cancelled"]_vars

\* Seen from the queue, the run's job is one job of JobLedger, held from claim to record.
LedgerPhase  == [j \in {"run"} |-> IF job = "queued" THEN "waiting"
                                   ELSE IF job = "running" THEN "active" ELSE job]
LedgerTries  == [j \in {"run"} |-> IF job \in {"absent", "queued"} THEN 0 ELSE 1]
LedgerHolder == [j \in {"run"} |-> IF pc = "idle" THEN {} ELSE {"worker"}]

Ledger ==
    INSTANCE JobLedger WITH
        Jobs <- {"run"}, Workers <- {"worker"}, MAX_ATTEMPTS <- 1,
        phase <- LedgerPhase, tries <- LedgerTries, holder <- LedgerHolder

\* The run uses the queue as its specification allows: its job is queued once, started by
\* one worker, and ended or given back by that worker (run.py, worker.py:57-73).
UsesLedger == Ledger!Spec
================================================================================
