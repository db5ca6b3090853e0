------------------------------- MODULE JobQueue --------------------------------
(***************************************************************************)
(* The Postgres job table (jobs/queue.py), the worker processes that drain *)
(* it (worker.py) and the environment that stops them: deploys (SIGTERM,   *)
(* then SIGKILL when the grace period is over), crashes and database       *)
(* outages.                                                                *)
(*                                                                         *)
(* A handler is abstracted to the batches it commits.  The handlers of the *)
(* jobs in Polling call stop_requested() after every batch; the others run *)
(* in one transaction and never look.                                      *)
(***************************************************************************)
EXTENDS Integers, FiniteSets

CONSTANTS
    Jobs,           \* rows the jobs table may hold
    Workers,        \* worker processes
    NoJob,          \* a worker's "no job"
    Polling,        \* the jobs whose handler polls stop_requested()
    MAX_ATTEMPTS,   \* queue.MAX_ATTEMPTS
    MaxStamp,       \* bound: created_at is in 1..MaxStamp
    MaxBatches,     \* bound: batches of a polling job
    MaxFaults,      \* bound: crashes and database outages in a behaviour
    RunAsModule     \* TRUE when the process is started as "python -m ptax.worker"

ASSUME JobQueueAssumption ==
    /\ MAX_ATTEMPTS \in Nat \ {0}
    /\ MaxStamp \in Nat /\ MaxBatches \in Nat /\ MaxFaults \in Nat
    /\ NoJob \notin Jobs
    /\ Polling \subseteq Jobs
    /\ RunAsModule \in BOOLEAN

VARIABLES
    status,     \* status[j]: the status column; "absent" before the row exists
    attempts,   \* attempts[j]: the attempts column
    created,    \* created[j]: the created_at column
    todo,       \* todo[j]: batches j's handler has yet to commit
    pc,         \* pc[w]: what worker process w is doing
    cur,        \* cur[w]: the job w is claiming or running
    outcome,    \* outcome[w]: how the handler w called has ended
    stop,       \* stop[w]: the _stop that _request_stop sets and main() reads
    grace,      \* grace[w]: a batch has ended since the signal; SIGKILL may come
    faults,     \* faults so far
    retried     \* history: retried[j] counts the failures that re-queued j

jobVars    == <<status, attempts, created, todo, retried>>
workerVars == <<pc, cur, outcome, stop, grace>>
vars       == <<jobVars, workerVars, faults>>

Statuses   == {"absent", "queued", "running", "succeeded", "failed"}
Ended      == {"succeeded", "failed"}
PCs        == {"down", "poll", "claiming", "working", "record"}
Outcomes   == {"none", "ok", "interrupted", "retryable", "error"}

--------------------------------------------------------------------------------

Init ==
    /\ status = [j \in Jobs |-> "absent"]
    /\ attempts = [j \in Jobs |-> 0]
    /\ created = [j \in Jobs |-> 0]
    /\ todo = [j \in Jobs |-> 0]
    /\ pc = [w \in Workers |-> "down"]
    /\ cur = [w \in Workers |-> NoJob]
    /\ outcome = [w \in Workers |-> "none"]
    /\ stop = [w \in Workers |-> FALSE]
    /\ grace = [w \in Workers |-> FALSE]
    /\ faults = 0
    /\ retried = [j \in Jobs |-> 0]

\* The commit of a transaction that called enqueue().  created_at was read inside
\* that transaction, so rows may become visible in another order than their stamps.
Enqueue(j) ==
    /\ status[j] = "absent"
    /\ status' = [status EXCEPT ![j] = "queued"]
    /\ \E s \in 1..MaxStamp : created' = [created EXCEPT ![j] = s]
    /\ \E n \in (IF j \in Polling THEN 1..MaxBatches ELSE {0}) :
          todo' = [todo EXCEPT ![j] = n]
    /\ UNCHANGED <<attempts, retried, workerVars, faults>>

--------------------------------------------------------------------------------
(* The worker process.                                                     *)

\* A process that ends, however it ends, leaves nothing behind but its commits.
Gone(w, p) ==
    /\ pc' = [pc EXCEPT ![w] = p]
    /\ cur' = [cur EXCEPT ![w] = NoJob]
    /\ outcome' = [outcome EXCEPT ![w] = "none"]
    /\ grace' = [grace EXCEPT ![w] = FALSE]

Boot(w) ==
    /\ pc[w] = "down"
    /\ pc' = [pc EXCEPT ![w] = "poll"]
    /\ stop' = [stop EXCEPT ![w] = FALSE]
    /\ UNCHANGED <<jobVars, cur, outcome, grace, faults>>

\* SIGTERM: _request_stop sets the _stop of the module that installed it.
Signal(w) ==
    /\ pc[w] # "down"
    /\ ~stop[w]
    /\ stop' = [stop EXCEPT ![w] = TRUE]
    /\ UNCHANGED <<jobVars, pc, cur, outcome, grace, faults>>

\* Faulty variant: the handler never polls.
HandlerNeverSees(w) == FALSE

\* The handlers import stop_requested from ptax.worker.  In a process started as
\* "python -m ptax.worker" that is a second copy of the module beside __main__,
\* and nothing ever sets its _stop.
HandlerSeesStop(w) == stop[w] /\ ~RunAsModule

\* main(): the loop ends between jobs once _stop is set.
ExitLoop(w) ==
    /\ pc[w] = "poll"
    /\ stop[w]
    /\ Gone(w, "down")
    /\ UNCHANGED <<jobVars, stop, faults>>

\* Rows another transaction holds FOR UPDATE.
Locked == {cur[w] : w \in {v \in Workers : pc[v] = "claiming"}}

\* Faulty variants: without SKIP LOCKED; taking over jobs that look abandoned.
ClaimableUnlocked == {j \in Jobs : status[j] = "queued"}
ClaimableAgain    == {j \in Jobs : status[j] \in {"queued", "running"} /\ j \notin Locked}

Claimable == {j \in Jobs : status[j] = "queued" /\ j \notin Locked}

\* SELECT ... ORDER BY created_at FOR UPDATE SKIP LOCKED LIMIT 1
ClaimLock(w) ==
    /\ pc[w] = "poll"
    /\ ~stop[w]
    /\ \E j \in Claimable :
          /\ \A k \in Claimable : created[j] =< created[k]
          /\ cur' = [cur EXCEPT ![w] = j]
    /\ pc' = [pc EXCEPT ![w] = "claiming"]
    /\ UNCHANGED <<jobVars, outcome, stop, grace, faults>>

\* The UPDATE of the claim, committed.
Charge(j) ==
    /\ status' = [status EXCEPT ![j] = "running"]
    /\ attempts' = [attempts EXCEPT ![j] = @ + 1]
    /\ UNCHANGED <<created, todo, retried>>

ClaimCommit(w) ==
    /\ pc[w] = "claiming"
    /\ Charge(cur[w])
    /\ pc' = [pc EXCEPT ![w] = "working"]
    /\ UNCHANGED <<cur, outcome, stop, grace, faults>>

\* The connection breaks around the claim's commit: tick() logs it, and the job
\* is either still queued or running with no worker.
ClaimBroken(w) ==
    /\ pc[w] = "claiming"
    /\ faults < MaxFaults
    /\ faults' = faults + 1
    /\ \/ Charge(cur[w])
       \/ UNCHANGED jobVars
    /\ Gone(w, "poll")
    /\ UNCHANGED stop

HandlerEnds(w, o) ==
    /\ pc' = [pc EXCEPT ![w] = "record"]
    /\ outcome' = [outcome EXCEPT ![w] = o]
    /\ UNCHANGED <<cur, stop, faults>>

\* Faulty variant: the handler polls before it commits, and loses its batch.
CommitBatchLost(w) ==
    todo' = IF HandlerSeesStop(w) THEN todo ELSE [todo EXCEPT ![cur[w]] = @ - 1]

CommitBatch(w) == todo' = [todo EXCEPT ![cur[w]] = @ - 1]

\* A polling handler commits a batch and polls: JobInterrupted, or the next batch.
Batch(w) ==
    /\ pc[w] = "working"
    /\ todo[cur[w]] > 0
    /\ CommitBatch(w)
    /\ grace' = [grace EXCEPT ![w] = stop[w]]
    /\ \/ HandlerSeesStop(w) /\ HandlerEnds(w, "interrupted")
       \/ ~HandlerSeesStop(w) /\ UNCHANGED <<pc, cur, outcome, stop, faults>>
    /\ UNCHANGED <<status, attempts, created, retried>>

Return(w) ==
    /\ pc[w] = "working"
    /\ todo[cur[w]] = 0
    /\ HandlerEnds(w, "ok")
    /\ UNCHANGED <<jobVars, grace>>

\* The handler raises, or the registry has no handler for the job's type ("error").
Raise(w) ==
    /\ pc[w] = "working"
    /\ \E o \in {"retryable", "error"} : HandlerEnds(w, o)
    /\ UNCHANGED <<jobVars, grace>>

--------------------------------------------------------------------------------
(* Recording how the job ended: one commit of the branch run_once() takes. *)

MarkSucceeded(j) ==
    /\ status' = [status EXCEPT ![j] = "succeeded"]
    /\ UNCHANGED <<attempts, retried>>

\* Faulty variant: an interruption is charged like a failure.
RequeueCharged(j) ==
    /\ status' = [status EXCEPT ![j] = "queued"]
    /\ UNCHANGED <<attempts, retried>>

Requeue(j) ==
    /\ status' = [status EXCEPT ![j] = "queued"]
    /\ attempts' = [attempts EXCEPT ![j] = IF @ > 0 THEN @ - 1 ELSE 0]
    /\ UNCHANGED retried

MayRetry(j, retry) == retry /\ attempts[j] < MAX_ATTEMPTS

MarkFailed(j, retry) ==
    /\ \/ /\ MayRetry(j, retry)
          /\ status' = [status EXCEPT ![j] = "queued"]
          /\ retried' = [retried EXCEPT ![j] = @ + 1]
       \/ /\ ~MayRetry(j, retry)
          /\ status' = [status EXCEPT ![j] = "failed"]
          /\ UNCHANGED retried
    /\ UNCHANGED attempts

RecordOutcome(w) ==
    \/ outcome[w] = "ok"          /\ MarkSucceeded(cur[w])
    \/ outcome[w] = "interrupted" /\ Requeue(cur[w])
    \/ outcome[w] = "retryable"   /\ MarkFailed(cur[w], TRUE)
    \/ outcome[w] = "error"       /\ MarkFailed(cur[w], FALSE)

Record(w) ==
    /\ pc[w] = "record"
    /\ RecordOutcome(w)
    /\ Gone(w, "poll")
    /\ UNCHANGED <<created, todo, stop, faults>>

--------------------------------------------------------------------------------
(* The environment.                                                        *)

\* mark_*() cannot commit: tick() swallows the SQLAlchemyError and forgets the job.
RecordBroken(w) ==
    /\ pc[w] = "record"
    /\ faults < MaxFaults
    /\ faults' = faults + 1
    /\ Gone(w, "poll")
    /\ UNCHANGED <<jobVars, stop>>

Crash(w) ==
    /\ pc[w] # "down"
    /\ faults < MaxFaults
    /\ faults' = faults + 1
    /\ Gone(w, "down")
    /\ UNCHANGED <<jobVars, stop>>

\* SIGKILL at the end of a deploy's grace period.  The period is taken to be long
\* enough for one batch and the bookkeeping after it, and for nothing more: a
\* handler that does not poll, or does not see the flag, is killed.
Kill(w) ==
    /\ pc[w] = "working"
    /\ stop[w]
    /\ grace[w] \/ cur[w] \notin Polling
    /\ Gone(w, "down")
    /\ UNCHANGED <<jobVars, stop, faults>>

--------------------------------------------------------------------------------

WorkerStep(w) == ClaimCommit(w) \/ Batch(w) \/ Return(w) \/ Raise(w) \/ Record(w)

Next ==
    \/ \E j \in Jobs : Enqueue(j)
    \/ \E w \in Workers :
          \/ Boot(w) \/ Signal(w) \/ ExitLoop(w) \/ ClaimLock(w) \/ WorkerStep(w)
          \/ ClaimBroken(w) \/ RecordBroken(w) \/ Crash(w) \/ Kill(w)

Spec == Init /\ [][Next]_vars

\* The service scheduler restarts a stopped task, and a started process runs.  A
\* process is not always signalled before its first poll (strong fairness).
FairSpec ==
    /\ Spec
    /\ \A w \in Workers :
          /\ WF_vars(Boot(w))
          /\ WF_vars(ExitLoop(w))
          /\ WF_vars(WorkerStep(w))
          /\ SF_vars(ClaimLock(w))

--------------------------------------------------------------------------------
(* Properties.                                                             *)

TypeOK ==
    /\ status \in [Jobs -> Statuses]
    /\ attempts \in [Jobs -> 0..MAX_ATTEMPTS]
    /\ created \in [Jobs -> 0..MaxStamp]
    /\ todo \in [Jobs -> 0..MaxBatches]
    /\ pc \in [Workers -> PCs]
    /\ cur \in [Workers -> Jobs \cup {NoJob}]
    /\ outcome \in [Workers -> Outcomes]
    /\ stop \in [Workers -> BOOLEAN]
    /\ grace \in [Workers -> BOOLEAN]
    /\ faults \in 0..MaxFaults
    /\ retried \in [Jobs -> 0..MAX_ATTEMPTS]

\* Two workers never have the same job in hand, whether they hold its row lock, run
\* its handler or record its end (queue.py:3-4, "without handing a job to two of them").
ExclusiveClaim ==
    \A v, w \in Workers : v # w /\ cur[v] = cur[w] => cur[w] = NoJob

\* The attempts column is exactly the failures that re-queued the job, plus one for
\* the start under way or last recorded: interruptions cost nothing, claims that were
\* rolled back cost nothing, and no failure is forgotten (queue.py:23-28, 72-90).
AttemptsCharged ==
    \A j \in Jobs :
        attempts[j] = retried[j] + (IF status[j] \in {"running"} \cup Ended THEN 1 ELSE 0)

\* A job that is running in the table is in some worker's hands, up to one job per
\* fault: with a grace period that covers a batch, deploys strand no polling job
\* (queue.py:26-27, "a multi-hour run must survive any number of deploys").
Stranded ==
    {j \in Jobs : status[j] = "running" /\ \A w \in Workers : cur[w] # j}

SurvivesDeploys == Cardinality(Stranded \cap Polling) =< faults

\* However many deploys interrupt it, a queued job ends, unless a worker dies or loses the
\* database: each claim of a polling job commits at least one batch before it can be
\* interrupted, and an interruption charges no attempt (queue.py:23-28).
EveryJobEnds ==
    \A j \in Polling : status[j] = "queued" ~> status[j] \in Ended \/ faults > 0

\* The job table and the workers implement the abstract queue: a worker holds a job
\* from the commit of its claim to the commit of its end.
LedgerPhase ==
    [j \in Jobs |-> IF status[j] = "queued" THEN "waiting"
                    ELSE IF status[j] = "running" THEN "active"
                    ELSE status[j]]

LedgerHolder ==
    [j \in Jobs |-> {w \in Workers : cur[w] = j /\ pc[w] \in {"working", "record"}}]

Ledger == INSTANCE JobLedger WITH phase <- LedgerPhase, tries <- attempts, holder <- LedgerHolder

ImplementsLedger == Ledger!Spec
================================================================================
