---------------------------- MODULE JobQueueProofs -----------------------------
(***************************************************************************)
(* What holds of the job queue for any jobs, workers and bounds.           *)
(*                                                                         *)
(* The inductive invariant adds to the properties what links a worker's    *)
(* program counter to the job it has in hand and to that job's row.        *)
(***************************************************************************)
EXTENDS JobQueue, FiniteSetTheorems, TLAPS

\* A worker has a job in hand exactly between its claim and its record, and the
\* job's row agrees with how far it is.
HandsMatchRows ==
    \A w \in Workers :
        /\ cur[w] = NoJob <=> pc[w] \in {"down", "poll"}
        /\ pc[w] = "claiming" => status[cur[w]] = "queued"
        /\ pc[w] \in {"working", "record"} => status[cur[w]] = "running"
        /\ pc[w] = "record" => outcome[w] # "none"

\* A queued job has an attempt left; a row that does not exist has used none.
AttemptLeft ==
    \A j \in Jobs :
        /\ status[j] = "queued" => attempts[j] < MAX_ATTEMPTS
        /\ status[j] = "absent" => attempts[j] = 0

IInv ==
    /\ TypeOK
    /\ HandsMatchRows
    /\ AttemptLeft
    /\ ExclusiveClaim
    /\ AttemptsCharged

LEMMA InitIInv == Init => IInv
  BY JobQueueAssumption
  DEF Init, IInv, TypeOK, HandsMatchRows, AttemptLeft, ExclusiveClaim, AttemptsCharged,
      Statuses, PCs, Outcomes, Ended

LEMMA NextIInv == IInv /\ [Next]_vars => IInv'
  <1> SUFFICES ASSUME IInv, [Next]_vars PROVE IInv'
    OBVIOUS
  <1> USE JobQueueAssumption
      DEF IInv, TypeOK, HandsMatchRows, AttemptLeft, ExclusiveClaim, AttemptsCharged,
          Statuses, PCs, Outcomes, Ended, vars, jobVars, workerVars
  <1>1. ASSUME NEW j \in Jobs, Enqueue(j) PROVE IInv'
    BY <1>1 DEF Enqueue
  <1>2. ASSUME NEW w \in Workers, Boot(w) PROVE IInv'
    BY <1>2 DEF Boot
  <1>3. ASSUME NEW w \in Workers, Signal(w) PROVE IInv'
    BY <1>3 DEF Signal
  <1>4. ASSUME NEW w \in Workers, ExitLoop(w) PROVE IInv'
    BY <1>4 DEF ExitLoop, Gone
  <1>5. ASSUME NEW w \in Workers, ClaimLock(w) PROVE IInv'
    BY <1>5 DEF ClaimLock, Claimable, Locked
  <1>6. ASSUME NEW w \in Workers, ClaimCommit(w) PROVE IInv'
    BY <1>6 DEF ClaimCommit, Charge
  <1>7. ASSUME NEW w \in Workers, Batch(w) PROVE IInv'
    BY <1>7 DEF Batch, CommitBatch, HandlerEnds
  <1>8. ASSUME NEW w \in Workers, Return(w) PROVE IInv'
    BY <1>8 DEF Return, HandlerEnds
  <1>9. ASSUME NEW w \in Workers, Raise(w) PROVE IInv'
    BY <1>9 DEF Raise, HandlerEnds
  <1>10. ASSUME NEW w \in Workers, Record(w) PROVE IInv'
    <2>1. CASE outcome[w] = "ok"
      BY <1>10, <2>1 DEF Record, RecordOutcome, MarkSucceeded, Gone
    <2>2. CASE outcome[w] = "interrupted"
      BY <1>10, <2>2 DEF Record, RecordOutcome, Requeue, Gone
    <2>3. CASE outcome[w] = "retryable"
      BY <1>10, <2>3 DEF Record, RecordOutcome, MarkFailed, MayRetry, Gone
    <2>4. CASE outcome[w] = "error"
      BY <1>10, <2>4 DEF Record, RecordOutcome, MarkFailed, MayRetry, Gone
    <2> QED
      BY <1>10, <2>1, <2>2, <2>3, <2>4 DEF Record, RecordOutcome
  <1>11. ASSUME NEW w \in Workers, ClaimBroken(w) PROVE IInv'
    BY <1>11 DEF ClaimBroken, Charge, Gone
  <1>12. ASSUME NEW w \in Workers, RecordBroken(w) PROVE IInv'
    BY <1>12 DEF RecordBroken, Gone
  <1>13. ASSUME NEW w \in Workers, Crash(w) PROVE IInv'
    BY <1>13 DEF Crash, Gone
  <1>14. ASSUME NEW w \in Workers, Kill(w) PROVE IInv'
    BY <1>14 DEF Kill, Gone
  <1>15. CASE UNCHANGED vars
    BY <1>15
  <1> QED
    BY <1>1, <1>2, <1>3, <1>4, <1>5, <1>6, <1>7, <1>8, <1>9, <1>10,
       <1>11, <1>12, <1>13, <1>14, <1>15
    DEF Next, WorkerStep

\* Every state the queue reaches satisfies the inductive invariant.
THEOREM Invariance == Spec => []IInv
  <1>1. Init => IInv BY InitIInv
  <1>2. IInv /\ [Next]_vars => IInv' BY NextIInv
  <1> QED BY <1>1, <1>2, PTL DEF Spec

\* Every variable keeps its type; in particular no job is ever charged more than
\* MAX_ATTEMPTS attempts, however claims, retries and interruptions interleave.
THEOREM TypeCorrect == Spec => []TypeOK
  BY Invariance, PTL DEF IInv

\* FOR UPDATE SKIP LOCKED and the status column together keep a job in one worker's
\* hands, for any number of workers and jobs.
THEOREM OneWorkerPerJob == Spec => []ExclusiveClaim
  BY Invariance, PTL DEF IInv

\* The attempts column counts the re-queued failures and the current or last start,
\* and nothing else.
THEOREM AttemptsExact == Spec => []AttemptsCharged
  BY Invariance, PTL DEF IInv

--------------------------------------------------------------------------------
(* Deploys.  A handler that sees the stop flag never starts another batch  *)
(* once one has ended after the signal, so SIGKILL finds no polling job in *)
(* a worker's hands; what is stranded is stranded by faults, one job each. *)

GraceUnused == \A w \in Workers : grace[w] => pc[w] = "record"

DeployInv == IInv /\ GraceUnused /\ SurvivesDeploys

\* The polling jobs that are running with nobody to finish them.
Lost == Stranded \cap Polling

LEMMA NextGraceUnused ==
  ASSUME ~RunAsModule, IInv, GraceUnused, [Next]_vars
  PROVE  GraceUnused'
  BY DEF IInv, TypeOK, HandsMatchRows, GraceUnused, Next, WorkerStep, vars, jobVars, workerVars,
         Enqueue, Boot, Signal, ExitLoop, ClaimLock, ClaimCommit, ClaimBroken, HandsMatchRows,
         Batch, CommitBatch, Return, Raise, Record, RecordBroken, Crash, Kill, Gone, HandlerEnds,
         HandlerSeesStop, PCs

\* A step strands no polling job, or it is a fault and strands at most one.
LEMMA NextLost ==
  ASSUME IInv, GraceUnused, [Next]_vars
  PROVE  \/ Lost' \subseteq Lost /\ faults' >= faults
         \/ faults' = faults + 1 /\ \E j \in Jobs \cup {NoJob} : Lost' \subseteq Lost \cup {j}
  <1> USE DEF IInv, TypeOK, HandsMatchRows, ExclusiveClaim, Lost, Stranded, PCs,
              vars, jobVars, workerVars
  <1>1. ASSUME NEW j \in Jobs, Enqueue(j) PROVE Lost' \subseteq Lost /\ faults' = faults
    BY <1>1 DEF Enqueue
  <1>2. ASSUME NEW w \in Workers, Boot(w) \/ Signal(w) \/ ExitLoop(w)
        PROVE  Lost' \subseteq Lost /\ faults' = faults
    BY <1>2 DEF Boot, Signal, ExitLoop, Gone
  <1>3. ASSUME NEW w \in Workers, ClaimLock(w)
        PROVE  Lost' \subseteq Lost /\ faults' = faults
    BY <1>3 DEF ClaimLock
  <1>4. ASSUME NEW w \in Workers, WorkerStep(w)
        PROVE  Lost' \subseteq Lost /\ faults' = faults
    <2>1. CASE ClaimCommit(w)
      BY <2>1 DEF ClaimCommit, Charge
    <2>2. CASE Batch(w) \/ Return(w) \/ Raise(w)
      BY <2>2 DEF Batch, CommitBatch, Return, Raise, HandlerEnds
    <2>3. CASE Record(w)
      BY <2>3 DEF Record, RecordOutcome, MarkSucceeded, Requeue, MarkFailed, MayRetry, Gone
    <2> QED BY <1>4, <2>1, <2>2, <2>3 DEF WorkerStep
  \* Without the flag's poll the job in hand would be lost here.
  <1>5. ASSUME NEW w \in Workers, Kill(w) PROVE Lost' \subseteq Lost /\ faults' = faults
    BY <1>5 DEF Kill, Gone, GraceUnused
  <1>6. ASSUME NEW w \in Workers, ClaimBroken(w) \/ RecordBroken(w) \/ Crash(w)
        PROVE  faults' = faults + 1 /\ Lost' \subseteq Lost \cup {cur[w]}
    <2>1. CASE ClaimBroken(w)
      BY <2>1 DEF ClaimBroken, Charge, Gone
    <2>2. CASE RecordBroken(w) \/ Crash(w)
      BY <2>2 DEF RecordBroken, Crash, Gone
    <2> QED BY <1>6, <2>1, <2>2
  <1>7. CASE UNCHANGED vars
    BY <1>7
  <1> QED BY <1>1, <1>2, <1>3, <1>4, <1>5, <1>6, <1>7 DEF Next

LEMMA NextSurvivesDeploys ==
  ASSUME ~RunAsModule, IsFiniteSet(Jobs), DeployInv, [Next]_vars
  PROVE  SurvivesDeploys'
  <1>1. faults \in Nat /\ faults' \in Nat
    BY NextIInv, JobQueueAssumption DEF DeployInv, IInv, TypeOK
  <1>2. IsFiniteSet(Lost) /\ Cardinality(Lost) \in Nat /\ Cardinality(Lost) =< faults
    BY FS_Subset, FS_CardinalityType DEF DeployInv, SurvivesDeploys, Lost, Stranded
  <1>3. CASE Lost' \subseteq Lost /\ faults' >= faults
    <2>1. Cardinality(Lost') =< Cardinality(Lost) /\ Cardinality(Lost') \in Nat
      BY <1>2, <1>3, FS_Subset, FS_CardinalityType
    <2> QED BY <1>1, <1>2, <1>3, <2>1 DEF SurvivesDeploys, Lost
  <1>4. ASSUME faults' = faults + 1, NEW j \in Jobs \cup {NoJob}, Lost' \subseteq Lost \cup {j}
        PROVE  SurvivesDeploys'
    <2>1. IsFiniteSet(Lost \cup {j}) /\ Cardinality(Lost \cup {j}) =< Cardinality(Lost) + 1
      BY <1>2, FS_AddElement
    <2>2. Cardinality(Lost') =< Cardinality(Lost \cup {j}) /\ Cardinality(Lost') \in Nat
      BY <1>4, <2>1, FS_Subset, FS_CardinalityType
    <2>3. Cardinality(Lost \cup {j}) \in Nat
      BY <2>1, FS_CardinalityType
    <2> QED BY <1>1, <1>2, <1>4, <2>1, <2>2, <2>3 DEF SurvivesDeploys, Lost
  <1> QED BY <1>3, <1>4, NextLost DEF DeployInv

\* When the handlers see the flag that SIGTERM sets, any number of deploys strands no
\* polling job: those that are running with no worker are at most one per fault.
THEOREM DeploysStrandNothing ==
  ASSUME ~RunAsModule, IsFiniteSet(Jobs)
  PROVE  Spec => []SurvivesDeploys
  <1>1. Init => DeployInv
    <2>1. Init => Lost = {}
      BY DEF Init, Lost, Stranded
    <2>2. Init => GraceUnused
      BY DEF Init, GraceUnused
    <2> QED BY <2>1, <2>2, InitIInv, FS_EmptySet DEF DeployInv, SurvivesDeploys, Lost, Init
  <1>2. DeployInv /\ [Next]_vars => DeployInv'
    BY NextIInv, NextGraceUnused, NextSurvivesDeploys DEF DeployInv
  <1>3. DeployInv => SurvivesDeploys
    BY DEF DeployInv
  <1> QED BY <1>1, <1>2, <1>3, PTL DEF Spec

--------------------------------------------------------------------------------
(* The table and its workers implement the abstract queue.                 *)

LEMMA InitLedger == Init => Ledger!Init
  BY JobQueueAssumption DEF Init, Ledger!Init, LedgerPhase, LedgerHolder

\* A step that touches neither a status nor who holds a job is a stutter.
LEMMA LedgerStutter ==
  ASSUME UNCHANGED <<status, attempts>>,
         \A w \in Workers, j \in Jobs :
            (cur'[w] = j /\ pc'[w] \in {"working", "record"})
              <=> (cur[w] = j /\ pc[w] \in {"working", "record"})
  PROVE  UNCHANGED Ledger!vars
  BY DEF Ledger!vars, LedgerPhase, LedgerHolder

LEMMA HolderUpdate ==
  ASSUME NEW k \in Jobs, NEW hs,
         \A j \in Jobs : LedgerHolder'[j] = IF j = k THEN hs ELSE LedgerHolder[j]
  PROVE  LedgerHolder' = [LedgerHolder EXCEPT ![k] = hs]
  <1>1. LedgerHolder = [j \in Jobs |-> LedgerHolder[j]]
    BY DEF LedgerHolder
  <1>2. LedgerHolder' = [j \in Jobs |-> LedgerHolder'[j]]
    BY DEF LedgerHolder
  <1> QED BY <1>1, <1>2

\* When w lets go of its job, nobody holds it.
LEMMA LetGo ==
  ASSUME IInv, NEW w \in Workers, pc[w] \in {"working", "record"},
         NEW p \in {"down", "poll"}, Gone(w, p)
  PROVE  /\ cur[w] \in Jobs
         /\ LedgerHolder[cur[w]] # {}
         /\ LedgerHolder' = [LedgerHolder EXCEPT ![cur[w]] = {}]
  <1>1. cur[w] \in Jobs /\ LedgerHolder[cur[w]] = {w}
    BY JobQueueAssumption DEF IInv, TypeOK, HandsMatchRows, ExclusiveClaim, LedgerHolder
  <1>2. \A j \in Jobs : LedgerHolder'[j] = IF j = cur[w] THEN {} ELSE LedgerHolder[j]
    BY <1>1, JobQueueAssumption DEF Gone, IInv, TypeOK, ExclusiveClaim, LedgerHolder
  <1> QED BY <1>1, <1>2, HolderUpdate

LEMMA RecordLedger ==
  ASSUME IInv, NEW w \in Workers, Record(w)
  PROVE  Ledger!Next
  <1> DEFINE j == cur[w]
  <1>1. /\ j \in Jobs /\ LedgerHolder[j] # {}
        /\ LedgerHolder' = [LedgerHolder EXCEPT ![j] = {}]
    BY LetGo DEF Record
  <1>2. /\ status[j] = "running" /\ LedgerPhase[j] = "active" /\ attempts[j] \in Nat \ {0}
        /\ status \in [Jobs -> Statuses] /\ attempts \in [Jobs -> 0..MAX_ATTEMPTS]
    BY <1>1 DEF IInv, TypeOK, HandsMatchRows, AttemptsCharged, Record, LedgerPhase
  <1>3. CASE outcome[w] = "ok"
    <2>1. Ledger!Release(j, "succeeded", attempts[j])
      BY <1>1, <1>2, <1>3 DEF Record, RecordOutcome, MarkSucceeded, Ledger!Release, LedgerPhase
    <2> QED BY <1>1, <2>1 DEF Ledger!Next, Ledger!End, Ledger!Ended
  <1>4. CASE outcome[w] = "interrupted"
    <2>1. Ledger!GiveBack(j)
      BY <1>1, <1>2, <1>4
      DEF Record, RecordOutcome, Requeue, Ledger!GiveBack, Ledger!Release, LedgerPhase
    <2> QED BY <1>1, <2>1 DEF Ledger!Next
  <1>5. CASE outcome[w] \in {"retryable", "error"}
    <2>1. Ledger!Retry(j) \/ Ledger!Release(j, "failed", attempts[j])
      BY <1>1, <1>2, <1>5
      DEF Record, RecordOutcome, MarkFailed, MayRetry, Ledger!Retry, Ledger!Release, LedgerPhase
    <2> QED BY <1>1, <2>1 DEF Ledger!Next, Ledger!End, Ledger!Ended
  <1> QED BY <1>3, <1>4, <1>5 DEF Record, RecordOutcome

\* A claim whose commit was applied charges the job; hs is who holds it then.
LEMMA ChargeLedger ==
  ASSUME IInv, NEW w \in Workers, pc[w] = "claiming", Charge(cur[w]),
         NEW hs \in {{}, {w}}, LedgerHolder' = [LedgerHolder EXCEPT ![cur[w]] = hs]
  PROVE  Ledger!Next
  <1>1. cur[w] \in Jobs /\ status[cur[w]] = "queued" /\ attempts[cur[w]] < MAX_ATTEMPTS
    BY DEF IInv, TypeOK, HandsMatchRows, AttemptLeft
  <1>2. Ledger!Start(cur[w], hs)
    BY <1>1 DEF IInv, TypeOK, Charge, Ledger!Start, LedgerPhase
  <1> QED BY <1>1, <1>2 DEF Ledger!Next

LEMMA NextLedger ==
  ASSUME IInv, [Next]_vars
  PROVE  [Ledger!Next]_Ledger!vars
  <1> USE JobQueueAssumption DEF IInv, TypeOK, HandsMatchRows, ExclusiveClaim, PCs,
          vars, jobVars, workerVars
  <1>1. ASSUME NEW j \in Jobs, Enqueue(j) PROVE Ledger!Next
    <2>1. LedgerHolder' = LedgerHolder
      BY <1>1 DEF Enqueue, LedgerHolder
    <2>2. LedgerPhase[j] = "absent" /\ LedgerPhase' = [LedgerPhase EXCEPT ![j] = "waiting"]
      BY <1>1 DEF Enqueue, LedgerPhase
    <2>3. Ledger!Submit(j)
      BY <1>1, <2>1, <2>2 DEF Enqueue, Ledger!Submit
    <2> QED BY <2>3 DEF Ledger!Next
  <1>2. ASSUME NEW w \in Workers, Boot(w) \/ Signal(w) \/ ExitLoop(w) \/ ClaimLock(w)
        PROVE  UNCHANGED Ledger!vars
    BY <1>2, LedgerStutter DEF Boot, Signal, ExitLoop, ClaimLock, Gone
  <1>3. ASSUME NEW w \in Workers, Batch(w) \/ Return(w) \/ Raise(w)
        PROVE  UNCHANGED Ledger!vars
    BY <1>3, LedgerStutter DEF Batch, CommitBatch, Return, Raise, HandlerEnds
  <1>4. ASSUME NEW w \in Workers, ClaimCommit(w) PROVE Ledger!Next
    <2>1. cur[w] \in Jobs /\ \A j \in Jobs :
             LedgerHolder'[j] = IF j = cur[w] THEN {w} ELSE LedgerHolder[j]
      BY <1>4 DEF ClaimCommit, LedgerHolder
    <2>2. LedgerHolder' = [LedgerHolder EXCEPT ![cur[w]] = {w}]
      BY <2>1, HolderUpdate
    <2> QED BY <1>4, <2>2, ChargeLedger DEF ClaimCommit
  <1>5. ASSUME NEW w \in Workers, ClaimBroken(w) PROVE [Ledger!Next]_Ledger!vars
    <2>1. CASE Charge(cur[w])
      <3>1. cur[w] \in Jobs /\ \A j \in Jobs :
               LedgerHolder'[j] = IF j = cur[w] THEN {} ELSE LedgerHolder[j]
        BY <1>5 DEF ClaimBroken, Gone, LedgerHolder
      <3>2. LedgerHolder' = [LedgerHolder EXCEPT ![cur[w]] = {}]
        BY <3>1, HolderUpdate
      <3> QED BY <1>5, <2>1, <3>2, ChargeLedger DEF ClaimBroken
    <2>2. CASE UNCHANGED jobVars
      BY <1>5, <2>2, LedgerStutter DEF ClaimBroken, Gone
    <2> QED BY <1>5, <2>1, <2>2 DEF ClaimBroken
  <1>6. ASSUME NEW w \in Workers, Record(w) PROVE Ledger!Next
    BY <1>6, RecordLedger
  <1>7. ASSUME NEW w \in Workers, RecordBroken(w) \/ Crash(w) \/ Kill(w)
        PROVE  [Ledger!Next]_Ledger!vars
    <2>1. CASE pc[w] \in {"working", "record"}
      <3>1. /\ cur[w] \in Jobs /\ LedgerHolder[cur[w]] # {}
            /\ LedgerHolder' = [LedgerHolder EXCEPT ![cur[w]] = {}]
        BY <1>7, <2>1, LetGo DEF RecordBroken, Crash, Kill
      <3>2. Ledger!Vanish(cur[w])
        BY <1>7, <3>1 DEF RecordBroken, Crash, Kill, Ledger!Vanish, LedgerPhase
      <3> QED BY <3>1, <3>2 DEF Ledger!Next
    <2>2. CASE pc[w] \notin {"working", "record"}
      BY <1>7, <2>2, LedgerStutter DEF RecordBroken, Crash, Kill, Gone
    <2> QED BY <2>1, <2>2
  <1>8. CASE UNCHANGED vars
    BY <1>8, LedgerStutter
  <1> QED BY <1>1, <1>2, <1>3, <1>4, <1>5, <1>6, <1>7, <1>8 DEF Next, WorkerStep

\* Whoever relies on the abstract queue can rely on the table and its workers: at most
\* one worker runs a job, it alone ends it, and a start is charged once.
THEOREM QueueImplementsLedger == Spec => ImplementsLedger
  <1>1. Init => Ledger!Init BY InitLedger
  <1>2. IInv /\ [Next]_vars => [Ledger!Next]_Ledger!vars BY NextLedger
  <1> QED BY <1>1, <1>2, Invariance, PTL DEF Spec, ImplementsLedger, Ledger!Spec
================================================================================
