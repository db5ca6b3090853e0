--------------------------- MODULE RunExecutionProofs --------------------------
(***************************************************************************)
(* What holds of a run for any layer, batch size, number of cancelling     *)
(* requests and number of crashes.                                         *)
(***************************************************************************)
EXTENDS RunExecution, FiniteSetTheorems, TLAPS

\* The job is running exactly while a worker executes it, or was when a fault hit.
JobMatchesHandler ==
    /\ pc # "idle" => job = "running"
    /\ job = "running" /\ pc = "idle" => faults > 0
    /\ status = "absent" <=> job = "absent"
    /\ pc = "record" <=> result # "none"
    /\ pc = "opened" => seen # "none"
    /\ \A a \in Admins : asked[a] => job # "absent"

\* A handler that returned or raised left the run ended, unless the database failed.
OutcomeRecorded ==
    pc = "record" /\ result \in {"ok", "error"} /\ faults = 0 => status \in Ended

\* A batch committed after the cancellation is followed by the refresh that sees it.
LateBatchIsLast ==
    /\ status # "cancelled" => late = 0
    /\ late > 0 => \/ pc = "flushed"
                   \/ pc = "record" /\ result # "interrupted"
                   \/ pc = "idle" /\ job # "queued"

RInv ==
    /\ TypeOK
    /\ JobMatchesHandler
    /\ CountersMatchRows
    /\ PlanIsUnscored
    /\ SucceededIsComplete
    /\ OutcomeRecorded
    /\ NoRunLeftBehind
    /\ LateBatchIsLast
    /\ CancelStopsAtBoundary

--------------------------------------------------------------------------------
(* Counting rows.                                                          *)

LEMMA CountIsNat ==
  ASSUME NEW S \in SUBSET Parcels
  PROVE  IsFiniteSet(S) /\ Cardinality(S) \in Nat
  BY RunAssumption, FS_Subset, FS_CardinalityType

LEMMA TallyType == Tally(row) \in [processed : Nat, candidates : Nat, skipped : Nat]
  BY CountIsNat DEF Tally

LEMMA CountDisjoint ==
  ASSUME NEW S \in SUBSET Parcels, NEW T \in SUBSET Parcels, S \cap T = {}
  PROVE  Cardinality(S \cup T) = Cardinality(S) + Cardinality(T)
  <1>1. Cardinality(S \cup T) = Cardinality(S) + Cardinality(T) - Cardinality(S \cap T)
    BY CountIsNat, FS_Union
  <1>2. Cardinality(S \cap T) = 0
    BY FS_EmptySet
  <1> QED BY <1>1, <1>2, CountIsNat

\* A batch of parcels that have no row yet adds its own counts to the tally.
LEMMA FlushKeepsTally ==
  ASSUME TypeOK, CountersMatchRows, PlanIsUnscored, FlushBatch
  PROVE  CountersMatchRows'
  <1> DEFINE B == BatchOf(todo)
  <1>1. PICK v \in [B -> Verdicts] :
           /\ row' = [p \in Parcels |-> IF p \in DOMAIN v THEN v[p] ELSE row[p]]
           /\ counts' = CountsWith(v)
    BY DEF FlushBatch
  <1>2. B \subseteq Parcels /\ B \cap Scored = {}
    BY DEF BatchOf, TypeOK, PlanIsUnscored, FlushBatch, Scored
  <1>3. ASSUME NEW x \in {"candidate", "skipped"}
        PROVE  Cardinality({p \in Parcels : row'[p] = x})
                 = Cardinality({p \in Parcels : row[p] = x}) + Cardinality({p \in B : v[p] = x})
    <2>1. {p \in Parcels : row'[p] = x} = {p \in Parcels : row[p] = x} \cup {p \in B : v[p] = x}
      BY <1>1, <1>2 DEF Scored
    <2>2. {p \in Parcels : row[p] = x} \cap {p \in B : v[p] = x} = {}
      BY <1>2 DEF Scored
    <2> QED BY <1>2, <2>1, <2>2, CountDisjoint
  <1>4. Cardinality({p \in Parcels : row'[p] # "none"})
          = Cardinality({p \in Parcels : row[p] # "none"}) + Cardinality(B)
    <2>1. {p \in Parcels : row'[p] # "none"} = {p \in Parcels : row[p] # "none"} \cup B
      BY <1>1, <1>2 DEF Scored, Verdicts
    <2> QED BY <1>2, <2>1, CountDisjoint DEF Scored
  <1> QED BY <1>1, <1>3, <1>4 DEF CountersMatchRows, Tally, CountsWith, CountOf

--------------------------------------------------------------------------------

LEMMA InitRInv == Init => RInv
  <1> SUFFICES ASSUME Init PROVE RInv OBVIOUS
  <1>1. TypeOK
    <2>1. Zero \in [processed : Nat, candidates : Nat, skipped : Nat]
      BY DEF Zero
    <2>2. faults \in 0..MaxFaults /\ late \in Nat
      BY RunAssumption DEF Init
    <2>3. row \in [Parcels -> Verdicts \cup {"none"}] /\ asked \in [Admins -> BOOLEAN]
      BY DEF Init
    <2> QED BY <2>1, <2>2, <2>3 DEF Init, TypeOK, Active
  <1>2. CountersMatchRows
    <2>1. \A x : {p \in Parcels : row[p] # "none"} = {} /\ {p \in Parcels : row[p] = "candidate"} = {}
                  /\ {p \in Parcels : row[p] = "skipped"} = {}
      BY DEF Init
    <2> QED BY <2>1, FS_EmptySet DEF Init, CountersMatchRows, Tally, Zero
  <1>3. /\ JobMatchesHandler /\ PlanIsUnscored /\ SucceededIsComplete /\ OutcomeRecorded
        /\ NoRunLeftBehind /\ LateBatchIsLast /\ CancelStopsAtBoundary
    BY DEF Init, JobMatchesHandler, PlanIsUnscored, SucceededIsComplete, OutcomeRecorded,
           NoRunLeftBehind, LateBatchIsLast, CancelStopsAtBoundary
  <1> QED BY <1>1, <1>2, <1>3 DEF RInv

LEMMA NextRInv == RInv /\ [Next]_vars => RInv'
  <1> SUFFICES ASSUME RInv, [Next]_vars PROVE RInv' OBVIOUS
  <1> USE RunAssumption
      DEF RInv, TypeOK, JobMatchesHandler, PlanIsUnscored, SucceededIsComplete, OutcomeRecorded,
          NoRunLeftBehind, LateBatchIsLast, CancelStopsAtBoundary,
          Active, Ended, vars, dbVars, handlerVars
  <1>1. UNCHANGED <<row, counts>> => CountersMatchRows' /\ Scored' = Scored
    BY DEF CountersMatchRows, Tally, Scored
  <1>2. CASE CreateRun
    BY <1>1, <1>2 DEF CreateRun
  <1>3. ASSUME NEW a \in Admins, CancelRead(a) PROVE RInv'
    BY <1>1, <1>3 DEF CancelRead
  <1>4. ASSUME NEW a \in Admins, CancelCommit(a) PROVE RInv'
    BY <1>1, <1>4 DEF CancelCommit
  <1>5. CASE Claim
    BY <1>1, <1>5 DEF Claim, Claimable
  <1>6. CASE Open
    BY <1>1, <1>6 DEF Open, Startable, HandlerEnds
  <1>7. CASE Start
    <2>1. CountersMatchRows' /\ Scored' = Scored /\ counts' = counts
      BY <1>7 DEF Start, Remaining, CountersMatchRows, Tally, Scored
    <2>2. TypeOK'
      BY <1>7, TallyType DEF Start, Remaining, SetStatus
    <2>3. PlanIsUnscored' /\ SucceededIsComplete'
      BY <1>7, <2>1 DEF Start, Remaining, SetStatus
    <2>4. JobMatchesHandler' /\ OutcomeRecorded' /\ NoRunLeftBehind'
      BY <1>7 DEF Start, Remaining, SetStatus
    <2>5. LateBatchIsLast' /\ CancelStopsAtBoundary'
      BY <1>7 DEF Start, Remaining, SetStatus
    <2> QED BY <2>1, <2>2, <2>3, <2>4, <2>5
  <1>8. CASE FlushBatch
    <2>1. CountersMatchRows'
      BY <1>8, FlushKeepsTally
    <2>2. BatchOf(todo) \subseteq todo
      BY DEF BatchOf
    <2>3. row' \in [Parcels -> Verdicts \cup {"none"}] /\ Scored' = Scored \cup BatchOf(todo)
      BY <1>8, <2>2 DEF FlushBatch, Scored, Verdicts
    <2>4. counts' \in [processed : Nat, candidates : Nat, skipped : Nat]
      BY <2>1, <2>3, CountIsNat DEF CountersMatchRows, Tally
    <2>5. TypeOK'
      BY <1>8, <2>3, <2>4 DEF FlushBatch
    <2>6. PlanIsUnscored'
      BY <1>8, <2>2, <2>3 DEF FlushBatch
    <2>7. SucceededIsComplete'
      <3>1. ~(status = "succeeded")
        BY <1>8 DEF FlushBatch, Scored
      <3> QED BY <1>8, <3>1 DEF FlushBatch
    <2>8. JobMatchesHandler' /\ OutcomeRecorded' /\ NoRunLeftBehind'
      BY <1>8 DEF FlushBatch
    <2>9. LateBatchIsLast' /\ CancelStopsAtBoundary'
      BY <1>8 DEF FlushBatch
    <2> QED BY <2>1, <2>5, <2>6, <2>7, <2>8, <2>9
  <1>9. CASE AfterBatch
    BY <1>1, <1>9 DEF AfterBatch, SeesCancel, HandlerEnds
  <1>10. CASE Succeed
    <2>1. Scored = Parcels /\ counts.processed = Cardinality(Parcels)
      BY <1>10 DEF Succeed, LoopDone, CountersMatchRows, Tally, Scored
    <2> QED BY <1>1, <1>10, <2>1 DEF Succeed, HandlerEnds, SetStatus
  <1>11. CASE RecordJob
    <2>1. job' \in {"succeeded", "queued", "failed"} /\ (job' = "queued" <=> result = "interrupted")
      BY <1>11 DEF RecordJob
    <2> QED BY <1>1, <1>11, <2>1 DEF RecordJob
  <1>12. CASE Fail
    BY <1>1, <1>12 DEF Fail, MarkRunFailed, HandlerEnds, SetStatus
  <1>13. CASE Signal \/ Crash \/ FailUnrecorded
    <2>1. CASE Signal
      BY <1>1, <2>1 DEF Signal
    <2>2. CASE Crash
      <3>1. pc = "idle" <=> FALSE
        BY <2>2 DEF Crash
      <3>2. faults' \in 0..MaxFaults /\ faults' > 0
        BY <2>2 DEF Crash
      <3> QED BY <1>1, <2>2, <3>1, <3>2 DEF Crash
    <2>3. CASE FailUnrecorded
      BY <1>1, <2>3 DEF FailUnrecorded, HandlerEnds
    <2> QED BY <1>13, <2>1, <2>2, <2>3
  <1>14. CASE UNCHANGED vars
    BY <1>1, <1>14
  <1> QED BY <1>2, <1>3, <1>4, <1>5, <1>6, <1>7, <1>8, <1>9, <1>10, <1>11, <1>12, <1>13, <1>14
          DEF Next, Handler

--------------------------------------------------------------------------------

\* Every state a run reaches satisfies the inductive invariant.
THEOREM Invariance == Spec => []RInv
  <1>1. Init => RInv BY InitRInv
  <1>2. RInv /\ [Next]_vars => RInv' BY NextRInv
  <1> QED BY <1>1, <1>2, PTL DEF Spec

\* Every variable of the run keeps its type.
THEOREM TypeCorrect == Spec => []TypeOK
  BY Invariance, PTL DEF RInv

\* The counters a run shows are the counts of its rows, for any layer and batch size,
\* whatever crashes, interruptions and cancellations happen.
THEOREM CountersExact == Spec => []CountersMatchRows
  BY Invariance, PTL DEF RInv

\* A resumed handler plans exactly the parcels that have no row.
THEOREM ResumeExact == Spec => []PlanIsUnscored
  BY Invariance, PTL DEF RInv

\* A run that says it succeeded scored every parcel of its layer.
THEOREM SuccessComplete == Spec => []SucceededIsComplete
  BY Invariance, PTL DEF RInv

\* A cancelled run commits at most the batch under way.
THEOREM CancelBounded == Spec => []CancelStopsAtBoundary
  BY Invariance, PTL DEF RInv

\* A job that has ended leaves its run ended, unless the database failed.
THEOREM NoOrphanRun == Spec => []NoRunLeftBehind
  BY Invariance, PTL DEF RInv
--------------------------------------------------------------------------------
(* The use of the queue.                                                   *)

LEMMA LedgerStutter ==
  ASSUME job' = job, pc' = "idle" <=> pc = "idle"
  PROVE  UNCHANGED Ledger!vars
  BY DEF Ledger!vars, LedgerPhase, LedgerTries, LedgerHolder

\* The ledger after a step that leaves the job with phase p, t tries and holders h.
LEMMA LedgerStep ==
  ASSUME NEW p, NEW t, NEW h,
         LedgerPhase' = [j \in {"run"} |-> p], LedgerTries' = [j \in {"run"} |-> t],
         LedgerHolder' = [j \in {"run"} |-> h]
  PROVE  /\ LedgerPhase' = [LedgerPhase EXCEPT !["run"] = p]
         /\ LedgerTries' = [LedgerTries EXCEPT !["run"] = t]
         /\ LedgerHolder' = [LedgerHolder EXCEPT !["run"] = h]
  BY DEF LedgerPhase, LedgerTries, LedgerHolder

LEMMA NextLedger ==
  ASSUME RInv, [Next]_vars
  PROVE  [Ledger!Next]_Ledger!vars
  <1> USE DEF vars, dbVars, handlerVars
  <1>0. /\ pc # "idle" => job = "running"
        /\ status = "absent" <=> job = "absent"
        /\ pc = "record" => result \in {"ok", "interrupted", "error"}
    BY DEF RInv, TypeOK, JobMatchesHandler
  <1>1. CASE CreateRun
    <2>1. Ledger!Submit("run")
      <3>1. job = "absent" /\ job' = "queued" /\ pc' = pc /\ pc = "idle"
        BY <1>0, <1>1 DEF CreateRun
      <3> QED BY <3>1 DEF Ledger!Submit, LedgerPhase, LedgerTries, LedgerHolder
    <2> QED BY <2>1 DEF Ledger!Next
  <1>2. CASE Claim
    <2>1. /\ LedgerPhase["run"] = "waiting" /\ LedgerPhase' = [j \in {"run"} |-> "active"]
          /\ LedgerTries["run"] = 0 /\ LedgerTries' = [j \in {"run"} |-> 1]
          /\ LedgerHolder' = [j \in {"run"} |-> {"worker"}]
      BY <1>2 DEF Claim, Claimable, LedgerPhase, LedgerTries, LedgerHolder
    <2>2. Ledger!Start("run", {"worker"})
      BY <2>1, LedgerStep DEF Ledger!Start
    <2> QED BY <2>2 DEF Ledger!Next
  <1>3. CASE RecordJob
    <2>1. job = "running" /\ pc # "idle" /\ pc' = "idle"
      BY <1>0, <1>3 DEF RecordJob
    <2>2. CASE result = "interrupted"
      <3>1. job' = "queued"
        BY <1>3, <2>2 DEF RecordJob
      <3>2. /\ LedgerPhase["run"] = "active" /\ LedgerPhase' = [j \in {"run"} |-> "waiting"]
            /\ LedgerTries["run"] = 1 /\ LedgerTries' = [j \in {"run"} |-> 0]
            /\ LedgerHolder["run"] # {} /\ LedgerHolder' = [j \in {"run"} |-> {}]
        BY <2>1, <3>1 DEF LedgerPhase, LedgerTries, LedgerHolder
      <3>3. Ledger!GiveBack("run")
        BY <3>2, LedgerStep DEF Ledger!GiveBack, Ledger!Release
      <3> QED BY <3>3 DEF Ledger!Next
    <2>3. CASE result \in {"ok", "error"}
      <3>1. job' \in {"succeeded", "failed"}
        BY <1>3, <2>3 DEF RecordJob
      <3>2. Ledger!End("run")
        BY <2>1, <3>1 DEF Ledger!End, Ledger!Release, Ledger!Ended,
             LedgerPhase, LedgerTries, LedgerHolder
      <3> QED BY <3>2 DEF Ledger!Next
    <2> QED BY <1>0, <1>3, <2>2, <2>3 DEF RecordJob
  <1>4. CASE Crash
    <2>1. Ledger!Vanish("run")
      BY <1>4 DEF Crash, Ledger!Vanish,
             LedgerPhase, LedgerTries, LedgerHolder
    <2> QED BY <2>1 DEF Ledger!Next
  <1>5. CASE \/ \E a \in Admins : CancelRead(a) \/ CancelCommit(a)
             \/ Open \/ Start \/ FlushBatch \/ AfterBatch \/ Succeed \/ Fail
             \/ Signal \/ FailUnrecorded
    BY <1>5, LedgerStutter
       DEF CancelRead, CancelCommit, Open, Start, FlushBatch, AfterBatch, Succeed, Fail,
           Signal, FailUnrecorded, HandlerEnds
  <1>6. CASE UNCHANGED vars
    BY <1>6, LedgerStutter
  <1> QED BY <1>1, <1>2, <1>3, <1>4, <1>5, <1>6 DEF Next, Handler

\* Whatever a run does, its job is used as the queue's specification allows: queued once,
\* claimed by one worker, and ended or given back by that worker alone (JobLedger; run.py,
\* worker.py:57-73).
THEOREM RunUsesLedger == Spec => UsesLedger
  <1>1. Init => Ledger!Init
    BY DEF Init, Ledger!Init,
             LedgerPhase, LedgerTries, LedgerHolder
  <1>2. RInv /\ [Next]_vars => [Ledger!Next]_Ledger!vars
    BY NextLedger
  <1> QED BY <1>1, <1>2, Invariance, PTL DEF Spec, UsesLedger, Ledger!Spec
================================================================================
