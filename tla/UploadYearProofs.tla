---------------------------- MODULE UploadYearProofs ---------------------------
(***************************************************************************)
(* What holds of an upload year for any number of files, finalizations,    *)
(* stops, deaths and refused deletions.                                    *)
(***************************************************************************)
EXTENDS UploadYear, TLAPS

Busy == {"fetched", "put", "stored"}

\* One job runs exactly while a handler is at work, and then the year is processing.
OneJob ==
    /\ pc # "idle" <=> \E r \in Requests : job[r] = "running"
    /\ \A r, q \in Requests : job[r] = "running" /\ job[q] = "running" => r = q
    /\ pc # "idle" => year = "processing"
    /\ \A r \in Requests : fin[r] # "done" => job[r] = "absent"

\* What the handler has still to do is pending, but for a file it has just stored.
PlanIsPending ==
    /\ pc \in Busy => file \in todo
    /\ \A f \in todo : asset[f] = IF pc = "stored" /\ f = file THEN "ready" ELSE "pending"

\* An original leaves S3 only when its file was stored; a COG is there before its row is.
ObjectsKept ==
    /\ \A f \in Files : reg[f] # "done" => asset[f] = "absent"
    /\ \A f \in Files : asset[f] \in {"absent", "pending"} => f \in originals
    /\ \A f \in Files : asset[f] = "ready" => f \in cogs
    /\ pc \in {"put", "stored"} => file \in cogs

\* The handler has listed every file its request was committed for.
BatchListed ==
    \A r \in Requests :
        /\ \A f \in asked[r] : reg[f] = "done"
        /\ job[r] = "running" /\ pc # "listing" =>
              \A f \in asked[r] : asset[f] = "pending" => f \in todo

UInv ==
    /\ TypeOK
    /\ OneJob
    /\ PlanIsPending
    /\ ObjectsKept
    /\ BatchListed
    /\ ReadyYearHasImagery

LEMMA InitUInv == Init => UInv
  BY UploadYearAssumption
  DEF Init, UInv, TypeOK, OneJob, PlanIsPending, ObjectsKept, BatchListed, ReadyYearHasImagery,
      Busy, YearStatuses, AssetStatuses, JobStates

LEMMA NextUInv == UInv /\ [Next]_vars => UInv'
  <1> SUFFICES ASSUME UInv, [Next]_vars PROVE UInv' OBVIOUS
  <1> USE UploadYearAssumption
      DEF UInv, TypeOK, OneJob, PlanIsPending, ObjectsKept, BatchListed, ReadyYearHasImagery,
          Busy, YearStatuses, AssetStatuses, JobStates, files, handler, bounds
  <1>1. CASE CreateYear
    BY <1>1 DEF CreateYear
  <1>2. ASSUME NEW f \in Files, RegisterRead(f) PROVE UInv'
    BY <1>2 DEF RegisterRead
  <1>3. ASSUME NEW f \in Files, RegisterCommit(f) PROVE UInv'
    BY <1>3 DEF RegisterCommit
  <1>4. ASSUME NEW r \in Requests, FinalizeRead(r) PROVE UInv'
    BY <1>4 DEF FinalizeRead
  <1>5. ASSUME NEW r \in Requests, FinalizeCommit(r) PROVE UInv'
    BY <1>5 DEF FinalizeCommit, Pending
  <1>6. ASSUME NEW r \in Requests, JobStart(r) PROVE UInv'
    <2>1. /\ job' \in [Requests -> JobStates]
          /\ pc' \in {pc, "listing"}
          /\ UNCHANGED <<year, asset, originals, cogs, reg, fin, asked, todo, file, stops, faults, refusals>>
      BY <1>6 DEF JobStart
    <2>2. OneJob'
      BY <1>6 DEF JobStart
    <2>3. BatchListed'
      BY <1>6 DEF JobStart
    <2>4. pc = "idle"
      BY <1>6 DEF JobStart
    <2> QED BY <2>1, <2>2, <2>3, <2>4
  <1>7. ASSUME NEW f \in Files, Fetch(f) PROVE UInv'
    BY <1>7 DEF Fetch, CopyOriginal
  <1>8. ASSUME NEW f \in Files, Reject(f) PROVE UInv'
    BY <1>8 DEF Reject, NextFile
  <1>9. CASE List
    BY <1>9 DEF List, ToProcess, Pending
  <1>10. CASE PutCog
    BY <1>10 DEF PutCog
  <1>11. CASE CommitAsset
    BY <1>11 DEF CommitAsset
  <1>12. CASE DeleteOriginal
    BY <1>12 DEF DeleteOriginal, NextFile
  <1>13. CASE DeleteRefused
    BY <1>13 DEF DeleteRefused, NextFile
  <1>14. CASE Conclude
    BY <1>14 DEF Conclude, JobEnds, Verdict
  <1>15. CASE Fail
    BY <1>15 DEF Fail, JobEnds
  <1>16. CASE Interrupt
    BY <1>16 DEF Interrupt, JobEnds, AfterStop
  <1>17. CASE Die
    BY <1>17 DEF Die, JobEnds
  <1>18. CASE UNCHANGED vars
    BY <1>18 DEF vars
  <1> QED BY <1>1, <1>2, <1>3, <1>4, <1>5, <1>6, <1>7, <1>8, <1>9, <1>10, <1>11, <1>12, <1>13,
             <1>14, <1>15, <1>16, <1>17, <1>18 DEF Next, JobStep

THEOREM UploadInvariant == Spec => []UInv
  BY InitUInv, NextUInv, PTL DEF Spec

\* The variables keep their types.
THEOREM UploadTyped == Spec => []TypeOK
  <1>1. UInv => TypeOK
    BY DEF UInv
  <1> QED BY <1>1, UploadInvariant, PTL

\* At every commit, stop or death the object a row points to is in S3.
THEOREM ImagesKept == Spec => []NoImageLost
  <1>1. UInv => NoImageLost
    BY DEF UInv, ObjectsKept, NoImageLost
  <1> QED BY <1>1, UploadInvariant, PTL

\* A year is ready only with imagery.
THEOREM ReadyHasImagery == Spec => []ReadyYearHasImagery
  <1>1. UInv => ReadyYearHasImagery
    BY DEF UInv
  <1> QED BY <1>1, UploadInvariant, PTL

\* A year that is processing has a job that will go on with it, or one whose worker died
\* (NoYearLeftBehind; finalize_year, ingest_upload).
THEOREM YearHasJob == Spec => []NoYearLeftBehind
  <1>1. Init => NoYearLeftBehind
    BY DEF Init, NoYearLeftBehind
  <1>2. UInv /\ NoYearLeftBehind /\ [Next]_vars => NoYearLeftBehind'
    <2> SUFFICES ASSUME UInv, NoYearLeftBehind, [Next]_vars, year' = "processing"
                 PROVE  \E r \in Requests : job'[r] \in {"queued", "running", "dead"}
      BY DEF NoYearLeftBehind
    <2> USE DEF UInv, TypeOK, JobStates, NoYearLeftBehind
    <2>1. ASSUME NEW r \in Requests, FinalizeCommit(r)
          PROVE  \E q \in Requests : job'[q] \in {"queued", "running", "dead"}
      BY <2>1 DEF FinalizeCommit
    <2>2. ASSUME NEW r \in Requests, JobStart(r)
          PROVE  \E q \in Requests : job'[q] \in {"queued", "running", "dead"}
      BY <2>2 DEF JobStart
    <2>3. ASSUME NEW state \in {"queued", "dead"}, JobEnds(state)
          PROVE  \E q \in Requests : job'[q] \in {"queued", "running", "dead"}
      BY <2>3 DEF JobEnds
    <2>4. CASE UNCHANGED <<year, job>>
      BY <2>4
    <2>5. ~Conclude /\ ~Fail /\ ~CreateYear
      BY DEF Conclude, Fail, Verdict, CreateYear
    <2> QED BY <2>1, <2>2, <2>3, <2>4, <2>5
          DEF vars, Next, JobStep, RegisterRead, RegisterCommit, FinalizeRead, Fetch, Reject, List,
              PutCog, CommitAsset, DeleteOriginal, DeleteRefused, Interrupt, AfterStop, Die
  <1> QED BY <1>1, <1>2, UploadInvariant, PTL DEF Spec

\* A job that makes the year ready has judged every file it was asked for.
THEOREM BatchJudged == Spec => ReadyJudgesBatch
  <1>1. UInv /\ [Next]_vars =>
          [\A r \in Requests : job[r] = "running" /\ job'[r] = "ended" /\ year' = "ready"
                                 => \A f \in asked[r] : asset[f] # "pending"]_vars
    <2> SUFFICES ASSUME UInv, Next, NEW r \in Requests,
                        job[r] = "running", job'[r] = "ended", year' = "ready",
                        NEW f \in asked[r], asset[f] = "pending"
                 PROVE  FALSE
      BY DEF vars
    <2>1. pc # "idle" /\ year = "processing" /\ f \in Files
      BY DEF UInv, TypeOK, OneJob
    <2>2. ~Conclude
      BY <2>1 DEF UInv, BatchListed, Conclude, AllProcessed
    <2> QED BY <2>1, <2>2
          DEF UInv, TypeOK, Next, JobStep, CreateYear, RegisterRead, RegisterCommit, FinalizeRead,
              FinalizeCommit, JobStart, Fetch, Reject, List, PutCog, CommitAsset, DeleteOriginal,
              DeleteRefused, Fail, Interrupt, Die
  <1> QED BY <1>1, UploadInvariant, PTL DEF Spec, ReadyJudgesBatch

\* Only a refused deletion takes a stored file back.
THEOREM StoredKept == Spec => StoredLostOnlyByRefusal
  <1>1. UInv /\ [Next]_vars =>
          [\A f \in Files : asset[f] = "ready"
                              => asset'[f] = "ready" \/ refusals' > refusals]_vars
    <2> SUFFICES ASSUME UInv, Next, NEW f \in Files, asset[f] = "ready"
                 PROVE  asset'[f] = "ready" \/ refusals' > refusals
      BY DEF vars
    <2> USE DEF UInv, TypeOK, files, bounds
    <2>1. ASSUME NEW g \in Files, RegisterCommit(g) PROVE asset'[f] = "ready"
      BY <2>1 DEF RegisterCommit, ObjectsKept
    <2>2. ASSUME NEW g \in Files, Reject(g) PROVE asset'[f] = "ready"
      BY <2>2 DEF Reject, PlanIsPending, Busy
    <2>3. CASE CommitAsset
      BY <2>3 DEF CommitAsset
    <2>4. CASE DeleteRefused
      BY UploadYearAssumption, <2>4 DEF DeleteRefused
    <2> QED BY <2>1, <2>2, <2>3, <2>4
          DEF Next, JobStep, CreateYear, RegisterRead, FinalizeRead, FinalizeCommit, JobStart,
              Fetch, List, PutCog, DeleteOriginal, Conclude, Fail, Interrupt, Die
  <1> QED BY <1>1, UploadInvariant, PTL DEF Spec, StoredLostOnlyByRefusal
================================================================================
