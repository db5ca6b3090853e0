# Verification of ptax-finder

ptax-finder lets a county upload its parcels and imagery of two years, and scores every parcel for
structures that appeared in between. The program is a FastAPI application and one worker process
over a PostgreSQL database, which is also the job queue, and an S3 bucket; a React frontend talks to
the application; Cognito holds the identities of its users; and `ptax-eval` measures the detector on
a developer's machine. This directory holds TLA+ specifications of the parts where several of these
actors write the same state, or where an algorithm is easy to get wrong at its edges, TLC
configurations that check them, and proofs that TLAPS checks. Paths below are relative to
`src/backend/src/ptax/` unless they start with `src/`.

## 1. The system

| Component | State | Operations | What is hard |
|---|---|---|---|
| Job queue and worker (`jobs/queue.py`, `worker.py`) | `jobs` rows with their locks; per process the job in hand and the stop flag | enqueue, claim (SKIP LOCKED), run, succeed / requeue / fail, SIGTERM | two claimers, a claim rolled back, a deploy during a long job, a result that cannot be recorded |
| Comparison runs (`detection/run.py`, `api/runs.py`) | `runs`, `run_parcels`; the handler's plan | create, cancel, execute in batches of 200 | resuming after a crash, cancelling at any moment, counters |
| Parcel layers (`parcels/ingest.py`, `api/parcel_layers.py`) | `parcel_layers`, `parcels`, `tenants.current_parcel_layer_id` | create, choose the field, inspect, ingest | two requests for one layer, all-or-nothing copy |
| Footprint and coverage report (`parcels/footprint.py`, `imagery/ingest.py`) | `parcel_layers.footprint`, the coverage columns of the years | fill, compute, recompute after an activation | a footprint or a layer that was read before another became current, a recomputation that fails |
| NAIP catalog (`imagery/naip.py`) | none | paged search | links that loop, the page limit, items that are not usable or listed twice |
| NAIP ingest (`imagery/ingest.py`, `api/imagery.py`) | `imagery_years`, `imagery_assets` | order, retry, copy tile by tile | resuming exactly, retries that overlap, a catalog that changed since |
| Upload years (same files, `api/uploads.py`) | the same tables, and two kinds of S3 objects | create, register, finalize, process | database and S3 are not written together; requests during a job |
| Change detector (`detection/detector.py`, `geometry.py`) | none (pure); a union-find forest while it runs | fit, compare, open, clean, largest structure | borders, even spans, a blob whose arms join late |
| Accounts (`api/users.py`, `auth/cognito.py`, `cli.py`) | `users`, the Cognito pool | invite, create-user, seed-local, and their undo | two stores without a transaction, three commands that may meet |
| Token verification (`auth/jwt.py`, `auth/deps.py`, `api/me.py`) | the cached signing keys | get a key, verify, find the user | keys that rotate and retire, a cache that is an hour old |
| Session of the frontend (`src/frontend/src/api/client.ts`, `auth/AuthContext.tsx`, `pages/LoginPage.tsx`) | the tokens, in memory and in the tab's storage; the user shown; the login form | sign in, sign out, reload, call, refresh | calls, refreshes and answers to the login form that overlap each other, a sign-out or another sign-in |
| Evaluation harness (`eval/`) | the set file, the imagery cache and its manifest, results in memory | build, fetch, score, chips | page boundaries, a page cut short by the service, a fetch that was cut, ties, skipped parcels, corrected strata |
| Migrations (`migrate.py`) | schema version, advisory lock | migrate | two tasks starting together |
| Infrastructure (`src/infra`) | none | declarations | fixes the number of workers and how they start |

How they interact. A request handler reads rows, decides, and commits; it holds no lock between the
two, so any other request or job may commit in between. In the same commit it may insert a row in
`jobs`. The worker claims the oldest queued job, runs its handler (which commits as it goes) and
records the end of the job in a commit of its own. A deploy sends SIGTERM; long handlers poll a flag
at their commit boundaries and raise `JobInterrupted`, and the job is queued again. Nothing looks
for jobs left `running` by a process that died
(`src/docs/plans/2026-09-21-imagery-and-detection.md:25` defers it). A layer that becomes current
queues the recomputation of every ready year's report. A call of the frontend carries a token that
Cognito issued; the API checks it with the keys it has cached, and finds its user by the `sub` that
the account's operation stored. The harness reads the same catalog and detector as the application,
but shares no state with it.

What makes each part correct: no job is run by two workers and attempts are charged exactly; a run's
counters, rows and plan agree across restarts; a county's current layer is whole, and the reports
come to describe it; a ready year is complete and no image is lost; a row of `users` is bound to the
identity of its address; a tab acts for the user it shows; a figure of the harness depends on what
it measures and not on paging, sorting or an interruption; every queued thing comes to rest.

## 2. Modules

| Module | Models | State and actions against the code |
|---|---|---|
| `JobLedger` | what the queue promises | `phase`, `tries`, `holder`; the abstract specification |
| `JobQueue` | queue and workers | `status`, `attempts`, `created`, `todo` are columns of a job and the batches it has left; `pc`, `cur`, `outcome`, `stop`, `grace` are a worker process. `ClaimLock`/`ClaimCommit` are the two halves of `claim_next`, `Batch`, `Return`, `Raise` a handler, `Record` the end of `run_once`, `ClaimBroken`/`RecordBroken` what `tick` swallows |
| `RunExecution` | one run | `status`, `row`, `counts` are the tables, `seen` and `todo` the handler's locals, `asked` a cancel request between its read and its commit. One action per commit of `execute_run` |
| `ParcelLayers` | a county's layers | `IngestRead`/`IngestCommit` are the halves of the request; the ingest job is one read and one commit |
| `Coverage` | `ParcelLayers` with the footprint, the imagery years and their reports | A report is known by what it was computed from: the ground it covers and the layer whose parcels it counts. Each job reads the footprint in one step (`YearStart`, `RecomputeStart`) and writes reports in a later one; a recomputation may also fail (`RecomputeFails`), and is not retried. `stale` (history) holds the years whose last report was written by a job that a new layer had overtaken. `LayerStep` is a step of `ParcelLayers` with what an activation queues in the same commit |
| `NaipCatalog` | one search of the catalog | A catalog is a sequence of pages with links; `Follow` is the loop of `_search`, `SearchEnds` its page limit, `Usable` what `_parse_item` and the filters keep. A page lists items in order, some perhaps twice, and `Times` counts how often a search returns one, because the code keeps a list. `Listed` is the reference: what is listed on the pages that links reach |
| `NaipIngest` | one NAIP year, over `NaipCatalog` | `OrderRead`/`OrderCommit`; the job reads the year, opens it, searches, copies a tile per commit, finishes or fails. `todo` and the tiles stored are counts of each item; `most` (history) is how often one search returned it at most. `CatalogChanges` is the service's |
| `UploadYear` | one upload year | requests in two halves; the job puts the COG, commits the asset and deletes the original in three steps |
| `Structures` | one comparison of a parcel | an action per turn of each loop of `compare`, `_open` and `_largest_structure`: `Measure`, `ErodeOnce`, `DilateOnce`, `Unite`, `Climb`, `FoundA`, `FoundB`, `Pick`, `Judge` |
| `Accounts` | Cognito and the `users` table | `pool[e]` is the identity of an address, `users[e]` the one its row is bound to; an operation goes through `Begin`, `CreateIdentity`, `SetPassword`, `Save`, `Undo`, and may be cut anywhere (`Cut`). `takenOver` (history) holds the identities that a seed found existing and took over while the operation that created them was under way |
| `SignIn` | a tab, the API's check, the pool's keys; over `Accounts` | `call[c]` is an `apiFetch` between its awaits: refreshing, sent, answered. `form` is the login page's submit, which can be made as soon as the page shows, also while `/api/me` is under way, and blocks only another submit; `left` holds the submits of login pages that were left before Cognito answered. `Verify` is `verify_access_token` with `JWKSCache.get_key` and the lookup of the user; `Rotate`, `Retire`, `HourPasses` and `TokensAge` are Cognito and the clock |
| `EvalSet` | `ptax-eval build` | `FetchPage` is a turn of the loop of `fetch_parcels`, `Sample` is `sample_strata`. `Answers` are the pages the service may give: the true one, or any part from its start, down to the empty one that an answer without features is taken for; `short` (history) says that one was cut |
| `EvalCache` | `ptax-eval fetch` | files and the manifest are `absent`, `partial` or `whole` on disk, because they are written in place; `FetchCut` may happen anywhere. `Readable` is all that `score` and `chips` ask of it; `Unreadable` is when reading raises later |
| `Evaluation` | `score` and `chips`, over the two | the figures of `eval/metrics.py` as operators over the results (`Summarise`, `AveragePrecision`, `TopOfRanking`), the labels, the audit, and the contact sheets with their index: `_chip_sheets` keeps the tiles and the rows of the index apart, and so does `SheetsOf`. A score that meets an unreadable file ends without results (`ScoreFails`) |
| `MC*` | instances for TLC | sets of model values, inputs, symmetry |
| `*Proofs` | theorems | extend the module they are about, and `TLAPS` |

`RunExecution` takes from the queue only that a queued job is claimed and that its end is recorded;
`RunUsesLedger` proves that this use is one that `JobLedger` allows, and `QueueImplementsLedger`
that `JobQueue` provides it. `ParcelLayers`, `NaipIngest` and `UploadYear` name a job after the
request that queued it and need the same two facts. `Coverage` extends `ParcelLayers` by
conjunction, and `CoverageKeepsLayers` proves that it adds nothing to what layers may do, so what is
proved of the layers alone holds of the whole. `SignIn` needs one thing of `Accounts`,
`RowsAreBound`; so that their states need not be multiplied, a behaviour either makes accounts, or
opens a tab over accounts that `Accounts` could have made.

Each operator commented "Faulty variant" is a plausible mistake in the definition that follows it;
it is used nowhere in the specification. `PROJECT.json` pairs it with the property that notices it.

## 3. Runs

| Run | Question | Bounds |
|---|---|---|
| `queue` | `ExclusiveClaim`, `AttemptsCharged`, `SurvivesDeploys`, `ImplementsLedger`, `EveryJobEnds` | 2 workers, 2 jobs, one of which does not poll, 3 attempts, 2 batches, unlimited deploys, 1 fault |
| `run_execution` | counters, completeness, cancellation, no run left behind, `RunEnds` | 4 parcels in batches of 3, 2 admins, unlimited stops, 1 fault |
| `layers` | `CurrentIsWhole`, `OnlyWholeIngests`, `ParcelsNeverChange`, `ReportsAreCurrent`, `LayersSettle` | 2 layers, 2 overlapping requests, 4 columns, 1 imagery year ordered without limit, several workers, 1 death |
| `naip` | `NoDuplicateTiles` (no item stored more often than a search returned it), ready is complete, `ReadyLeftOnlyLate`, `YearSettles` | 3 items of which some are listed twice, 5 catalogs, 1 change of catalog, 2 pages followed, 3 overlapping orders, 2 deploys, 1 death |
| `upload` | no image lost, ready has imagery, the files a job was asked for are judged, `StoredLostOnlyByRefusal`, `YearSettles` | 3 files, 2 finalizations, 2 deploys, 1 death, 1 refused deletion |
| `structures` | opening, forest and verdict against their definitions, `CompareEnds` | every mask of 3 x 4 pixels, 3 resolutions, 8 coverages |
| `sign_in` | `RowsAreBound`, `UndoTakesItsOwn`; `TabIsOneUser`, `PublishedNeverRefused`, `RetiredNotAccepted` | two invitations and a seed for one address, a create-user for another, crashes and a reset; a tab with 2 concurrent calls, 2 users, keys that rotate and retire |
| `evaluation` | `SetIsDrawnFromAll`, `RankingFigures`, `WeightsCarryCounty`, `AuditKeepsOutcome`, `IndexNamesChips`, `FetchedIsWhole` | 4 parcel services of 3 to 7 parcels in pages of 2, quota 2, 2 scores, every labelling, every single correction, every set of parcels with imagery; one item to fetch, with any number of cuts, prunings and failed scores |

Four runs expect a violation; each shows a behaviour of the code that a sentence of the repository
excludes (the quotes are in `PROJECT.json`, "findings"):

* `queue_module_copy`: started as `python -m ptax.worker`, the worker sets the flag of module
  `__main__` on SIGTERM, and the handlers poll the flag of a second copy, `ptax.worker`. They never
  stop, and are killed at the end of the grace period with their job `running`. Run `queue` takes
  the intended single flag (`RunAsModule = FALSE`), to say what holds once that is so.
* `run_cancel`: a cancellation committed between the handler's read and its write is overwritten.
* `layers_twice`: two requests that both read `awaiting_field` both queue an ingest. The layer may
  then end `failed` though it is current, or hold the parcels of two columns; `CurrentIsWhole` and
  `ParcelsNeverChange` say that nothing does that but a request whose layer changed since it read it
  (`late`).
* `upload_refused`: a stored COG is marked `failed` because its original could not be deleted;
  `StoredLostOnlyByRefusal` says that nothing else takes a stored file back.

Two more disagreements are findings of passing runs, where the property is the rule that the code
does keep:

* `structures`: the docstring of `_open` keeps what is at least a span wide and erases what is
  narrower. `OpenedIsBlocks` is the rule the code follows: the squares of 2 * (span // 2) + 1
  pixels, one more than an even span, and less at the border of the grid.
* `layers`: the plan says that a report never describes a superseded layer. `ReportsAreCurrent`
  leaves out the two cases in which one does. A recomputation that fails is not tried again, and the
  years go on describing the layer before; and with two workers, a job that read the footprint of
  one layer writes its report after the recomputation for the next (`stale`). The deployed service
  has one worker, which rules the second case out; a second one is planned.

What the exceptions of the other properties leave to the code.

* `ReadyLeftOnlyLate`: a retry of a NAIP year that read `failed` may commit after another retry made
  the year `ready`.
* `ReadyJudgesBatch` speaks of the job that makes the year ready and of the files that were pending
  when it was asked for. A finalization that read the year before another one opened it may commit
  while the first one's job is past its list of files; its own job finds the year ready and returns,
  and its files stay `pending`.
* `RowsAreBound` excepts, row by row, one that is bound to an identity a seed took over from an
  operation under way (`takenOver`); every other row is bound in the same state, and
  `UndoTakesItsOwn` has no exception. So an invitation whose row conflicts with that of the seed
  deletes the identity, and leaves a row that no invitation can replace, although the retry is meant
  to be clean (`api/users.py:83`).
* `TabIsOneUser` says that the tab holds the tokens of the user it shows until a refresh or a
  `/api/me` ends whose session was over by then (`LateEnds`: no tokens, or another user's); no other
  step, in particular no sign-in from a page that was left or still loads, may part them. A refresh
  under way at a sign-out does store tokens again, and the next page load shows the user.
* `NoDuplicateTiles` leaves an item that one search returned twice stored twice: the code keeps what
  the catalog lists, and no constraint of the table forbids it.
* `SetIsDrawnFromAll` allows a set drawn from the first parcels only if the service cut a page, or
  answered without features, which the code takes for the last page.
* `FetchedIsWhole` excepts a file that the manifest named, that was deleted by hand, and whose
  rewriting was then cut.

Why the bounds are enough. The races need two requests or two workers and one row; a third request
lets a stale actor meet a finished one. Four parcels and batches of three give a full batch, a short
one, and a resumption in the middle. One fault more than none separates "never" from "only after a
fault", and is counted by the properties that allow it. The columns of a layer are two that share a
reference, one that shares none and one that yields none, so that a second copy collides, mixes or
adds nothing; the one that yields none also gives a current layer without a footprint. The catalogs
of `naip` have half the tiles, all of them on exactly as many pages as are followed with one listed
again on the second, one tile listed twice on one page, only items that are left out, and links that
loop past the limit, and one change lets an order and its job disagree. A grid of 3 by 4 pixels
holds two arms that meet below, so roots are linked under roots and paths are halved; the three
resolutions give a span of 1, of 2 (even) and of 3 pixels. In `sign_in`, two calls are enough for a
refresh to overtake another and a sign-out; a login page may be left with its submit unanswered and
another one opened; a token is good, about to expire or expired; two keys suffice for one to be
cached while the other signs. The services of `evaluation` end with a short page, with a full one
before an empty one, and past the last page allowed; a stratum has fewer, as many and more parcels
than the quota, one parcel has no year and one is out of range; with two scores there are ties,
which the average precision takes together and the top of the ranking by PID. The cache of
`evaluation` holds one item, because every state of it is met by every sample; what each item's file
and the manifest go through there is what several do, and `FetchLeavesWhole` is proved for any
number of items. The queue is checked for deadlock; everything else really ends or may rest, and the
configurations say `CHECK_DEADLOCK FALSE`.

Named bounds are constants: `MaxFaults`, `MaxStops`, `MaxRefusals`, `MaxBatches`, `MaxStamp`,
`MaxItems`, `MaxChanges`, `MaxCuts`, `MaxResets`, `MaxKeys`. `Audit` corrects one parcel.

`Evaluation` sorts a set by the number of elements that come before each one (`InOrder`), which
takes a strict and total order: best score first, equal scores by PID. The community modules' sort
is implemented in TLC and cannot be proved about.

The numbers of `Evaluation` are exact: weights are multiples of 1/`Scale`, and a rate is a pair of
sums, where the code has floats. Rounding is not modelled.

## 4. Fairness

Processes that run go on (weak fairness of a worker's or a handler's steps), and the ECS service
restarts a stopped task (weak fairness of `Boot`). `ClaimLock` is strongly fair: a deploy may
interrupt a worker before it claims, but not every time. Nothing makes an administrator act, a
deploy happen, or a fault happen. The code does not recover a job whose worker died, so the liveness
properties promise an end unless a fault occurred (`faults > 0`); `NoRunLeftBehind` and
`SurvivesDeploys` say what is left in that case.

Runs end under unlimited deploys because `execute_run` polls after a batch. The two imagery jobs
poll before each file, so an unlimited sequence of deploys could interrupt each claim before it
copies anything; their deploys are bounded by `MaxStops`. Requests in `ParcelLayers` and
`NaipIngest` that read also commit; those of `UploadYear` need not. Nothing of `SignIn` or
`Evaluation` is promised to happen, and they have no fairness.

`NaipIngest` and `UploadYear` are checked with one worker at a time, as
`src/infra/lib/compute-stack.ts:154-161` deploys it (desired 1, at most 100 %); two workers with two
orders of one year would copy its tiles twice, and could take a ready year back. `JobQueue` and
`Coverage` allow several.

## 5. Proofs

For every value of the constants, `tlapm` checks the theorems below. Each rests on an inductive
invariant, which was also checked by TLC on the instance of the module's run.

* `JobQueueProofs`. The inductive invariant `IInv` joins the types with what relates a worker to the
  job in its hands: a worker that works or records has a running job, one that has only locked a row
  has a queued one, one without a job is in no such step, and `cur` is injective on jobs.
  `ExclusiveClaim` is not inductive without it, since a claim must know that an unlocked queued job
  is in nobody's hands. From it follow `OneWorkerPerJob`, `AttemptsExact`, and
  `QueueImplementsLedger` by showing that each step maps to a step of `JobLedger` or to a stutter.
  `DeploysStrandNothing` assumes `~RunAsModule` and finitely many jobs, and adds that the grace
  period of a polling job is unused while it has not passed a batch; each fault then strands at most
  one job more.
* `RunExecutionProofs`. `RInv` ties the handler's position to the tables: the plan is the unscored
  parcels, and counters equal the tally of rows. The counting lemmas (`FlushKeepsTally`) rest on the
  library's cardinality theorems. From it follow `CountersExact`, `ResumeExact`, `SuccessComplete`,
  `CancelBounded` and `NoOrphanRun`. `RunUsesLedger` maps each step of a run to a step of
  `JobLedger` or to a stutter.
* `CoverageProofs`. `LayersInv` says what a request has fixed and that layers hold whole ingests;
  `LateFree`, which holds while no request came late, says where each layer stands in its life, that
  one request at most ordered it, and that the job's field is the one it records. `CurrentIsWhole`
  needs the latter because the copy reads the field before it commits. From them follow
  `CurrentStaysWhole`, `IngestsAreWhole` and `ParcelsStay`. `ReportsInv` adds that a stored
  footprint is that of its layer's parcels, which `ParcelsStay` keeps true, that a job which has
  read a layer has read the current one, and that a ready year reports it or is due a recomputation
  that will take it, unless that failed or the year's last writer had read an earlier layer;
  `ReportsStayCurrent` follows, with overlapping jobs and failing recomputations in its scope.
  `LayerHasJob` needs only what a request has fixed, and holds of late requests too.
* `NaipIngestProofs`, for one worker (`OneWorker`). `SearchIsWhole` says that a search that does not
  hit the page limit has kept what is listed on every page that links lead to, as often as it is
  listed. The loop is a recursive function, so its existence and the fact that once ended it stays
  ended need induction over the number of requests; the induction is over a set (`SetInduction`,
  from the well-foundedness of the order of the naturals). `NInv` relates a job to the tiles it has
  still to copy, counted with those that are stored, and gives `TilesOnce`, `ReadyComplete` and
  `ReadyLeft`. `YearHasJob` and `NaipTyped` do without `OneWorker`: a job that ends without touching
  its year has found it at rest.
* `UploadYearProofs`. `UInv` relates the handler's place to the objects in S3 and the row of the
  file in hand: what is pending has its original, and between `put` and `stored` both objects exist.
  It gives `ImagesKept`, `ReadyHasImagery`, `BatchJudged`, `StoredKept` and `YearHasJob`.
* `StructuresProofs`, for every grid, mask, resolution and coverage. `SInv` says that a link stays
  within a blob, that what was united so far is in one tree, and that `find` stays in the tree it
  was called in. A tree is told by the sets of pixels the links never leave and a blob by those that
  touching never leaves, so no path has to be followed; path halving keeps those sets
  (`HalvingKeepsTrees`) and linking two roots joins them (`LinkingJoinsTrees`). `ForestIsBlobs`
  follows. `OpenInv` says what each turn of the opening's loops leaves, by `OneStepFurther` (one
  pixel and then k reach as far as k + 1, inside the grid), and gives `OpeningKeepsSquares` and
  `StructureIsSeen`. For `LargestBlobDecides`, `LInv` adds that a label is the root of its pixel's
  tree and that `best` is a largest compact blob of those picked. `Component` is shown to be the
  least set that touching never leaves by counting: a round that adds nothing is the last, and there
  are as many rounds as pixels. The largest blob decides because the run's two conditions hold of
  every area above one they hold of, which needs `HALF_STRUCTURE` positive. `LinksDescend` (a link
  never leads up, though it is halved and roots are linked) gives `ComparisonAdvances`: no `find`
  can run in a circle, and `ComparisonTyped` bounds the counters.
* `SignInProofs`. `AInv` says that an identity exists only once its operation has created it
  (`OperationSteps`), that it is in the pool as long as that operation holds it, and that while the
  operation is under way nobody else holds it and no row has it, unless a seed took it over
  (`HeldByOne`). `UndoneIsItsOwn` follows without exception: what an undo finds under its address is
  what its own operation created. So does `RowsStayBound`: what is undone is on no row, unless taken
  over. `TInv` types the tab and says that a call carries the token of some identity; with it
  `StepKeepsOneUser` shows, action by action, that only the end of a late call parts the tokens from
  the user shown, which is `TabStaysOneUser`. `KInv` says that a cache of the last hour has no key
  that left the JWKS more than an hour ago; with `AnswersAreChecked` (only `Verify` answers a sent
  call) it gives `PublishedAccepted` and `RetiredRefused`. The theorems assume of `Made` only that
  it maps addresses to identities; `SignInInit` takes bound ones from it.
* `EvaluationProofs`. `Paged` says that the parcels fetched so far are the first pages of the
  service, all full, so a page that is not full either ends them or was cut short
  (`SetDrawnFromAll`). `FetchInv` relates the manifest on disk to the one in memory, and says that a
  half-written file is named by no manifest unless its rewriting was cut (`FetchLeavesWhole`).
  `ScoreInv` carries the labels to the audit (`AuditKeeps`). The figures are sums and folds. A fold
  over a finite set is a function of its parts, so that its existence is proved by induction over a
  set and no operator has to be a parameter; from it, any element may be split off a sum, a sum over
  disjoint sets is the sum of the two, and a sum by keys is the sum of its keys. `DrawnInv` says
  that the strata's samples are disjoint and no larger than the quota, `StrataInv` that a result has
  the stratum its parcel was drawn from; the weights of a stratum then add up to the county's count
  of it, and `SampleCarriesCounty` follows. `InOrder` lists a set once and in order because no two
  elements have as many before them (a pigeonhole argument). `IndexNamesEveryChip` follows the
  sheets as they are filled one chip at a time: what is on the full ones and on the one begun is
  what was pasted, in order, and the rows that wait for the sheet begun are its tiles, one for one.
  So each entry's cell shows its parcel, each tile has an entry, and the parcels named are those
  with imagery. For `FiguresAreRight`, what the loop over groups of equal scores has seen is the
  parcels that score at least as much, the mean of their precisions is compared over a common
  denominator that every sum divides, and the top of the ranking, once it is full, stays as it is.

Every safety and action property of the passing runs is thereby a theorem. Only model-checked is
liveness, which is out of the prover's reach (`EveryJobEnds`, `RunEnds`, `LayersSettle`,
`YearSettles`, `CompareEnds`). The theorems give the safety half of it: `NoOrphanRun`, `LayerHasJob`
and the two `YearHasJob` say that what has not ended has a job that will go on with it,
`DeploysStrandNothing` that a job is stranded only by a fault, and `ComparisonAdvances` that a
comparison cannot go on for ever. What they say of layers, years and comparisons
(`NoLayerLeftBehind`, `NoYearLeftBehind`, `EveryTurnAdvances`) is not among the runs' properties:
TLC found no violation of it on the instances of `layers`, `naip`, `upload` and `structures`, and
those runs check that layers, years and comparisons come to an end. What the violating runs refute
is not a theorem, of course.

Assumptions that the code does not enforce, and on which results rest: the catalog does not change
during one search; the parcel service holds still during one build; a developer runs the harness's
commands one after the other.

## 6. Not modelled, and what is left

An error of the database while a year's or a layer's job reads its row, or in `_fail_year` and
`_fail_layer` themselves, is modelled for runs only (`faults` in `RunExecution`); in `NaipIngest`,
`UploadYear` and `ParcelLayers` it would leave the status behind without a job.

Not modelled: pixels (GDAL, COG conversion, previews), what makes a pixel built-up, the radiometric
fit, polygons, schema text, layout of pages, presigned URLs, read-only routes, the texts of the
harness's reports. A corrupt file or a catalog error appears as a handler that may fail. S3 keys are
taken to name objects the client uploaded before registering them. Tenants do not share rows, so
each module models one.

`migrate.py` takes a PostgreSQL advisory lock around the whole upgrade: a model would restate what
the lock promises. The polling of `ImageryPage` and `RunsPage`, the multi-file upload, and the
paging of a run's results only read what the modelled handlers commit; what may go wrong there (a
page of a run that is still being scored shifts) is in `PROJECT.json`, "hazards".

Facts about the detector to know when reading its properties. `_open` takes the grid's border for
set, and the grid is the parcel's own extent: a strip at the border survives when it is span // 2 +
1 wide. With an even span a blob exactly span wide is erased. Neither is what the docstring
(`detection/detector.py:459`) says; `OpenedIsBlocks` states what happens, and the disagreement is a
finding. Two years that each show another half of a parcel pass the coverage check, and the parcel
is scored 0. The assumption on a run's parameters excludes one with both threshold and minimal area
0, which the request schema allows and which makes a candidate of every parcel it scores.

What would come next:

1. The rest of the detector: box mean, local contrast and the cleaning of a year's masks on small
   integer grids, and the fit's guards.
2. `RunCreate`: the request that creates a run checks two ready years and a current layer, then
   commits; composed with `Coverage`, what a run counts against a layer that changes.
3. The pages' polling against slow answers, and the upload of several files.
4. `group_years` of `imagery/naip.py`, against its definition.
5. An abstract `Intake` (ordered, working, ready or failed, complete when ready) that
   `ParcelLayers`, `NaipIngest` and `UploadYear` all implement.
