----------------------------- MODULE CoverageProofs ----------------------------
(***************************************************************************)
(* What holds of a county's parcel layers and of its coverage reports, for *)
(* any number of layers, columns, requests, workers and imagery years.     *)
(*                                                                         *)
(* LayersInv says where each layer and its jobs stand, and LateFree what   *)
(* more is true while no request was committed late.  ReportsInv rests on  *)
(* both: a stored footprint is that of its layer's parcels for ever.       *)
(***************************************************************************)
EXTENDS Coverage, TLAPS

\* What a request has fixed, as far as it is.
RequestSteps ==
    \A r \in Requests :
        /\ req[r].pc # "idle" => /\ req[r].layer \in Layers /\ req[r].field \in Fields
                                 /\ req[r].saw = "awaiting_field"
        /\ req[r].pc = "done" <=> ingesting[r] # "absent"
        /\ req[r].pc = "done" => field[req[r].layer] \in Fields
        /\ ingesting[r] = "running" => loaded[r] \in Fields

LayersInv == TypeOK /\ RequestSteps /\ OnlyWholeIngests

\* Each layer is ingested once, from the field it records, and shows parcels only when it
\* is ready.
LayerStands(l) ==
    /\ inspecting[l] = "absent" => status[l] = "absent"
    /\ inspecting[l] = "queued" => status[l] = "uploaded"
    /\ inspecting[l] = "running" => status[l] = "inspecting"
    /\ status[l] \in {"absent", "uploaded", "inspecting", "awaiting_field"} =>
          \A r \in Requests : ~Ordered(r, l)
    /\ status[l] # "ready" => rows[l] = {} /\ current # l
    /\ status[l] = "ready" => rows[l] = RefsOf[field[l]]

JobStands(r) ==
    ingesting[r] \in {"queued", "running", "dead"} =>
        /\ status[req[r].layer] = "ingesting"
        /\ ingesting[r] = "running" => loaded[r] = field[req[r].layer]

LateFree ==
    /\ \A l \in Layers : LayerStands(l)
    /\ \A r \in Requests : JobStands(r)
    /\ \A r, s \in Requests :
          req[r].pc = "done" /\ req[s].pc = "done" /\ req[r].layer = req[s].layer => r = s

LInv == LayersInv /\ (~late => LateFree)

LEMMA LayersInit == Init => LInv
  <1> SUFFICES ASSUME Init PROVE LInv OBVIOUS
  <1> USE ParcelLayersAssumption DEF Init
  <1>1. TypeOK
    <2>1. rows \in [Layers -> SUBSET AllRefs]
      OBVIOUS
    <2>2. req \in [Requests -> [pc : {"idle", "read", "done"}, layer : Layers \cup {NoLayer},
                               field : Fields \cup {NoField}, saw : LayerStatuses \cup {"absent"}]]
      <3>1. [pc |-> "idle", layer |-> NoLayer, field |-> NoField, saw |-> "absent"]
               \in [pc : {"idle", "read", "done"}, layer : Layers \cup {NoLayer},
                    field : Fields \cup {NoField}, saw : LayerStatuses \cup {"absent"}]
        OBVIOUS
      <3> QED BY <3>1
    <2>3. /\ status \in [Layers -> LayerStatuses \cup {"absent"}]
          /\ inspecting \in [Layers -> JobStates] /\ ingesting \in [Requests -> JobStates]
      BY DEF LayerStatuses, JobStates
    <2>4. field \in [Layers -> Fields \cup {NoField}] /\ loaded \in [Requests -> Fields \cup {NoField}]
      OBVIOUS
    <2>5. current \in Layers \cup {NoLayer} /\ late \in BOOLEAN
      OBVIOUS
    <2>6. faults \in 0..MaxFaults
      OBVIOUS
    <2> HIDE DEF Init
    <2> QED BY <2>1, <2>2, <2>3, <2>4, <2>5, <2>6 DEF TypeOK
  <1>2. RequestSteps
    BY DEF RequestSteps
  <1>3. OnlyWholeIngests
    <2>1. \A l \in Layers : rows[l] = UNION {RefsOf[f] : f \in {}}
      OBVIOUS
    <2>2. {} \in SUBSET Fields
      OBVIOUS
    <2> QED BY <2>1, <2>2 DEF OnlyWholeIngests
  <1>4. LateFree
    <2>1. ASSUME NEW l \in Layers PROVE LayerStands(l)
      <3>1. /\ status[l] = "absent" /\ inspecting[l] = "absent" /\ rows[l] = {} /\ current # l
            /\ \A r \in Requests : req[r].pc = "idle"
        OBVIOUS
      <3> HIDE DEF Init
      <3> QED BY <3>1 DEF LayerStands, Ordered
    <2>2. ASSUME NEW r \in Requests PROVE JobStands(r) /\ req[r].pc # "done"
      BY DEF JobStands
    <2> HIDE DEF Init
    <2> QED BY <2>1, <2>2 DEF LateFree
  <1> QED BY <1>1, <1>2, <1>3, <1>4 DEF LInv, LayersInv

LEMMA LayersNext == LInv /\ Next => LInv'
  <1> SUFFICES ASSUME LInv, Next PROVE LInv' OBVIOUS
  <1> USE ParcelLayersAssumption DEF LInv, LayersInv, db
  <1>1. ASSUME NEW l \in Layers, CreateLayer(l) PROVE LInv'
    <2>1. TypeOK'
      BY <1>1 DEF CreateLayer, TypeOK, LayerStatuses, JobStates
    <2>2. RequestSteps'
      BY <1>1 DEF CreateLayer, TypeOK, RequestSteps
    <2>3. OnlyWholeIngests'
      BY <1>1 DEF CreateLayer, OnlyWholeIngests
    <2>4. ~late' => LateFree'
      BY <1>1 DEF CreateLayer, TypeOK, RequestSteps, LateFree, LayerStands, JobStands, Ordered
    <2> QED BY <2>1, <2>2, <2>3, <2>4
  <1>2. ASSUME NEW r \in Requests, NEW l \in Layers, NEW f \in Fields, IngestRead(r, l, f)
        PROVE  LInv'
    <2>1. TypeOK'
      BY <1>2 DEF IngestRead, MayIngest, TypeOK, LayerStatuses
    <2>2. RequestSteps'
      BY <1>2 DEF IngestRead, MayIngest, TypeOK, RequestSteps
    <2>3. OnlyWholeIngests'
      BY <1>2 DEF IngestRead, OnlyWholeIngests
    <2>4. ~late' => LateFree'
      BY <1>2 DEF IngestRead, TypeOK, RequestSteps, LateFree, LayerStands, JobStands, Ordered
    <2> QED BY <2>1, <2>2, <2>3, <2>4
  <1>3. ASSUME NEW r \in Requests, IngestCommit(r) PROVE LInv'
    <2>1. TypeOK'
      BY <1>3 DEF IngestCommit, TypeOK, RequestSteps, LayerStatuses, JobStates
    <2>2. RequestSteps'
      BY <1>3 DEF IngestCommit, TypeOK, RequestSteps
    <2>3. OnlyWholeIngests'
      BY <1>3 DEF IngestCommit, OnlyWholeIngests
    <2>4. ASSUME ~late' PROVE LateFree'
      <3> DEFINE l == req[r].layer
      <3>1. /\ l \in Layers /\ req[r].pc = "read" /\ ~late /\ status[l] = "awaiting_field"
            /\ req' = [req EXCEPT ![r].pc = "done"] /\ field' = [field EXCEPT ![l] = req[r].field]
            /\ status' = [status EXCEPT ![l] = "ingesting"]
            /\ ingesting' = [ingesting EXCEPT ![r] = "queued"]
            /\ UNCHANGED <<rows, current, inspecting, loaded>>
        BY <1>3, <2>4 DEF IngestCommit, TypeOK, RequestSteps
      <3>2. \A s \in Requests : ~Ordered(s, l)
        BY <3>1 DEF LateFree, LayerStands
      <3> HIDE DEF l
      <3>3. ASSUME NEW m \in Layers PROVE LayerStands(m)'
        <4>1. CASE m = l
          BY <3>1, <4>1 DEF TypeOK, LateFree, LayerStands
        <4>2. CASE m # l
          <5>1. \A s \in Requests : Ordered(s, m)' => Ordered(s, m)
            BY <3>1, <4>2 DEF TypeOK, Ordered, l
          <5> QED BY <3>1, <4>2, <5>1 DEF TypeOK, LateFree, LayerStands
        <4> QED BY <4>1, <4>2
      <3>4. ASSUME NEW s \in Requests PROVE JobStands(s)'
        <4>1. CASE s = r
          BY <3>1, <4>1 DEF TypeOK, JobStands, l
        <4>2. CASE s # r
          <5>1. ingesting[s] \in {"queued", "running", "dead"} => req[s].layer # l
            BY <3>1, <3>2 DEF Ordered, RequestSteps
          <5> QED BY <3>1, <4>2, <5>1 DEF TypeOK, LateFree, JobStands
        <4> QED BY <4>1, <4>2
      <3>5. ASSUME NEW s \in Requests, NEW q \in Requests, req'[s].pc = "done", req'[q].pc = "done",
                   req'[s].layer = req'[q].layer
            PROVE  s = q
        BY <3>1, <3>2, <3>5 DEF TypeOK, LateFree, Ordered, l
      <3> QED BY <3>3, <3>4, <3>5 DEF LateFree
    <2> QED BY <2>1, <2>2, <2>3, <2>4
  <1>4. ASSUME NEW l \in Layers, InspectStart(l) PROVE LInv'
    <2>1. TypeOK'
      BY <1>4 DEF InspectStart, TypeOK, LayerStatuses, JobStates
    <2>2. RequestSteps'
      BY <1>4 DEF InspectStart, TypeOK, RequestSteps
    <2>3. OnlyWholeIngests'
      BY <1>4 DEF InspectStart, OnlyWholeIngests
    <2>4. ~late' => LateFree'
      BY <1>4 DEF InspectStart, TypeOK, RequestSteps, LateFree, LayerStands, JobStands, Ordered
    <2> QED BY <2>1, <2>2, <2>3, <2>4
  <1>5. ASSUME NEW l \in Layers, InspectEnd(l) PROVE LInv'
    <2>1. TypeOK'
      BY <1>5 DEF InspectEnd, TypeOK, LayerStatuses, JobStates
    <2>2. RequestSteps'
      BY <1>5 DEF InspectEnd, TypeOK, RequestSteps
    <2>3. OnlyWholeIngests'
      BY <1>5 DEF InspectEnd, OnlyWholeIngests
    <2>4. ~late' => LateFree'
      BY <1>5 DEF InspectEnd, TypeOK, RequestSteps, LateFree, LayerStands, JobStands, Ordered
    <2> QED BY <2>1, <2>2, <2>3, <2>4
  <1>6. ASSUME NEW r \in Requests, IngestStart(r) PROVE LInv'
    <2>1. TypeOK'
      BY <1>6 DEF IngestStart, TypeOK, RequestSteps, JobStates
    <2>2. RequestSteps'
      BY <1>6 DEF IngestStart, TypeOK, RequestSteps
    <2>3. OnlyWholeIngests'
      BY <1>6 DEF IngestStart, OnlyWholeIngests
    <2>4. ~late' => LateFree'
      BY <1>6 DEF IngestStart, TypeOK, RequestSteps, LateFree, LayerStands, JobStands, Ordered
    <2> QED BY <2>1, <2>2, <2>3, <2>4
  <1>7. ASSUME NEW r \in Requests, IngestEnd(r) PROVE LInv'
    <2> DEFINE l == req[r].layer
    <2>0. /\ l \in Layers /\ loaded[r] \in Fields /\ Ordered(r, l)
          /\ ingesting' = [ingesting EXCEPT ![r] = "ended"]
          /\ UNCHANGED <<field, req, inspecting, loaded, late, faults>>
      BY <1>7 DEF IngestEnd, RequestSteps, TypeOK, Ordered
    <2>1. CASE FailLayer(r)
      <3>1. TypeOK'
        BY <2>0, <2>1 DEF FailLayer, TypeOK, LayerStatuses, JobStates
      <3>2. RequestSteps'
        BY <2>0, <2>1 DEF FailLayer, TypeOK, RequestSteps, Ordered
      <3>3. OnlyWholeIngests'
        BY <2>0, <2>1 DEF FailLayer, OnlyWholeIngests
      <3>4. ~late' => LateFree'
        BY <1>7, <2>0, <2>1 DEF IngestEnd, FailLayer, TypeOK, RequestSteps, LateFree, LayerStands,
                                JobStands, Ordered
      <3> QED BY <3>1, <3>2, <3>3, <3>4
    <2>2. CASE Copied(r)
      <3>1. RefsOf[loaded[r]] \subseteq AllRefs
        BY <2>0 DEF AllRefs
      <3>2. TypeOK'
        BY <2>0, <2>2, <3>1 DEF Copied, Activate, TypeOK, LayerStatuses, JobStates
      <3>3. RequestSteps'
        BY <2>0, <2>2 DEF Copied, Activate, TypeOK, RequestSteps, Ordered
      <3>4. OnlyWholeIngests'
        <4> SUFFICES ASSUME NEW m \in Layers
                     PROVE  \E fs \in SUBSET Fields : rows'[m] = UNION {RefsOf[f] : f \in fs}
          BY DEF OnlyWholeIngests
        <4>1. PICK fs \in SUBSET Fields : rows[m] = UNION {RefsOf[f] : f \in fs}
          BY DEF OnlyWholeIngests
        <4>2. CASE m = l
          <5>1. rows'[m] = rows[m] \cup RefsOf[loaded[r]]
            BY <2>0, <2>2, <4>2 DEF Copied, Activate, TypeOK
          <5>2. fs \cup {loaded[r]} \in SUBSET Fields
            BY <2>0
          <5>3. rows'[m] = UNION {RefsOf[f] : f \in fs \cup {loaded[r]}}
            BY <4>1, <5>1
          <5> QED BY <5>2, <5>3
        <4>3. CASE m # l
          BY <2>0, <2>2, <4>1, <4>3 DEF Copied, Activate, TypeOK
        <4> QED BY <4>2, <4>3
      <3>5. ASSUME ~late' PROVE LateFree'
        <4>1. status[l] = "ingesting" /\ rows[l] = {} /\ loaded[r] = field[l]
          BY <1>7, <2>0, <3>5 DEF IngestEnd, LateFree, LayerStands, JobStands
        <4>2. /\ status' = [status EXCEPT ![l] = "ready"] /\ current' = l
              /\ rows' = [rows EXCEPT ![l] = RefsOf[field[l]]]
          BY <2>2, <4>1 DEF Copied, Activate
        <4>3. ASSUME NEW m \in Layers PROVE LayerStands(m)'
          BY <2>0, <3>5, <4>1, <4>2, <4>3 DEF TypeOK, LateFree, LayerStands, Ordered
        <4>4. ASSUME NEW s \in Requests PROVE JobStands(s)'
          <5>1. CASE s = r
            BY <2>0, <5>1 DEF TypeOK, JobStands
          <5>2. CASE s # r
            <6>1. ingesting[s] \in {"queued", "running", "dead"} => req[s].layer # l
              BY <2>0, <3>5, <5>2 DEF LateFree, Ordered, RequestSteps
            <6> QED BY <2>0, <3>5, <4>2, <5>2, <6>1 DEF TypeOK, LateFree, JobStands
          <5> QED BY <5>1, <5>2
        <4> QED BY <2>0, <3>5, <4>3, <4>4 DEF LateFree
      <3> QED BY <3>2, <3>3, <3>4, <3>5
    <2> QED BY <1>7, <2>1, <2>2 DEF IngestEnd
  <1>8. CASE Die
    <2>1. TypeOK'
      BY <1>8 DEF Die, TypeOK, JobStates
    <2>2. RequestSteps'
      BY <1>8 DEF Die, TypeOK, RequestSteps
    <2>3. OnlyWholeIngests'
      BY <1>8 DEF Die, OnlyWholeIngests
    <2>4. ~late' => LateFree'
      BY <1>8 DEF Die, TypeOK, RequestSteps, LateFree, LayerStands, JobStands, Ordered
    <2> QED BY <2>1, <2>2, <2>3, <2>4
  <1> QED BY <1>1, <1>2, <1>3, <1>4, <1>5, <1>6, <1>7, <1>8 DEF Next, InspectStep, IngestStep

LEMMA LayersStutter == LInv /\ UNCHANGED vars => LInv'
  <1> SUFFICES ASSUME LInv, UNCHANGED vars PROVE LInv' OBVIOUS
  <1> USE DEF vars, db
  <1>1. TypeOK' /\ RequestSteps' /\ OnlyWholeIngests'
    BY DEF LInv, LayersInv, TypeOK, RequestSteps, OnlyWholeIngests
  <1>2. ~late' => LateFree'
    BY DEF LInv, LateFree, LayerStands, JobStands, Ordered
  <1> QED BY <1>1, <1>2 DEF LInv, LayersInv

--------------------------------------------------------------------------------
(* The reports leave the layers alone.                                     *)

\* Computing coverage takes no step of the layers: a behaviour of the whole is one of the
\* layers (parcels/ingest.py, imagery/ingest.py).
THEOREM CoverageKeepsLayers == CoverageSpec => Spec
  <1>1. CoverageInit => Init
    BY DEF CoverageInit
  <1>2. [CoverageNext]_allVars => [Next]_vars
    BY DEF CoverageNext, LayerStep, CreateYear, OrderAgain, YearStart, YearReady, YearStops,
           RecomputeStart, RecomputeList, RecomputeEnd, RecomputeFails, Report, allVars
  <1> QED BY <1>1, <1>2, PTL DEF CoverageSpec, Spec

LEMMA LayersInvariant == Spec => []LInv
  <1>1. LInv /\ [Next]_vars => LInv'
    BY LayersNext, LayersStutter
  <1> QED BY <1>1, LayersInit, PTL DEF Spec

\* The layers' variables keep their types.
THEOREM LayersTyped == Spec => []TypeOK
  <1>1. LInv => TypeOK
    BY DEF LInv, LayersInv
  <1> QED BY <1>1, LayersInvariant, PTL

\* The current layer is ready and shows one ingest, whole, of the field it records
\* (parcels/ingest.py:116-144), unless a request came late.
THEOREM CurrentStaysWhole == Spec => []CurrentIsWhole
  <1>1. LInv => CurrentIsWhole
    BY DEF LInv, LayersInv, LateFree, LayerStands, CurrentIsWhole, TypeOK
  <1> QED BY <1>1, LayersInvariant, PTL

\* A layer's parcels are those of whole ingests, even when requests came late
\* (parcels/ingest.py:66-70).
THEOREM IngestsAreWhole == Spec => []OnlyWholeIngests
  <1>1. LInv => OnlyWholeIngests
    BY DEF LInv, LayersInv
  <1> QED BY <1>1, LayersInvariant, PTL

\* A layer that is not at rest has a job of its own that will go on with it, or one whose
\* worker died (NoLayerLeftBehind; create_layer, ingest_layer, _fail_layer).
THEOREM LayerHasJob == Spec => []NoLayerLeftBehind
  <1>1. Init => NoLayerLeftBehind
    BY DEF Init, NoLayerLeftBehind
  <1>2. LInv /\ NoLayerLeftBehind /\ [Next]_vars => NoLayerLeftBehind'
    <2> SUFFICES ASSUME LInv, NoLayerLeftBehind, [Next]_vars PROVE NoLayerLeftBehind' OBVIOUS
    <2>0. TypeOK /\ RequestSteps
      BY DEF LInv, LayersInv
    <2> USE <2>0 DEF TypeOK, RequestSteps, LayerStatuses, JobStates, NoLayerLeftBehind, db
    <2>1. ASSUME NEW l \in Layers, CreateLayer(l) PROVE NoLayerLeftBehind'
      BY <2>1 DEF CreateLayer
    <2>2. ASSUME NEW l \in Layers, InspectStart(l) PROVE NoLayerLeftBehind'
      BY <2>2 DEF InspectStart
    <2>3. ASSUME NEW l \in Layers, InspectEnd(l) PROVE NoLayerLeftBehind'
      BY <2>3 DEF InspectEnd
    <2>4. ASSUME NEW r \in Requests, NEW l \in Layers, NEW f \in Fields, IngestRead(r, l, f)
          PROVE  NoLayerLeftBehind'
      BY <2>4 DEF IngestRead, MayIngest
    <2>5. ASSUME NEW r \in Requests, IngestCommit(r) PROVE NoLayerLeftBehind'
      BY <2>5 DEF IngestCommit
    <2>6. ASSUME NEW r \in Requests, IngestStart(r) PROVE NoLayerLeftBehind'
      BY <2>6 DEF IngestStart
    <2>7. ASSUME NEW r \in Requests, IngestEnd(r) PROVE NoLayerLeftBehind'
      BY <2>7 DEF IngestEnd, Copied, Activate, FailLayer
    <2>8. CASE Die
      BY <2>8 DEF Die
    <2>9. CASE UNCHANGED vars
      BY <2>9 DEF vars
    <2> QED BY <2>1, <2>2, <2>3, <2>4, <2>5, <2>6, <2>7, <2>8, <2>9
            DEF Next, InspectStep, IngestStep
  <1> QED BY <1>1, <1>2, LayersInvariant, PTL DEF Spec

LEMMA RowsStay ==
  ASSUME LInv, [Next]_vars, ~late, NEW l \in Layers, rows[l] # {}
  PROVE  rows'[l] = rows[l]
  <1>1. status[l] = "ready"
    BY DEF LInv, LateFree, LayerStands
  <1>2. ASSUME NEW r \in Requests, IngestEnd(r) PROVE rows'[l] = rows[l]
    <2>1. req[r].layer # l
      BY <1>1, <1>2 DEF LInv, LateFree, JobStands, IngestEnd
    <2> QED BY <1>2, <2>1 DEF IngestEnd, Copied, Activate, FailLayer, LInv, LayersInv, TypeOK
  <1> QED BY <1>2 DEF Next, CreateLayer, InspectStep, InspectStart, InspectEnd, IngestRead,
                      IngestCommit, IngestStep, IngestStart, Die, vars, db

LEMMA OrderedStays ==
  ASSUME LInv, Next, NEW r \in Requests, NEW l, Ordered(r, l)
  PROVE  Ordered(r, l)'
  BY DEF LInv, LayersInv, TypeOK, Ordered, Next, CreateLayer, InspectStep, InspectStart,
         InspectEnd, IngestRead, IngestCommit, IngestStep, IngestStart, IngestEnd, Copied,
         Activate, FailLayer, Die, db

\* A layer's parcels never change once it has some (runs.py:133-146 counts on it), unless a
\* request came late.
THEOREM ParcelsStay == Spec => ParcelsNeverChange
  <1>1. LInv /\ [Next]_vars => [~late => \A l \in Layers : rows[l] # {} => rows'[l] = rows[l]]_vars
    BY RowsStay
  <1> QED BY <1>1, LayersInvariant, PTL DEF Spec, ParcelsNeverChange

--------------------------------------------------------------------------------
(* The reports.                                                            *)

References == [ground : SUBSET AllRefs, layer : Layers \cup {NoLayer}]

ReportsType ==
    /\ footprint \in [Layers -> SUBSET AllRefs]
    /\ year \in [Years -> {"absent", "queued", "processing", "ready", "failed"}]
    /\ report \in [Years -> References]
    /\ took \in [Years -> References]
    /\ recompute \in [Requests -> {"absent", "queued", "running", "listed", "ended", "failed"}]
    /\ listed \in [Requests -> [from : References, years : SUBSET Years]]

\* What a job holds of the layer it read stays that layer's.
Held(from) == /\ from.layer \in Layers /\ rows[from.layer] # {}
              /\ from.ground = rows[from.layer]

JobsHold ==
    /\ \A y \in Years : year[y] = "processing" => Held(took[y])
    /\ \A r \in Requests : recompute[r] \in {"running", "listed"} => Held(listed[r].from)

\* The recomputation queued with the current layer has yet to take year y with it, or failed.
Due(y) ==
    \E r \in Requests :
        /\ Ordered(r, current)
        /\ \/ recompute[r] \in {"queued", "running", "failed"}
           \/ recompute[r] = "listed" /\ y \in listed[r].years

UpToDate ==
    current # NoLayer /\ rows[current] # {} =>
        \A y \in ReadyYears \ stale : report[y] = Whole \/ Due(y)

ReportsInv ==
    /\ ReportsType
    /\ ~late => /\ \A l \in Layers : footprint[l] # {} => footprint[l] = rows[l]
                /\ JobsHold
                /\ UpToDate

LEMMA ReportsInit == CoverageInit => ReportsInv
  <1> SUFFICES ASSUME CoverageInit PROVE ReportsInv OBVIOUS
  <1> USE DEF CoverageInit
  <1>1. Nothing \in References
    BY DEF Nothing, References
  <1>2. ReportsType
    BY <1>1 DEF ReportsType
  <1>3. JobsHold /\ UpToDate /\ \A l \in Layers : footprint[l] = {}
    BY DEF JobsHold, UpToDate, ReadyYears
  <1> QED BY <1>2, <1>3 DEF ReportsInv

\* What a job reads of the footprint when it starts.
LEMMA GroundIsWhole ==
  ASSUME LInv, ReportsInv, HasFootprint
  PROVE  /\ current \in Layers
         /\ [ground |-> Ground, layer |-> current] \in References
         /\ FillFootprint => /\ footprint' \in [Layers -> SUBSET AllRefs]
                             /\ footprint' = [footprint EXCEPT ![current] = Ground]
         /\ ~late => Held([ground |-> Ground, layer |-> current])
  <1>1. current \in Layers /\ rows[current] \in SUBSET AllRefs /\ footprint[current] \in SUBSET AllRefs
    BY DEF HasFootprint, LInv, LayersInv, TypeOK, ReportsInv, ReportsType
  <1>2. Ground \in SUBSET AllRefs
    BY <1>1 DEF Ground
  <1>3. ~late => Ground = rows[current] /\ rows[current] # {}
    BY <1>1 DEF Ground, HasFootprint, ReportsInv
  <1> QED BY <1>1, <1>2, <1>3 DEF Held, References, FillFootprint, ReportsInv, ReportsType

\* A step that leaves the layers alone: the footprints stored stay those of their layers.
LEMMA FootprintsStay ==
  ASSUME LInv, ReportsInv, UNCHANGED vars, UNCHANGED footprint \/ (HasFootprint /\ FillFootprint)
  PROVE  /\ footprint' \in [Layers -> SUBSET AllRefs]
         /\ (~late => \A l \in Layers : footprint[l] # {} => footprint[l] = rows[l])'
  <1> USE DEF vars, db
  <1>1. CASE UNCHANGED footprint
    BY <1>1 DEF ReportsInv, ReportsType
  <1>2. CASE HasFootprint /\ FillFootprint
    <2>1. footprint' = [footprint EXCEPT ![current] = Ground] /\ (~late => Ground = rows[current])
          /\ footprint' \in [Layers -> SUBSET AllRefs]
      BY <1>2, GroundIsWhole DEF Held
    <2> QED BY <2>1 DEF ReportsInv, ReportsType
  <1> QED BY <1>1, <1>2

\* What a job writes: a reference, and the whole of the current layer unless overtaken.
LEMMA ReportWritten ==
  ASSUME LInv, ReportsType, NEW ys \in SUBSET Years, NEW from \in References, Report(ys, from)
  PROVE  /\ report' \in [Years -> References]
         /\ \A y \in Years \ ys : report'[y] = report[y] /\ (y \in stale' <=> y \in stale)
         /\ \A y \in ys : y \notin stale' => from.layer = current
         /\ Held(from) => \A y \in ys : y \notin stale' => report'[y] = Whole
  <1>1. PICK c \in CoverageOf(from) :
           report' = [y \in Years |-> IF y \in ys THEN c ELSE report[y]]
    BY DEF Report
  <1>2. current \in Layers \cup {NoLayer}
    BY DEF LInv, LayersInv, TypeOK
  <1>3. c \in References /\ (from.layer = current => c = from)
    BY <1>2 DEF CoverageOf, References
  <1>4. /\ \A y \in ys : y \notin stale' => from.layer = current
        /\ \A y \in Years \ ys : y \in stale' <=> y \in stale
    BY DEF Report
  <1>5. Held(from) /\ from.layer = current => from = Whole
    BY DEF Held, Whole, References
  <1> QED BY <1>1, <1>3, <1>4, <1>5 DEF ReportsType

\* A step of the layers.
LEMMA LayerStepKeeps == LInv /\ ReportsInv /\ LayerStep => ReportsInv'
  <1> SUFFICES ASSUME LInv, ReportsInv, LayerStep PROVE ReportsInv' OBVIOUS
  <1> DEFINE activated == {r \in Requests : /\ ingesting[r] = "running"
                                            /\ ingesting'[r] = "ended"
                                            /\ status'[req[r].layer] = "ready"}
  <1>1. /\ Next /\ UNCHANGED <<footprint, year, report, took, listed, stale>>
        /\ recompute' = [r \in Requests |-> IF r \in activated THEN "queued" ELSE recompute[r]]
        /\ activated \subseteq Requests
    BY DEF LayerStep, QueuesRecompute
  <1>2. ReportsType'
    <2> HIDE DEF activated
    <2> QED BY <1>1 DEF ReportsInv, ReportsType
  <1>3. late => late'
    BY <1>1 DEF Next, CreateLayer, InspectStep, InspectStart, InspectEnd, IngestRead,
                IngestCommit, IngestStep, IngestStart, IngestEnd, Die
  <1>4. ASSUME ~late' PROVE \A l \in Layers : footprint'[l] # {} => footprint'[l] = rows'[l]
    BY <1>1, <1>3, <1>4, RowsStay DEF ReportsInv
  <1>5. ASSUME ~late' PROVE JobsHold'
    <2>1. ASSUME NEW from, Held(from) PROVE Held(from)'
      BY <1>1, <1>3, <1>5, <2>1, RowsStay DEF Held
    <2>2. \A r \in Requests : recompute'[r] \in {"running", "listed"} => recompute[r] = recompute'[r]
      <3> HIDE DEF activated
      <3> QED BY <1>1
    <2> QED BY <1>1, <1>3, <1>5, <2>1, <2>2 DEF ReportsInv, JobsHold
  <1>6. ASSUME ~late' PROVE UpToDate'
    <2>0. UpToDate /\ ~late
      BY <1>3, <1>6 DEF ReportsInv
    <2>1. CASE UNCHANGED <<rows, current>>
      <3>1. Whole' = Whole /\ ReadyYears' = ReadyYears
        BY <1>1, <2>1 DEF Whole, ReadyYears
      <3>2. ASSUME NEW r \in Requests, Ordered(r, current) PROVE Ordered(r, current)'
        BY <1>1, <2>1, <3>2, OrderedStays
      <3>3. ASSUME NEW y \in Years, Due(y) PROVE Due(y)'
        <4> HIDE DEF activated
        <4> QED BY <1>1, <3>2, <3>3 DEF Due, ReportsInv, ReportsType
      <3> QED BY <1>1, <2>0, <2>1, <3>1, <3>3 DEF UpToDate, ReadyYears
    <2>2. ASSUME NEW r \in Requests, IngestEnd(r), Copied(r) PROVE UpToDate'
      <3>1. r \in activated
        BY <2>2 DEF IngestEnd, Copied, Activate, LInv, LayersInv, RequestSteps, TypeOK
      <3>2. Ordered(r, current)'
        BY <2>2 DEF IngestEnd, Copied, Activate, Ordered, LInv, LayersInv, RequestSteps, TypeOK
      <3> HIDE DEF activated
      <3>3. recompute'[r] = "queued"
        BY <1>1, <3>1
      <3> QED BY <3>2, <3>3 DEF UpToDate, Due
    <2>3. \/ UNCHANGED <<rows, current>>
          \/ \E r \in Requests : IngestEnd(r) /\ Copied(r)
      BY <1>1 DEF Next, CreateLayer, InspectStep, InspectStart, InspectEnd, IngestRead, db,
                  IngestCommit, IngestStep, IngestStart, IngestEnd, FailLayer, Die
    <2> QED BY <2>1, <2>2, <2>3
  <1> QED BY <1>2, <1>4, <1>5, <1>6 DEF ReportsInv

LEMMA ReportsNext == LInv /\ ReportsInv /\ CoverageNext => ReportsInv'
  <1> SUFFICES ASSUME LInv, ReportsInv, CoverageNext PROVE ReportsInv' OBVIOUS
  <1>0. LInv /\ ReportsType /\ (~late => JobsHold /\ UpToDate)
    BY DEF ReportsInv
  <1> DEFINE Kept == footprint' \in [Layers -> SUBSET AllRefs]
                     /\ (~late => \A l \in Layers : footprint[l] # {} => footprint[l] = rows[l])'
  <1>1. CASE LayerStep
    BY <1>1, LayerStepKeeps
  <1>2. ASSUME NEW y \in Years, CreateYear(y) PROVE ReportsInv'
    <2>1. Kept
      BY <1>2, FootprintsStay DEF CreateYear
    <2> USE <1>0, <1>2 DEF CreateYear, vars, db
    <2>2. ReportsType'
      BY <2>1 DEF ReportsType
    <2>3. (~late => JobsHold)'
      BY DEF ReportsType, JobsHold, Held
    <2>4. (~late => UpToDate)'
      BY DEF ReportsType, UpToDate, Whole, Due, Ordered, ReadyYears
    <2> QED BY <2>1, <2>2, <2>3, <2>4 DEF ReportsInv
  <1>3. ASSUME NEW y \in Years, OrderAgain(y) PROVE ReportsInv'
    <2>1. Kept
      BY <1>3, FootprintsStay DEF OrderAgain
    <2> USE <1>0, <1>3 DEF OrderAgain, vars, db
    <2>2. ReportsType'
      BY <2>1 DEF ReportsType
    <2>3. (~late => JobsHold)'
      BY DEF ReportsType, JobsHold, Held
    <2>4. (~late => UpToDate)'
      BY DEF ReportsType, UpToDate, Whole, Due, Ordered, ReadyYears
    <2> QED BY <2>1, <2>2, <2>3, <2>4 DEF ReportsInv
  <1>4. ASSUME NEW y \in Years, YearStart(y) PROVE ReportsInv'
    <2>1. Kept
      BY <1>4, FootprintsStay DEF YearStart
    <2> USE <1>0, <1>4 DEF YearStart, vars, db
    <2>2. CASE HasFootprint
      <3>1. /\ took' = [took EXCEPT ![y] = [ground |-> Ground, layer |-> current]]
            /\ year' = [year EXCEPT ![y] = "processing"]
            /\ [ground |-> Ground, layer |-> current] \in References
            /\ ~late => Held([ground |-> Ground, layer |-> current])
        BY <2>2, GroundIsWhole
      <3>2. ReportsType'
        BY <2>1, <3>1 DEF ReportsType
      <3>3. (~late => JobsHold)'
        BY <3>1 DEF ReportsType, JobsHold, Held
      <3>4. (~late => UpToDate)'
        BY <3>1 DEF ReportsType, UpToDate, Whole, Due, Ordered, ReadyYears
      <3> QED BY <2>1, <3>2, <3>3, <3>4 DEF ReportsInv
    <2>3. CASE ~HasFootprint
      <3>1. ReportsType'
        BY <2>1, <2>3 DEF ReportsType
      <3>2. (~late => JobsHold)'
        BY <2>3 DEF ReportsType, JobsHold, Held
      <3>3. (~late => UpToDate)'
        BY <2>3 DEF ReportsType, UpToDate, Whole, Due, Ordered, ReadyYears
      <3> QED BY <2>1, <3>1, <3>2, <3>3 DEF ReportsInv
    <2> QED BY <2>2, <2>3
  <1>5. ASSUME NEW y \in Years, YearReady(y) PROVE ReportsInv'
    <2>1. Kept
      BY <1>5, FootprintsStay DEF YearReady
    <2> USE <1>0, <1>5 DEF YearReady, vars, db
    <2>2. took[y] \in References /\ {y} \in SUBSET Years
      BY DEF ReportsType
    <2>3. /\ report' \in [Years -> References]
          /\ \A z \in Years \ {y} : report'[z] = report[z] /\ (z \in stale' <=> z \in stale)
          /\ Held(took[y]) => \A z \in {y} : z \notin stale' => report'[z] = Whole
      BY <2>2, ReportWritten
    <2>4. ReportsType'
      BY <2>1, <2>3 DEF ReportsType
    <2>5. (~late => JobsHold)'
      BY DEF ReportsType, JobsHold, Held
    <2>6. (~late => UpToDate)'
      BY <2>2, <2>3 DEF ReportsType, UpToDate, JobsHold, Whole, Due, Ordered, ReadyYears
    <2> QED BY <2>1, <2>4, <2>5, <2>6 DEF ReportsInv
  <1>6. ASSUME NEW y \in Years, YearStops(y) PROVE ReportsInv'
    <2>1. Kept
      BY <1>6, FootprintsStay DEF YearStops
    <2> USE <1>0, <1>6 DEF YearStops, vars, db
    <2>2. ReportsType'
      BY <2>1 DEF ReportsType
    <2>3. (~late => JobsHold)'
      BY DEF ReportsType, JobsHold, Held
    <2>4. (~late => UpToDate)'
      BY DEF ReportsType, UpToDate, Whole, Due, Ordered, ReadyYears
    <2> QED BY <2>1, <2>2, <2>3, <2>4 DEF ReportsInv
  <1>7. ASSUME NEW r \in Requests, RecomputeStart(r) PROVE ReportsInv'
    <2>1. Kept
      BY <1>7, FootprintsStay DEF RecomputeStart
    <2> USE <1>0, <1>7 DEF RecomputeStart, vars, db
    <2>2. CASE HasFootprint
      <3>1. /\ listed' = [listed EXCEPT ![r].from = [ground |-> Ground, layer |-> current]]
            /\ recompute' = [recompute EXCEPT ![r] = "running"]
            /\ [ground |-> Ground, layer |-> current] \in References
            /\ ~late => Held([ground |-> Ground, layer |-> current])
        BY <2>2, GroundIsWhole
      <3>2. ReportsType'
        BY <2>1, <3>1 DEF ReportsType
      <3>3. (~late => JobsHold)'
        BY <3>1 DEF ReportsType, JobsHold, Held
      <3>4. (~late => UpToDate)'
        BY <3>1 DEF ReportsType, UpToDate, Whole, Due, Ordered, ReadyYears
      <3> QED BY <2>1, <3>2, <3>3, <3>4 DEF ReportsInv
    <2>3. CASE ~HasFootprint
      <3>1. ReportsType'
        BY <2>1, <2>3 DEF ReportsType
      <3>2. (~late => JobsHold)'
        BY <2>3 DEF ReportsType, JobsHold, Held
      <3>3. (~late => UpToDate)'
        BY <2>3 DEF ReportsType, UpToDate, Whole, Due, Ordered, ReadyYears
      <3> QED BY <2>1, <3>1, <3>2, <3>3 DEF ReportsInv
    <2> QED BY <2>2, <2>3
  <1>8. ASSUME NEW r \in Requests, RecomputeList(r) PROVE ReportsInv'
    <2>1. Kept
      BY <1>8, FootprintsStay DEF RecomputeList
    <2> USE <1>0, <1>8 DEF RecomputeList, vars, db
    <2>2. ReportsType'
      BY <2>1 DEF ReportsType, ReadyYears
    <2>3. (~late => JobsHold)'
      BY DEF ReportsType, JobsHold, Held
    <2>4. (~late => UpToDate)'
      BY DEF ReportsType, UpToDate, Whole, Due, Ordered, ReadyYears
    <2> QED BY <2>1, <2>2, <2>3, <2>4 DEF ReportsInv
  <1>9. ASSUME NEW r \in Requests, RecomputeEnd(r) PROVE ReportsInv'
    <2>1. Kept
      BY <1>9, FootprintsStay DEF RecomputeEnd
    <2> USE <1>0, <1>9 DEF RecomputeEnd, vars, db
    <2>2. listed[r].from \in References /\ listed[r].years \in SUBSET Years
      BY DEF ReportsType
    <2>3. /\ report' \in [Years -> References]
          /\ \A z \in Years \ listed[r].years : report'[z] = report[z] /\ (z \in stale' <=> z \in stale)
          /\ Held(listed[r].from) => \A z \in listed[r].years : z \notin stale' => report'[z] = Whole
      BY <2>2, ReportWritten
    <2>4. ReportsType'
      BY <2>1, <2>3 DEF ReportsType
    <2>5. (~late => JobsHold)'
      BY DEF ReportsType, JobsHold, Held
    <2>6. (~late => UpToDate)'
      BY <2>2, <2>3 DEF ReportsType, UpToDate, JobsHold, Whole, Due, Ordered, ReadyYears
    <2> QED BY <2>1, <2>4, <2>5, <2>6 DEF ReportsInv
  <1>10. ASSUME NEW r \in Requests, RecomputeFails(r) PROVE ReportsInv'
    <2>1. Kept
      BY <1>10, FootprintsStay DEF RecomputeFails
    <2> USE <1>0, <1>10 DEF RecomputeFails, vars, db
    <2>2. ReportsType'
      BY <2>1 DEF ReportsType
    <2>3. (~late => JobsHold)'
      BY DEF ReportsType, JobsHold, Held
    <2>4. (~late => UpToDate)'
      BY DEF ReportsType, UpToDate, Whole, Due, Ordered, ReadyYears
    <2> QED BY <2>1, <2>2, <2>3, <2>4 DEF ReportsInv
  <1> QED BY <1>1, <1>2, <1>3, <1>4, <1>5, <1>6, <1>7, <1>8, <1>9, <1>10 DEF CoverageNext

\* Unless the recomputation queued with the current layer is due or failed, a ready year reports the
\* coverage of that layer (parcels/ingest.py:134), whatever earlier recomputations did or
\* failed to do; a request that came late is excepted, and so is a year whose last report
\* was written by a job that a layer overtook.
THEOREM ReportsStayCurrent == CoverageSpec => []ReportsAreCurrent
  <1>1. ReportsInv /\ UNCHANGED allVars => ReportsInv'
    BY DEF ReportsInv, ReportsType, JobsHold, Held, UpToDate, Whole, Due, Ordered, ReadyYears,
           allVars, vars, db, reports
  <1>2. LInv /\ ReportsInv => ReportsAreCurrent
    BY DEF ReportsInv, UpToDate, Due, ReportsAreCurrent
  <1>3. LInv /\ ReportsInv /\ [CoverageNext]_allVars => ReportsInv'
    BY <1>1, ReportsNext
  <1> QED BY <1>2, <1>3, ReportsInit, CoverageKeepsLayers, LayersInvariant, PTL DEF CoverageSpec
================================================================================
