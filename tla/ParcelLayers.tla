----------------------------- MODULE ParcelLayers ------------------------------
(***************************************************************************)
(* The parcel layers of one county: the requests that create a layer and   *)
(* choose its parcel-id field (api/parcel_layers.py), and the two jobs     *)
(* that inspect its file and copy its parcels (parcels/ingest.py).         *)
(*                                                                         *)
(* A request reads the layer, then writes it; between the two, another     *)
(* request or a job may write it.  Each ingest request queues its own job, *)
(* so the job is named after the request.  Jobs run concurrently: there    *)
(* may be several workers.                                                 *)
(***************************************************************************)
EXTENDS Naturals

CONSTANTS
    Layers, NoLayer,
    Fields, NoField,    \* the columns of the files
    RefsOf,             \* RefsOf[f]: the parcel references column f yields
    Requests,           \* requests to ingest a layer
    MaxFaults           \* bound: workers that die in a behaviour

ASSUME ParcelLayersAssumption ==
    /\ NoLayer \notin Layers
    /\ NoField \notin Fields
    /\ MaxFaults \in Nat

VARIABLES
    status,     \* status[l]: parcel_layers.status; "absent" before the row exists
    field,      \* field[l]: parcel_layers.parcel_id_field
    rows,       \* rows[l]: the parcel references of l in the parcels table
    current,    \* tenants.current_parcel_layer_id
    req,        \* req[r]: what ingest request r asked, and how far it is
    inspecting, \* inspecting[l]: the inspect job of l
    ingesting,  \* ingesting[r]: the ingest job queued by r
    loaded,     \* loaded[r]: the field the job of r read from the layer
    late,       \* a request was committed on a layer that had changed since it read it (history)
    faults

db   == <<status, field, rows, current>>
vars == <<db, req, inspecting, ingesting, loaded, late, faults>>

LayerStatuses == {"uploaded", "inspecting", "awaiting_field", "ingesting", "ready", "failed"}
JobStates     == {"absent", "queued", "running", "ended", "dead"}

Init ==
    /\ status = [l \in Layers |-> "absent"]
    /\ field = [l \in Layers |-> NoField]
    /\ rows = [l \in Layers |-> {}]
    /\ current = NoLayer
    /\ req = [r \in Requests |-> [pc |-> "idle", layer |-> NoLayer, field |-> NoField, saw |-> "absent"]]
    /\ inspecting = [l \in Layers |-> "absent"]
    /\ ingesting = [r \in Requests |-> "absent"]
    /\ loaded = [r \in Requests |-> NoField]
    /\ late = FALSE
    /\ faults = 0

--------------------------------------------------------------------------------
(* Requests.                                                               *)

CreateLayer(l) ==
    /\ status[l] = "absent"
    /\ status' = [status EXCEPT ![l] = "uploaded"]
    /\ inspecting' = [inspecting EXCEPT ![l] = "queued"]
    /\ UNCHANGED <<field, rows, current, req, ingesting, loaded, late, faults>>

\* Faulty variant: a layer may be ingested again, with another field.
MayIngestAgain(l) == status[l] \in {"awaiting_field", "ready", "failed"}

MayIngest(l) == status[l] = "awaiting_field"

IngestRead(r, l, f) ==
    /\ req[r].pc = "idle"
    /\ MayIngest(l)
    /\ req' = [req EXCEPT ![r] = [pc |-> "read", layer |-> l, field |-> f, saw |-> status[l]]]
    /\ UNCHANGED <<db, inspecting, ingesting, loaded, late, faults>>

IngestCommit(r) ==
    /\ req[r].pc = "read"
    /\ req' = [req EXCEPT ![r].pc = "done"]
    /\ field' = [field EXCEPT ![req[r].layer] = req[r].field]
    /\ status' = [status EXCEPT ![req[r].layer] = "ingesting"]
    /\ ingesting' = [ingesting EXCEPT ![r] = "queued"]
    /\ late' = (late \/ status[req[r].layer] # req[r].saw)
    /\ UNCHANGED <<rows, current, inspecting, loaded, faults>>

--------------------------------------------------------------------------------
(* parcel_layer.inspect                                                    *)

InspectStart(l) ==
    /\ inspecting[l] = "queued"
    /\ inspecting' = [inspecting EXCEPT ![l] = "running"]
    /\ status' = [status EXCEPT ![l] = "inspecting"]
    /\ UNCHANGED <<field, rows, current, req, ingesting, loaded, late, faults>>

\* The file is readable and its fields are recorded, or the layer is failed.
InspectEnd(l) ==
    /\ inspecting[l] = "running"
    /\ inspecting' = [inspecting EXCEPT ![l] = "ended"]
    /\ \E s \in {"awaiting_field", "failed"} : status' = [status EXCEPT ![l] = s]
    /\ UNCHANGED <<field, rows, current, req, ingesting, loaded, late, faults>>

--------------------------------------------------------------------------------
(* parcel_layer.ingest                                                     *)

IngestStart(r) ==
    /\ ingesting[r] = "queued"
    /\ ingesting' = [ingesting EXCEPT ![r] = "running"]
    /\ loaded' = [loaded EXCEPT ![r] = field[req[r].layer]]
    /\ UNCHANGED <<db, req, inspecting, late, faults>>

\* Faulty variant: the copy stops at the first row it cannot read, and the layer becomes
\* current all the same.
ActivateEarly(r, l) ==
    /\ \E part \in SUBSET RefsOf[loaded[r]] : rows' = [rows EXCEPT ![l] = @ \cup part]
    /\ status' = [status EXCEPT ![l] = "ready"]
    /\ current' = l

\* The copy and its consequences, in one commit.
Activate(r, l) ==
    /\ rows' = [rows EXCEPT ![l] = @ \cup RefsOf[loaded[r]]]
    /\ status' = [status EXCEPT ![l] = "ready"]
    /\ current' = l

\* COPY meets the unique key (layer_id, parcel_ref).
Collides(r) == rows[req[r].layer] \cap RefsOf[loaded[r]] # {}

Copied(r) == ~Collides(r) /\ Activate(r, req[r].layer)

\* Faulty variant: the parcels copied before the error are kept.
FailKeepingRows(r) ==
    /\ \E part \in SUBSET RefsOf[loaded[r]] :
          rows' = [rows EXCEPT ![req[r].layer] = @ \cup part]
    /\ status' = [status EXCEPT ![req[r].layer] = "failed"]
    /\ UNCHANGED current

\* Faulty variant: the message is recorded, the status is not.
FailUnmarked(r) == UNCHANGED <<status, rows, current>>

\* _fail_layer(): the transaction of the copy is rolled back.
FailLayer(r) ==
    /\ status' = [status EXCEPT ![req[r].layer] = "failed"]
    /\ UNCHANGED <<rows, current>>

\* A collision, or any other error while the file is read, fails the layer.
IngestEnd(r) ==
    /\ ingesting[r] = "running"
    /\ ingesting' = [ingesting EXCEPT ![r] = "ended"]
    /\ Copied(r) \/ FailLayer(r)
    /\ UNCHANGED <<field, req, inspecting, loaded, late, faults>>

--------------------------------------------------------------------------------

\* A worker dies under a job, which stays "running" in the jobs table for ever.
Die ==
    /\ faults < MaxFaults
    /\ faults' = faults + 1
    /\ \/ \E l \in Layers : /\ inspecting[l] = "running"
                            /\ inspecting' = [inspecting EXCEPT ![l] = "dead"]
                            /\ UNCHANGED ingesting
       \/ \E r \in Requests : /\ ingesting[r] = "running"
                              /\ ingesting' = [ingesting EXCEPT ![r] = "dead"]
                              /\ UNCHANGED inspecting
    /\ UNCHANGED <<db, req, loaded, late>>

InspectStep(l) == InspectStart(l) \/ InspectEnd(l)
IngestStep(r)  == IngestStart(r) \/ IngestEnd(r)

Next ==
    \/ \E l \in Layers : CreateLayer(l) \/ InspectStep(l)
    \/ \E r \in Requests :
          \/ \E l \in Layers, f \in Fields : IngestRead(r, l, f)
          \/ IngestCommit(r)
          \/ IngestStep(r)
    \/ Die

Spec == Init /\ [][Next]_vars

\* Workers drain the queue (JobQueue!EveryJobEnds), and a request that began ends.
FairSpec ==
    /\ Spec
    /\ \A l \in Layers : WF_vars(InspectStep(l))
    /\ \A r \in Requests : WF_vars(IngestStep(r)) /\ WF_vars(IngestCommit(r))

--------------------------------------------------------------------------------
(* Properties.                                                             *)

AllRefs == UNION {RefsOf[f] : f \in Fields}

TypeOK ==
    /\ status \in [Layers -> LayerStatuses \cup {"absent"}]
    /\ field \in [Layers -> Fields \cup {NoField}]
    /\ rows \in [Layers -> SUBSET AllRefs]
    /\ current \in Layers \cup {NoLayer}
    /\ req \in [Requests -> [pc : {"idle", "read", "done"},
                             layer : Layers \cup {NoLayer}, field : Fields \cup {NoField},
                             saw : LayerStatuses \cup {"absent"}]]
    /\ inspecting \in [Layers -> JobStates]
    /\ ingesting \in [Requests -> JobStates]
    /\ loaded \in [Requests -> Fields \cup {NoField}]
    /\ late \in BOOLEAN
    /\ faults \in 0..MaxFaults

\* The county's current layer is a ready one, and its parcels are all and only those of
\* the field it records: no ingest shows half a layer or two columns mixed
\* (ingest.py:116-144), unless a request came late.
CurrentIsWhole ==
    current # NoLayer /\ ~late =>
        status[current] = "ready" /\ rows[current] = RefsOf[field[current]]

\* Even then, a layer's parcels are those of whole ingests: an ingest that failed, or
\* whose worker died, leaves none (ingest.py:66-70, one transaction).
OnlyWholeIngests ==
    \A l \in Layers : \E fs \in SUBSET Fields : rows[l] = UNION {RefsOf[f] : f \in fs}

\* Once a layer has parcels they never change, so runs and coverage computed over it stay
\* comparable with it (runs.py:133-146 fixes parcels_total when the run is created),
\* unless a request came late.
ParcelsNeverChange ==
    [][~late => \A l \in Layers : rows[l] # {} => rows'[l] = rows[l]]_vars

\* Behind a layer that is not at rest there is a job of its own that will go on with it, or
\* one whose worker died, even when requests came late (api/parcel_layers.py:139-142,
\* parcels/ingest.py:66-70).
NoLayerLeftBehind ==
    \A l \in Layers :
        /\ status[l] = "uploaded" => inspecting[l] = "queued"
        /\ status[l] = "inspecting" => inspecting[l] \in {"running", "dead"}
        /\ status[l] = "ingesting" =>
              \E r \in Requests : /\ req[r].layer = l
                                  /\ ingesting[r] \in {"queued", "running", "dead"}

\* Every layer whose job is queued comes to rest, unless a worker dies.
LayersSettle ==
    \A l \in Layers :
        /\ status[l] = "uploaded" ~> status[l] \in {"awaiting_field", "failed"} \/ faults > 0
        /\ status[l] = "ingesting" ~> status[l] \in {"ready", "failed"} \/ faults > 0

\* An ingest is queued only for a layer that awaits its field (docs/plans/
\* 2026-09-21-parcel-structure-change-detection.md:416, "409 unless status is
\* awaiting_field").
IngestOnlyFromAwaitingField ==
    [][\A r \in Requests :
          ingesting[r] = "absent" /\ ingesting'[r] = "queued"
             => status[req[r].layer] = "awaiting_field"]_vars
================================================================================
