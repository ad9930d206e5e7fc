----------------------------- MODULE LiveSession -----------------------------
(***************************************************************************)
(* One recording session as the owner drives it: the handlers of the user  *)
(* interface (src/screen2xyz_m2/ui/app.py) on top of the controller, from  *)
(* the creation of a controller to the moment it is dropped or the window  *)
(* is closed.  A handler runs on the one UI thread, so it is one step;     *)
(* where a handler makes two moves of the session machine in a row the     *)
(* model takes two steps, with nothing else of that thread in between.     *)
(***************************************************************************)
EXTENDS SessionController

CONSTANTS
  MaxEdits,  \* bound on the edits of the field table
  NoReview   \* nothing was previewed yet

ASSUME LiveSessionAssumption ==
  /\ MaxEdits \in Nat
  /\ NoReview \notin [fields : Nat, backend : Backends, revision : Int]

VARIABLES
  screen,       \* the screen on display
  gate,         \* the modal preview gate is open over the screen
  chosen,       \* the backend combobox
  fields,       \* version of the field table, which the controller shares
  reviewed,     \* history: what the last full preview showed
  invalidated,  \* history: revision of the last pause that needs recovery
  recovering    \* inside _disarm_and_repreview, after reconfigure()

uiVars == <<screen, gate, chosen, fields, reviewed, invalidated, recovering>>

sessionVars == <<vars, controllerVars, uiVars>>

Screens == {"setup", "ready", "recording", "finalized", "closed"}

(* Mutant: the gate does not grab the setup screen behind it. *)
SetupBehindGate ==
  /\ screen = "setup"
  /\ state \notin {"IDLE", "TARGET_SELECTED"}

(* The setup screen answers, with a controller bound to target and fields. *)
InSetup ==
  /\ screen = "setup" /\ ~gate
  /\ state \notin {"IDLE", "TARGET_SELECTED"}

OnRecording == screen = "recording" /\ ~gate /\ ~recovering
-----------------------------------------------------------------------------
(* Setup. *)

(* _ensure_controller, first call: a new controller selects its target and
   configures its fields at once. *)
CreateController ==
  /\ screen = "setup"
  /\ (state = "IDLE" /\ SelectTarget)
       \/ (state = "TARGET_SELECTED" /\ SourcesConfigured)
  /\ UNCHANGED <<controllerVars, uiVars>>

(* Adding, removing, editing or redrawing a field: the controller holds the
   same list, and is not told. *)
EditFields ==
  /\ InSetup
  /\ fields < MaxEdits
  /\ fields' = fields + 1
  /\ UNCHANGED <<vars, controllerVars, screen, gate, chosen, reviewed,
                 invalidated, recovering>>

ChooseBackend ==
  /\ InSetup
  /\ chosen' \in Backends \ {chosen}
  /\ UNCHANGED <<vars, controllerVars, screen, gate, fields, reviewed,
                 invalidated, recovering>>

RetryClicked ==
  /\ InSetup
  /\ RetryWorker
  /\ UNCHANGED uiVars

(* Test capture, Retest, and the snapshot behind Draw region.  Like every
   later handler of this screen it first takes over the combobox. *)
TestCapture ==
  /\ InSetup
  /\ RegionSnapshot(chosen)
  /\ UNCHANGED uiVars

(* The picker's readout of one region, and each of Re-test all regions: to
   the worker this is a PREVIEW, to the owner it reviews nothing. *)
PreviewOneRegion ==
  /\ InSetup
  /\ \E o \in SetupOutcomes("PREVIEW", backend) : PreviewRegions(backend, o)
  /\ UNCHANGED uiVars

(* A preview of all fields: on success the gate opens on what it showed. *)
ShowPreview(b, shown) ==
  \E o \in SetupOutcomes("PREVIEW", b) :
    /\ PreviewRegions(b, o)
    /\ gate' = (o.answer = "OK")
    /\ reviewed' = IF o.answer = "OK"
                   THEN [fields |-> shown, backend |-> b,
                         revision |-> configuration_revision]
                   ELSE reviewed

PreviewAll ==
  /\ InSetup
  /\ ShowPreview(chosen, fields)
  /\ UNCHANGED <<screen, chosen, fields, invalidated, recovering>>

(* The gate offers to switch the type of a field that cannot be read: the
   switch edits the fields and previews again. *)
FixTypes ==
  /\ gate
  /\ fields < MaxEdits
  /\ fields' = fields + 1
  /\ ShowPreview(chosen, fields + 1)
  /\ UNCHANGED <<screen, chosen, invalidated, recovering>>

BackToSetup ==
  /\ gate
  /\ gate' = FALSE
  /\ UNCHANGED <<vars, controllerVars, screen, chosen, fields, reviewed,
                 invalidated, recovering>>

Confirm ==
  /\ gate
  /\ gate' = FALSE
  /\ \E o \in SetupOutcomes("ARM", backend) :
       /\ ConfirmPreviewAndArm(o)
       /\ screen' = IF o.answer = "OK" THEN "ready" ELSE screen
  /\ UNCHANGED <<chosen, fields, reviewed, invalidated, recovering>>

StartClicked ==
  /\ screen = "ready"
  /\ \E o \in SetupOutcomes("RECORD_START", backend) :
       /\ BeginRecording(o)
       /\ screen' = IF o.answer = "OK" THEN "recording" ELSE screen
  /\ UNCHANGED <<gate, chosen, fields, reviewed, invalidated, recovering>>
-----------------------------------------------------------------------------
(* Recording. *)

Tick ==
  /\ screen = "recording"
  /\ FrameTick \/ \E stored \in BOOLEAN : FailedTick(stored)
  /\ invalidated' = IF pause_state' \in NeedsRecovery
                    THEN configuration_revision ELSE invalidated
  /\ UNCHANGED <<screen, gate, chosen, fields, reviewed, recovering>>

PauseClicked ==
  /\ OnRecording
  /\ UserPause
  /\ UNCHANGED uiVars

ResumeClicked ==
  /\ OnRecording
  /\ UserResume
  /\ UNCHANGED uiVars

(* _disarm_and_repreview, and _reselect_target_for_recovery, which first
   drops the worker bound to the lost window.  A second click finds the
   session no longer PAUSED and is refused. *)
Disarm ==
  /\ OnRecording
  /\ pause_state \in NeedsRecovery
  /\ state = "PAUSED"
  /\ Reconfigure
  /\ worker' = IF pause_state = "reresolve" THEN NoWorker ELSE worker
  /\ recovering' = TRUE
  /\ UNCHANGED <<backend, setup_failures, recording_failures, counted,
                 pause_state, screen, gate, chosen, fields, reviewed,
                 invalidated>>

Repreview ==
  /\ recovering
  /\ recovering' = FALSE
  /\ ShowPreview(backend, fields)
  /\ UNCHANGED <<screen, chosen, fields, invalidated>>

(* Stop and Esc: the run is closed in two moves of the session machine. *)
StopClicked ==
  /\ OnRecording
  /\ StopRun
  /\ UNCHANGED uiVars

(* Whatever finalize did, the finalized screen is shown. *)
ShowFinalized ==
  /\ screen = "recording"
  /\ Finalize
  /\ screen' = "finalized"
  /\ UNCHANGED <<gate, chosen, fields, reviewed, invalidated, recovering>>

(* Stop when no run is in progress any more: the controller refuses, the
   handler swallows the refusal and shows the finalized screen. *)
StopRefused ==
  /\ OnRecording
  /\ state \notin Legal["stop"] \cup {"STOPPING"}
  /\ screen' = "finalized"
  /\ UNCHANGED <<vars, controllerVars, gate, chosen, fields, reviewed,
                 invalidated, recovering>>

(* _drop_controller (a new target, New session) and closing the window tear
   the worker down and touch nothing else: this controller is gone. *)
Leave ==
  /\ screen # "closed" /\ ~gate /\ ~recovering
  /\ state # "TARGET_SELECTED"
  /\ state = "STOPPING" => screen = "finalized"
  /\ screen' = "closed"
  /\ worker' = NoWorker
  /\ UNCHANGED <<vars, backend, setup_failures, recording_failures, counted,
                 pause_state, gate, chosen, fields, reviewed, invalidated,
                 recovering>>
-----------------------------------------------------------------------------
LiveInit ==
  /\ ControllerInit
  /\ screen = "setup"
  /\ gate = FALSE
  /\ chosen = backend
  /\ fields = 0
  /\ reviewed = NoReview
  /\ invalidated = -1
  /\ recovering = FALSE

LiveNext ==
  \/ CreateController \/ EditFields \/ ChooseBackend \/ RetryClicked
  \/ TestCapture \/ PreviewOneRegion \/ PreviewAll \/ FixTypes
  \/ BackToSetup \/ Confirm \/ StartClicked \/ Tick \/ PauseClicked
  \/ ResumeClicked \/ Disarm \/ Repreview \/ StopClicked \/ ShowFinalized
  \/ StopRefused \/ Leave
  \/ WorkerDies /\ UNCHANGED uiVars

LiveSpec == LiveInit /\ [][LiveNext]_sessionVars
-----------------------------------------------------------------------------
(* Properties. *)

LiveTypeOK ==
  /\ TypeOK
  /\ worker \in Workers \cup {NoWorker}
  /\ backend \in Backends
  /\ setup_failures \in 0..FAILURE_STREAK_LIMIT
  /\ recording_failures \in 0..FAILURE_STREAK_LIMIT
  /\ counted \in BOOLEAN
  /\ pause_state \in Pauses
  /\ screen \in Screens
  /\ gate \in BOOLEAN
  /\ chosen \in Backends
  /\ fields \in 0..MaxEdits
  /\ reviewed \in [fields : 0..MaxEdits, backend : Backends,
                   revision : 0..MaxRevision] \cup {NoReview}
  /\ invalidated \in -1..MaxRevision
  /\ recovering \in BOOLEAN

(* What is armed, recorded or paused is exactly what a full preview showed
   the owner: the same fields, the same backend, the same configuration
   revision.  Field edits do not bump the revision and a one-region preview
   satisfies the worker's ARM, so this rests on the modal gate, on the
   screens that offer edits, and on every respawn using the same backend. *)
ReviewedConfiguration ==
  state \in ConfirmedStates =>
    reviewed = [fields |-> fields, backend |-> backend,
                revision |-> configuration_revision]

(* A live worker is never out of step with the session, whatever died, was
   respawned, paused or reconfigured in between: it would accept the next
   request the session may send it, at the revision it would carry. *)
WorkerInStep ==
  Alive =>
    CASE state = "RECORDING" ->
           worker.mode = "RECORDING" /\ worker.revision = configuration_revision
      [] state = "PAUSED" ->
           /\ worker.mode \in {"RECORDING", "PAUSED"}
           /\ worker.revision = configuration_revision
      [] state = "ARMED" ->
           worker.mode = "ARMED" /\ worker.revision = configuration_revision
      [] state = "REGIONS_CONFIGURED" ->
           \/ worker.revision # configuration_revision
           \/ worker.mode \in {"SETUP", "PREVIEWED"}
      [] OTHER -> FALSE

(* The session never records without a worker process to ask (the assertion
   in tick), and what it asks runs the backend the owner reviewed. *)
RecordingHasWorker ==
  state = "RECORDING" /\ screen # "closed" =>
    worker # NoWorker /\ worker.backend = reviewed.backend

(* After a pause for a changed or lost window nothing is captured at the
   configuration that was in force then: recording goes on only at a later
   revision, reviewed again. *)
NoCaptureOfInvalidated ==
  state = "RECORDING" => invalidated < configuration_revision

(* While the setup interlock is up no worker exists and the failure count
   stands at its limit, so no request can slip past it. *)
BlockedHasNoWorker ==
  setup_worker_blocked =>
    worker = NoWorker /\ setup_failures = FAILURE_STREAK_LIMIT

(* Stop always produces a finalized session: the finalized screen is shown
   of a session that is finalized, or whose finalization failed on disk.
   The code does not keep this. *)
StopAlwaysFinalizes ==
  screen = "finalized" => state \in {"STOPPING", "FINALIZED"}
=============================================================================
