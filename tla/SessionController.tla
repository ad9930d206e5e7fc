-------------------------- MODULE SessionController --------------------------
(***************************************************************************)
(* The live-session controller (src/screen2xyz_m2/controller.py): the      *)
(* worker-lifecycle policy and the session operations, each an action on   *)
(* the session state machine and on the one capture worker.  The user      *)
(* interface calls these operations (LiveSession); a tick is one step here *)
(* and is taken apart in RecordingThreads.                                 *)
(***************************************************************************)
EXTENDS SessionMachine, CaptureWorker

CONSTANTS
  Backends,   \* the capture backends the owner can choose
  NoWorker    \* self.worker is None

Workers == [alive : BOOLEAN, mode : WorkerModes, revision : Int,
            previewed : Int, backend : Backends]

ASSUME ControllerAssumption == NoWorker \notin Workers

VARIABLES
  worker,              \* the current worker generation, or NoWorker
  backend,             \* the backend the owner asked this controller for
  setup_failures,      \* setup failures since the last setup success
  recording_failures,  \* recording failures since the last good capture
  counted,             \* _recording_counter_initialized
  pause_state          \* what the current pause demands before a resume

controllerVars == <<worker, backend, setup_failures, recording_failures,
                    counted, pause_state>>

FAILURE_STREAK_LIMIT == 3

(* "user" and "auto" pauses can be resumed; "repreview" (client size or DPI
   changed) and "reresolve" (target window gone) cannot. *)
Pauses == {"none", "user", "auto", "repreview", "reresolve"}
NeedsRecovery == {"repreview", "reresolve"}

(* Counters are only compared with the limit, so they saturate at it. *)
Count(n) == IF n < FAILURE_STREAK_LIMIT THEN n + 1 ELSE FAILURE_STREAK_LIMIT

Alive == worker # NoWorker /\ worker.alive

(* The generation _spawn_worker starts for backend b: it restores the
   machine's state. *)
Spawned(b) == Restored(state, configuration_revision, b)
-----------------------------------------------------------------------------
(* Setup context: every setup operation first makes sure of a worker, then
   sends it one request. *)

(* Mutant: a live worker is reused whatever backend it was spawned with. *)
EnsureAnyBackend(b) ==
  IF Alive
  THEN {[worker |-> worker, failures |-> setup_failures, blocked |-> FALSE]}
  ELSE {[worker |-> Spawned(b), failures |-> setup_failures,
         blocked |-> FALSE]}

(* ensure_worker: a live worker of the requested backend is reused; any
   other is replaced, by as many spawns as it takes, until the failure
   count reaches the limit and the interlock comes up. *)
EnsureOutcomes(b) ==
  LET attempted == {f \in setup_failures..FAILURE_STREAK_LIMIT :
                      f = setup_failures \/ f < FAILURE_STREAK_LIMIT}
  IN  IF Alive /\ worker.backend = b
      THEN {[worker |-> worker, failures |-> setup_failures, blocked |-> FALSE]}
      ELSE {[worker |-> Spawned(b), failures |-> f, blocked |-> FALSE] :
              f \in IF setup_worker_blocked THEN {} ELSE attempted}
           \cup {[worker |-> NoWorker, blocked |-> TRUE, failures |->
                    IF setup_worker_blocked THEN setup_failures
                    ELSE FAILURE_STREAK_LIMIT]}

(* request: the reply of the command loop, or a WorkerError (a dead worker,
   a timeout, or a reply that the client drops), after which every caller
   tears the worker down. *)
RequestOutcomes(w, command) ==
  LET reply == Handle(w, command, state, configuration_revision)
  IN  {[worker |-> NoWorker, answer |-> "ERROR"]}
      \cup (IF w.alive /\ reply.answer # "DROPPED" THEN {reply} ELSE {})

(* _setup_request: an error counts as a setup failure, a refusal neither
   counts nor tears down, an OK reply resets the counter. *)
SetupOutcomes(command, b) ==
  UNION {
    IF e.worker = NoWorker
    THEN {[worker |-> NoWorker, failures |-> e.failures,
           blocked |-> e.blocked, answer |-> "ERROR"]}
    ELSE {[worker   |-> r.worker,
           failures |-> CASE r.answer = "OK"      -> 0
                          [] r.answer = "REFUSED" -> e.failures
                          [] r.answer = "ERROR"   -> Count(e.failures),
           blocked  |-> /\ r.answer = "ERROR"
                        /\ Count(e.failures) = FAILURE_STREAK_LIMIT,
           answer   |-> r.answer] : r \in RequestOutcomes(e.worker, command)}
    : e \in EnsureOutcomes(b)}

(* The controller's share of a setup operation that ended as `o`. *)
AfterSetup(o) ==
  /\ worker' = o.worker
  /\ setup_failures' = o.failures

(* A setup operation that leaves the session where it is, but for the
   interlock. *)
SetupStep(o) ==
  /\ AfterSetup(o)
  /\ setup_worker_blocked' = (setup_worker_blocked \/ o.blocked)
  /\ UNCHANGED <<state, preview_confirmed_revision, configuration_revision,
                 recording_failures, counted, pause_state>>

(* Mutant: a successful Retry leaves the interlock up. *)
RetryKeepsInterlock ==
  /\ IsLegal("retry_worker")
  /\ \/ /\ worker' = Spawned(backend)
        /\ UNCHANGED <<vars, setup_failures>>
     \/ /\ worker' = NoWorker
        /\ setup_failures' = Count(setup_failures)
        /\ UNCHANGED vars
  /\ UNCHANGED <<backend, recording_failures, counted, pause_state>>

(* retry_worker: INIT only; the counter stays until a request succeeds. *)
RetryWorker ==
  /\ IsLegal("retry_worker")
  /\ \/ /\ worker' = Spawned(backend)
        /\ Unblock
        /\ UNCHANGED setup_failures
     \/ /\ worker' = NoWorker
        /\ setup_failures' = Count(setup_failures)
        /\ UNCHANGED vars
  /\ UNCHANGED <<backend, recording_failures, counted, pause_state>>

(* region_snapshot and preview, for the backend b that the handler has just
   asked for.  When the interlock is up ensure_worker has already raised. *)
RegionSnapshot(b) ==
  /\ state \in Legal["region_snapshot"]
  /\ backend' = b
  /\ \E o \in SetupOutcomes("REGION_SNAPSHOT", b) : SetupStep(o)

PreviewRegions(b, o) ==
  /\ state \in Legal["preview"]
  /\ backend' = b
  /\ o \in SetupOutcomes("PREVIEW", b)
  /\ SetupStep(o)

ConfirmPreviewAndArm(o) ==
  /\ IsLegal("confirm_preview")
  /\ o \in SetupOutcomes("ARM", backend)
  /\ IF o.answer = "OK"
     THEN ConfirmPreview /\ AfterSetup(o)
          /\ UNCHANGED <<recording_failures, counted, pause_state>>
     ELSE SetupStep(o)
  /\ UNCHANGED backend

BeginRecording(o) ==
  /\ IsLegal("start_recording")
  /\ o \in SetupOutcomes("RECORD_START", backend)
  /\ IF o.answer = "OK"
     THEN /\ StartRecording /\ AfterSetup(o)
          /\ recording_failures' = IF counted THEN recording_failures ELSE 0
          /\ counted' = TRUE
          /\ pause_state' = "none"
     ELSE SetupStep(o)
  /\ UNCHANGED backend
-----------------------------------------------------------------------------
(* Recording. *)

EnterPause(pause) ==
  /\ Pause
  /\ pause_state' = pause

(* A tick whose capture was answered: the frame may demand a pause. *)
FrameTick ==
  /\ state = "RECORDING"
  /\ [worker |-> worker, answer |-> "OK"] \in RequestOutcomes(worker, "CAPTURE")
  /\ recording_failures' = 0
  /\ \/ UNCHANGED <<vars, pause_state>>
     \/ \E pause \in {"auto", "repreview", "reresolve"} : EnterPause(pause)
  /\ UNCHANGED <<worker, backend, setup_failures, counted>>

(* _recording_failure: the worker is replaced unless this is the third
   failure in a row; a failed replacement counts too and pauses at once.
   `stored` tells whether the error event reached the journal: if not, the
   storage pause is entered first, and the replacement restores PAUSED. *)
FailedTick(stored) ==
  LET failures == Count(recording_failures)
      restored == IF stored THEN "RECORDING" ELSE "PAUSED"
  IN
  /\ state = "RECORDING"
  /\ \E r \in RequestOutcomes(worker, "CAPTURE") : r.answer # "OK"
  /\ \/ /\ failures = FAILURE_STREAK_LIMIT
        /\ worker' = NoWorker
        /\ recording_failures' = failures
        /\ EnterPause("auto")
     \/ /\ failures < FAILURE_STREAK_LIMIT
        /\ worker' = Restored(restored, configuration_revision, backend)
        /\ recording_failures' = failures
        /\ IF stored THEN UNCHANGED <<vars, pause_state>>
           ELSE EnterPause("auto")
     \/ /\ failures < FAILURE_STREAK_LIMIT
        /\ worker' = NoWorker
        /\ recording_failures' = Count(failures)
        /\ EnterPause("auto")
  /\ UNCHANGED <<backend, setup_failures, counted>>

(* user_pause: a worker that does not answer is dropped, a refusal is
   ignored; the session pauses either way. *)
UserPause ==
  /\ IsLegal("pause")
  /\ \E r \in RequestOutcomes(worker, "PAUSE") :
       /\ worker' = r.worker
       /\ recording_failures' = IF r.answer = "ERROR"
                                THEN Count(recording_failures)
                                ELSE recording_failures
  /\ EnterPause("user")
  /\ UNCHANGED <<backend, setup_failures, counted>>

(* Mutant: the recovery demanded by the pause is forgotten. *)
MayResumeAlways == TRUE

MayResume == pause_state \notin NeedsRecovery

(* user_resume: spawns a worker when there is none, then asks it to resume;
   as long as it answers, the session resumes. *)
UserResume ==
  /\ IsLegal("resume")
  /\ MayResume
  /\ LET resumed == IF Alive THEN worker ELSE Spawned(backend) IN
     \E r \in RequestOutcomes(resumed, "RESUME") :
       IF r.answer = "ERROR"
       THEN /\ worker' = NoWorker
            /\ recording_failures' = Count(recording_failures)
            /\ UNCHANGED <<vars, pause_state>>
       ELSE /\ worker' = r.worker
            /\ Resume
            /\ pause_state' = "none"
            /\ UNCHANGED recording_failures
  /\ UNCHANGED <<backend, setup_failures, counted>>

(* Mutant: a stopped run is final before finalize has run. *)
StopIsFinal ==
  /\ state \in RunStates
  /\ state' = "FINALIZED"
  /\ worker' = NoWorker
  /\ UNCHANGED <<setup_worker_blocked, preview_confirmed_revision,
                 configuration_revision, backend, setup_failures,
                 recording_failures, counted, pause_state>>

(* stop and emergency_stop of a run, up to finalize: they differ in how the
   worker is asked to go, and leave none behind. *)
StopRun ==
  /\ state \in RunStates
  /\ Stop
  /\ worker' = NoWorker
  /\ UNCHANGED <<backend, setup_failures, recording_failures, counted,
                 pause_state>>

(* finalize: reading the journal back or writing the exports may raise. *)
Finalize ==
  /\ Finalized \/ (state = "STOPPING" /\ UNCHANGED vars)
  /\ UNCHANGED controllerVars

(* The worker process ends on its own. *)
WorkerDies ==
  /\ Alive
  /\ worker' = [worker EXCEPT !.alive = FALSE]
  /\ UNCHANGED <<vars, backend, setup_failures, recording_failures, counted,
                 pause_state>>

ControllerInit ==
  /\ Init
  /\ worker = NoWorker
  /\ backend \in Backends
  /\ setup_failures = 0
  /\ recording_failures = 0
  /\ counted = FALSE
  /\ pause_state = "none"
=============================================================================
