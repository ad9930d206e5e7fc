--------------------------- MODULE SessionMachine ---------------------------
(***************************************************************************)
(* The M2-Live session state machine                                       *)
(* (src/screen2xyz_m2/statemachine.py): one action per transition method   *)
(* of SessionStateMachine, guarded by the legality table _LEGAL and by the *)
(* worker interlock.  Every other part of the program that moves the       *)
(* session does it through these methods; LiveSession is shown to          *)
(* implement this module.                                                  *)
(***************************************************************************)
EXTENDS Integers

CONSTANTS
  MaxRevision,  \* bound on configuration_revision, an unbounded int in the code
  NoRevision    \* the code's None

ASSUME RevisionAssumption ==
  /\ MaxRevision \in Nat
  /\ NoRevision \notin Nat

VARIABLES
  state,                       \* SessionStateMachine.state
  setup_worker_blocked,        \* the orthogonal worker interlock
  preview_confirmed_revision,  \* revision the owner confirmed, or None
  configuration_revision       \* bumped by every configuration change

vars == <<state, setup_worker_blocked, preview_confirmed_revision,
          configuration_revision>>

States == {"IDLE", "TARGET_SELECTED", "REGIONS_CONFIGURED", "ARMED",
           "RECORDING", "PAUSED", "STOPPING", "FINALIZED"}

SetupStates == {"TARGET_SELECTED", "REGIONS_CONFIGURED", "ARMED"}
ConfirmedStates == {"ARMED", "RECORDING", "PAUSED"}
RunStates == {"RECORDING", "PAUSED"}
-----------------------------------------------------------------------------
(* The legality table: the states in which a session action may run. *)

Actions == {"select_target", "edit_sources", "region_snapshot", "preview",
            "confirm_preview", "start_recording", "pause", "resume",
            "reconfigure", "stop", "emergency_stop", "retry_worker"}

Legal ==
  [select_target   |-> {"IDLE", "TARGET_SELECTED", "REGIONS_CONFIGURED",
                        "ARMED", "PAUSED", "FINALIZED"},
   edit_sources    |-> SetupStates,
   region_snapshot |-> {"TARGET_SELECTED", "REGIONS_CONFIGURED"},
   preview         |-> {"REGIONS_CONFIGURED"},
   confirm_preview |-> {"REGIONS_CONFIGURED"},
   start_recording |-> {"ARMED"},
   pause           |-> {"RECORDING"},
   resume          |-> {"PAUSED"},
   reconfigure     |-> {"ARMED", "PAUSED"},
   stop            |-> ConfirmedStates,
   emergency_stop  |-> ConfirmedStates,
   retry_worker    |-> SetupStates]

WorkerDependent == {"region_snapshot", "preview", "confirm_preview",
                    "start_recording"}

IsLegal(action) ==
  /\ state \in Legal[action]
  /\ action \in WorkerDependent => ~setup_worker_blocked
  /\ action = "retry_worker" => setup_worker_blocked
-----------------------------------------------------------------------------
(* Transitions. *)

BumpRevision ==
  /\ configuration_revision < MaxRevision
  /\ configuration_revision' = configuration_revision + 1
  /\ preview_confirmed_revision' = NoRevision

SelectTarget ==
  /\ IsLegal("select_target")
  /\ state' = IF state \in {"TARGET_SELECTED", "REGIONS_CONFIGURED"}
              THEN state ELSE "TARGET_SELECTED"
  /\ BumpRevision
  /\ UNCHANGED setup_worker_blocked

SourcesConfigured ==
  /\ IsLegal("edit_sources")
  /\ state' = "REGIONS_CONFIGURED"
  /\ BumpRevision
  /\ UNCHANGED setup_worker_blocked

ConfirmPreview ==
  /\ IsLegal("confirm_preview")
  /\ preview_confirmed_revision' = configuration_revision
  /\ state' = "ARMED"
  /\ UNCHANGED <<setup_worker_blocked, configuration_revision>>

StartRecording ==
  /\ IsLegal("start_recording")
  /\ preview_confirmed_revision = configuration_revision
  /\ state' = "RECORDING"
  /\ UNCHANGED <<setup_worker_blocked, preview_confirmed_revision,
                 configuration_revision>>

Pause ==
  /\ IsLegal("pause")
  /\ state' = "PAUSED"
  /\ UNCHANGED <<setup_worker_blocked, preview_confirmed_revision,
                 configuration_revision>>

Resume ==
  /\ IsLegal("resume")
  /\ state' = "RECORDING"
  /\ UNCHANGED <<setup_worker_blocked, preview_confirmed_revision,
                 configuration_revision>>

(* Mutant: a paused run is reconfigured where it is. *)
ReconfigureInPlace ==
  /\ IsLegal("reconfigure")
  /\ state' = IF state = "PAUSED" THEN "PAUSED" ELSE "REGIONS_CONFIGURED"
  /\ BumpRevision
  /\ UNCHANGED setup_worker_blocked

Reconfigure ==
  /\ IsLegal("reconfigure")
  /\ state' = "REGIONS_CONFIGURED"
  /\ BumpRevision
  /\ UNCHANGED setup_worker_blocked

(* Stop of a ready session only cancels it: the revision is not bumped, so
   preview_confirmed_revision survives in REGIONS_CONFIGURED. *)
Stop ==
  /\ IsLegal("stop")
  /\ state' = IF state \in RunStates THEN "STOPPING" ELSE "REGIONS_CONFIGURED"
  /\ UNCHANGED <<setup_worker_blocked, preview_confirmed_revision,
                 configuration_revision>>

Finalized ==
  /\ state = "STOPPING"
  /\ state' = "FINALIZED"
  /\ UNCHANGED <<setup_worker_blocked, preview_confirmed_revision,
                 configuration_revision>>

(* The controller raises the interlock after three setup failures
   (controller.py, ensure_worker and _setup_request) and lowers it after a
   successful Retry. *)
Block ==
  /\ state \in SetupStates
  /\ setup_worker_blocked' = TRUE
  /\ UNCHANGED <<state, preview_confirmed_revision, configuration_revision>>

Unblock ==
  /\ IsLegal("retry_worker")
  /\ setup_worker_blocked' = FALSE
  /\ UNCHANGED <<state, preview_confirmed_revision, configuration_revision>>
-----------------------------------------------------------------------------
Init ==
  /\ state = "IDLE"
  /\ setup_worker_blocked = FALSE
  /\ preview_confirmed_revision = NoRevision
  /\ configuration_revision = 0

Next ==
  \/ SelectTarget \/ SourcesConfigured \/ ConfirmPreview \/ StartRecording
  \/ Pause \/ Resume \/ Reconfigure \/ Stop \/ Finalized
  \/ Block \/ Unblock

Spec == Init /\ [][Next]_vars
-----------------------------------------------------------------------------
(* Properties. *)

(* The four fields of SessionStateMachine keep their types; the revision
   stays within its bound. *)
TypeOK ==
  /\ state \in States
  /\ setup_worker_blocked \in BOOLEAN
  /\ preview_confirmed_revision \in Nat \cup {NoRevision}
  /\ configuration_revision \in 0..MaxRevision

(* A confirmation never outlives the configuration it was given for: the
   session holds either no confirmation or one of the current revision,
   whatever sequence of edits, stops and reconfigurations led here. *)
ConfirmationCurrent ==
  preview_confirmed_revision \in {NoRevision, configuration_revision}

(* A session that is ready, recording or paused is backed by an owner
   confirmation of exactly the configuration in force (the staleness check
   of start_recording can therefore never fire). *)
PreviewCurrent ==
  state \in ConfirmedStates =>
    preview_confirmed_revision = configuration_revision

(* The setup interlock never leaks into a recording: while it is up the
   session is still in a setup state. *)
BlockedOnlyInSetup ==
  setup_worker_blocked => state \in SetupStates

(* A run is entered only through the ready state or by resuming a paused
   run, and a resumed run still has the revision it was paused with: no path
   reaches RECORDING around a confirmation. *)
RecordingReviewed ==
  [][state' = "RECORDING" /\ state # "RECORDING" =>
       /\ state \in {"ARMED", "PAUSED"}
       /\ configuration_revision' = configuration_revision
       /\ preview_confirmed_revision = configuration_revision]_vars
=============================================================================
