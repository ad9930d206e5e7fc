---------------------------- MODULE CaptureWorker ----------------------------
(***************************************************************************)
(* The capture worker's command loop                                       *)
(* (src/screen2xyz_m2/adapters/capture_worker_windows.ps1), as pure        *)
(* operators on a worker record: the mode and revision it latched, the     *)
(* revision it last previewed and the backend it was spawned with.  A      *)
(* generation is one process; the client spawns a new record instead of    *)
(* reusing a dead one.                                                     *)
(***************************************************************************)
EXTENDS Integers

WorkerModes == {"SETUP", "PREVIEWED", "ARMED", "RECORDING", "PAUSED", "STOPPED"}

SetupCommands == {"REGION_SNAPSHOT", "PREVIEW"}

(* Mutant: a new generation always starts in SETUP. *)
RestoredToSetup(session_state, revision, backend) ==
  [alive |-> TRUE, mode |-> "SETUP", revision |-> revision,
   previewed |-> -1, backend |-> backend]

(* INIT: the mode a new generation restores from the session's state. *)
Restored(session_state, revision, backend) ==
  [alive     |-> TRUE,
   mode      |-> IF session_state \in {"ARMED", "RECORDING", "PAUSED"}
                 THEN session_state ELSE "SETUP",
   revision  |-> revision,
   previewed |-> -1,
   backend   |-> backend]

(* A setup command carries a new configuration in: it drops the worker back
   to SETUP and forgets what was previewed.  Every other command leaves the
   worker at its own revision. *)
Synced(w, command, revision) ==
  IF command \in SetupCommands /\ revision # w.revision
  THEN [w EXCEPT !.revision = revision, !.mode = "SETUP", !.previewed = -1]
  ELSE w

(* The modes in which each command of a recording session is accepted. *)
AcceptingModes ==
  [REGION_SNAPSHOT |-> WorkerModes \ {"RECORDING", "PAUSED"},
   PREVIEW         |-> WorkerModes \ {"RECORDING", "PAUSED", "ARMED"},
   ARM             |-> {"PREVIEWED"},
   RECORD_START    |-> {"ARMED"},
   CAPTURE         |-> {"RECORDING"},
   PAUSE           |-> {"RECORDING"},
   RESUME          |-> {"PAUSED"}]

(* The session states, as told by the request, that allow a setup command. *)
AcceptingSessions ==
  [REGION_SNAPSHOT |-> {"TARGET_SELECTED", "REGIONS_CONFIGURED"},
   PREVIEW         |-> {"REGIONS_CONFIGURED"}]

Accepts(w, command, session_state) ==
  /\ w.mode \in AcceptingModes[command]
  /\ command \in SetupCommands =>
       session_state \in AcceptingSessions[command]
  /\ command = "ARM" => w.previewed = w.revision

(* PREVIEW marks the revision as previewed whether or not the capture
   succeeded, and for however few regions it was asked for. *)
Executed(w, command) ==
  CASE command = "PREVIEW"      -> [w EXCEPT !.mode = "PREVIEWED",
                                             !.previewed = w.revision]
    [] command = "ARM"          -> [w EXCEPT !.mode = "ARMED"]
    [] command = "RECORD_START" -> [w EXCEPT !.mode = "RECORDING"]
    [] command = "PAUSE"        -> [w EXCEPT !.mode = "PAUSED"]
    [] command = "RESUME"       -> [w EXCEPT !.mode = "RECORDING"]
    [] OTHER                    -> w

(* One round trip of the command loop: "OK", "REFUSED" (a PROTOCOL_ERROR
   reply), or "DROPPED" when the reply carries a revision that the client
   does not take for an answer. *)
Handle(w, command, session_state, revision) ==
  LET s == Synced(w, command, revision)
  IN  CASE s.revision # revision ->
             [worker |-> s, answer |-> "DROPPED"]
        [] s.revision = revision /\ Accepts(s, command, session_state) ->
             [worker |-> Executed(s, command), answer |-> "OK"]
        [] OTHER ->
             [worker |-> s, answer |-> "REFUSED"]
=============================================================================
