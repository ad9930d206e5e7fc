-------------------------- MODULE LiveSessionProofs --------------------------
(***************************************************************************)
(* The session state machine and the live session that implements it, for  *)
(* every set of backends and every bound on the revision and on the edits  *)
(* of the field table.  First the machine: a confirmation is only ever     *)
(* written as the revision in force and erased by every bump, so it is     *)
(* current or absent; the three confirmed states are entered by the        *)
(* confirmation itself or from one another, and every bump leaves them.    *)
(* Then the session: every handler of the user interface makes one         *)
(* transition of the machine or none, so what was shown of the machine     *)
(* holds of the session; what the worker and the screens add is the rest   *)
(* of the inductive invariant.                                             *)
(***************************************************************************)
EXTENDS LiveSession, TLAPS
-----------------------------------------------------------------------------
(* The session state machine. *)

(* The inductive invariant: the properties, with the confirmation being
   current or absent in every state, which is what stop and the setup edits
   leave behind. *)
IInv ==
  /\ TypeOK
  /\ ConfirmationCurrent
  /\ PreviewCurrent
  /\ BlockedOnlyInSetup

(* The initial session satisfies the invariant. *)
LEMMA InitIInv == Init => IInv
<1> SUFFICES ASSUME Init PROVE IInv
  OBVIOUS
<1>1. TypeOK
  <2>1. setup_worker_blocked \in BOOLEAN
    BY DEF Init
  <2>2. configuration_revision \in 0..MaxRevision
    BY RevisionAssumption DEF Init
  <2> QED
    BY <2>1, <2>2 DEF Init, TypeOK, States
<1>2. ConfirmationCurrent
  BY DEF Init, ConfirmationCurrent
<1>3. PreviewCurrent
  BY DEF Init, PreviewCurrent, ConfirmedStates
<1>4. BlockedOnlyInSetup
  BY DEF Init, BlockedOnlyInSetup
<1> QED
  BY <1>1, <1>2, <1>3, <1>4 DEF IInv

(* A bump keeps the revision in its type and leaves no confirmation. *)
LEMMA BumpErases ==
  ASSUME TypeOK, BumpRevision
  PROVE  /\ configuration_revision' \in 0..MaxRevision
         /\ preview_confirmed_revision' = NoRevision
  BY RevisionAssumption DEF TypeOK, BumpRevision

(* Every transition of the machine, and every stuttering step, preserves the
   invariant. *)
LEMMA NextIInv == IInv /\ [Next]_vars => IInv'
<1> SUFFICES ASSUME IInv, [Next]_vars
             PROVE  IInv'
  OBVIOUS
<1> USE RevisionAssumption
    DEF IInv, TypeOK, ConfirmationCurrent, PreviewCurrent, BlockedOnlyInSetup,
        States, SetupStates, ConfirmedStates, RunStates
<1>1. CASE SelectTarget
  <2>1. state' \in {"TARGET_SELECTED", "REGIONS_CONFIGURED"}
    BY <1>1 DEF SelectTarget
  <2>2. UNCHANGED setup_worker_blocked
    BY <1>1 DEF SelectTarget
  <2> QED
    BY <1>1, <2>1, <2>2, BumpErases DEF SelectTarget
<1>2. CASE SourcesConfigured
  BY <1>2, BumpErases DEF SourcesConfigured
<1>3. CASE ConfirmPreview
  BY <1>3 DEF ConfirmPreview, IsLegal, Legal
<1>4. CASE StartRecording
  BY <1>4 DEF StartRecording, IsLegal, Legal, WorkerDependent
<1>5. CASE Pause
  BY <1>5 DEF Pause, IsLegal, Legal
<1>6. CASE Resume
  BY <1>6 DEF Resume, IsLegal, Legal
<1>7. CASE Reconfigure
  BY <1>7, BumpErases DEF Reconfigure
<1>8. CASE Stop
  BY <1>8 DEF Stop, IsLegal, Legal
<1>9. CASE Finalized
  BY <1>9 DEF Finalized
<1>10. CASE Block
  BY <1>10 DEF Block
<1>11. CASE Unblock
  BY <1>11 DEF Unblock
<1>12. CASE UNCHANGED vars
  BY <1>12 DEF vars
<1> QED
  BY <1>1, <1>2, <1>3, <1>4, <1>5, <1>6, <1>7, <1>8, <1>9, <1>10, <1>11, <1>12
  DEF Next

(* The invariant holds in every reachable state. *)
THEOREM Invariance == Spec => []IInv
  BY InitIInv, NextIInv, PTL DEF Spec

(* The state machine's fields keep their types. *)
THEOREM TypeCorrect == Spec => []TypeOK
<1>1. IInv => TypeOK
  BY DEF IInv
<1> QED
  BY <1>1, Invariance, PTL

(* A ready, recording or paused session is backed by a confirmation of the
   configuration in force. *)
THEOREM ConfirmedSessionsAreCurrent == Spec => []PreviewCurrent
<1>1. IInv => PreviewCurrent
  BY DEF IInv
<1> QED
  BY <1>1, Invariance, PTL

(* The setup interlock is never up outside setup. *)
THEOREM InterlockStaysInSetup == Spec => []BlockedOnlyInSetup
<1>1. IInv => BlockedOnlyInSetup
  BY DEF IInv
<1> QED
  BY <1>1, Invariance, PTL

(* A step into RECORDING comes from the ready or the paused state and keeps
   the confirmed revision. *)
LEMMA RecordingStep ==
  ASSUME IInv, [Next]_vars, state' = "RECORDING", state # "RECORDING"
  PROVE  /\ state \in {"ARMED", "PAUSED"}
         /\ configuration_revision' = configuration_revision
         /\ preview_confirmed_revision = configuration_revision
<1>1. StartRecording \/ Resume
  BY DEF Next, vars, SelectTarget, SourcesConfigured, ConfirmPreview, Pause,
         Reconfigure, Stop, Finalized, Block, Unblock, RunStates
<1>2. CASE StartRecording
  BY <1>2 DEF StartRecording, IsLegal, Legal
<1>3. CASE Resume
  BY <1>3 DEF Resume, IsLegal, Legal, IInv, PreviewCurrent, ConfirmedStates
<1> QED
  BY <1>1, <1>2, <1>3

(* No path reaches RECORDING around a confirmation. *)
THEOREM RecordingIsReviewed == Spec => RecordingReviewed
<1>1. IInv /\ [Next]_vars =>
        [state' = "RECORDING" /\ state # "RECORDING" =>
           /\ state \in {"ARMED", "PAUSED"}
           /\ configuration_revision' = configuration_revision
           /\ preview_confirmed_revision = configuration_revision]_vars
  BY RecordingStep
<1> QED
  BY <1>1, Invariance, PTL DEF Spec, RecordingReviewed
-----------------------------------------------------------------------------
(* The live session. *)

(* Which states each screen is shown in: setup never sees a confirmed
   session, the ready screen only an armed one, and what is behind the gate
   is configured and not confirmed. *)
ScreenInStep ==
  /\ screen = "setup" =>
       state \in {"IDLE", "TARGET_SELECTED", "REGIONS_CONFIGURED"}
  /\ screen = "ready" => state = "ARMED"
  /\ screen = "recording" =>
       state \in {"RECORDING", "PAUSED", "STOPPING", "REGIONS_CONFIGURED"}
  /\ state = "TARGET_SELECTED" => screen = "setup"
  /\ recovering =>
       screen = "recording" /\ ~gate /\ state = "REGIONS_CONFIGURED"
  /\ screen = "closed" => worker = NoWorker

(* What the gate offers to confirm is what a full preview has just shown. *)
GateReviewed ==
  gate =>
    /\ screen \in {"setup", "recording"}
    /\ state = "REGIONS_CONFIGURED"
    /\ reviewed = [fields |-> fields, backend |-> backend,
                   revision |-> configuration_revision]

(* From the confirmation on, the worker runs the backend the controller was
   asked for, which only a setup operation changes. *)
BackendInUse ==
  state \in ConfirmedStates /\ worker # NoWorker => worker.backend = backend

(* A recording session is not paused, and has a worker to ask. *)
RecordingIsAsking ==
  state = "RECORDING" =>
    /\ pause_state = "none"
    /\ screen # "closed" => worker # NoWorker

(* The configuration a lost or changed window was paused at is in force only
   while that pause lasts, or in a run that ended there. *)
InvalidatedBehind ==
  /\ invalidated <= configuration_revision
  /\ invalidated = configuration_revision =>
       \/ state \in {"STOPPING", "FINALIZED"}
       \/ state = "PAUSED" /\ pause_state \in NeedsRecovery

LiveInv ==
  /\ LiveTypeOK
  /\ IInv
  /\ ReviewedConfiguration
  /\ WorkerInStep
  /\ BlockedHasNoWorker
  /\ ScreenInStep
  /\ GateReviewed
  /\ BackendInUse
  /\ RecordingIsAsking
  /\ InvalidatedBehind
-----------------------------------------------------------------------------
(* The controller's outcomes. *)

(* A new generation is a live worker at the revision in force. *)
LEMMA SpawnedWorker ==
  ASSUME NEW s \in States, NEW rev \in Int, NEW b \in Backends
  PROVE  /\ Restored(s, rev, b) \in Workers
         /\ Restored(s, rev, b).alive
         /\ Restored(s, rev, b).revision = rev
         /\ Restored(s, rev, b).backend = b
         /\ Restored(s, rev, b).mode =
              IF s \in ConfirmedStates THEN s ELSE "SETUP"
  BY DEF Restored, Workers, WorkerModes, States, ConfirmedStates

(* Saturating counters stay within the limit. *)
LEMMA CountType ==
  ASSUME NEW n \in 0..FAILURE_STREAK_LIMIT
  PROVE  /\ Count(n) \in 0..FAILURE_STREAK_LIMIT
         /\ n = FAILURE_STREAK_LIMIT => Count(n) = n
  BY DEF Count, FAILURE_STREAK_LIMIT

(* ensure_worker ends with a live worker of the backend asked for, or with
   none, the interlock up and the failures at their limit. *)
LEMMA Ensured ==
  ASSUME LiveTypeOK, BlockedHasNoWorker,
         NEW b \in Backends, NEW e \in EnsureOutcomes(b)
  PROVE  /\ e.failures \in 0..FAILURE_STREAK_LIMIT
         /\ e.blocked \in BOOLEAN
         /\ e.worker = NoWorker =>
              e.blocked /\ e.failures = FAILURE_STREAK_LIMIT
         /\ setup_worker_blocked => e.worker = NoWorker
         /\ e.worker # NoWorker =>
              \/ e.worker = Spawned(b)
              \/ e.worker = worker /\ Alive /\ worker.backend = b
<1> USE DEF FAILURE_STREAK_LIMIT
<1>1. setup_failures \in 0..3
  BY DEF LiveTypeOK
<1>2. Spawned(b) # NoWorker
  BY SpawnedWorker, ControllerAssumption DEF Spawned, LiveTypeOK, TypeOK
<1>3. CASE Alive /\ worker.backend = b
  <2>1. e = [worker |-> worker, failures |-> setup_failures, blocked |-> FALSE]
    BY <1>3 DEF EnsureOutcomes
  <2> QED
    BY <1>1, <1>3, <2>1 DEF Alive, BlockedHasNoWorker
<1>4. CASE ~(Alive /\ worker.backend = b)
  <2>1. CASE setup_worker_blocked
    <3>1. e = [worker |-> NoWorker, blocked |-> TRUE,
               failures |-> setup_failures]
      BY <1>4, <2>1 DEF EnsureOutcomes
    <3> QED
      BY <2>1, <3>1 DEF BlockedHasNoWorker
  <2>2. CASE ~setup_worker_blocked
    <3>1. \/ e = [worker |-> NoWorker, blocked |-> TRUE, failures |-> 3]
          \/ \E f \in setup_failures..3 :
               e = [worker |-> Spawned(b), failures |-> f, blocked |-> FALSE]
      BY <1>4, <2>2 DEF EnsureOutcomes
    <3>2. CASE e = [worker |-> NoWorker, blocked |-> TRUE, failures |-> 3]
      BY <2>2, <3>2
    <3>3. CASE \E f \in setup_failures..3 :
                 e = [worker |-> Spawned(b), failures |-> f, blocked |-> FALSE]
      <4> PICK f \in setup_failures..3 :
            e = [worker |-> Spawned(b), failures |-> f, blocked |-> FALSE]
        BY <3>3
      <4> QED
        BY <1>1, <1>2, <2>2
    <3> QED
      BY <3>1, <3>2, <3>3
  <2> QED
    BY <2>1, <2>2
<1> QED
  BY <1>3, <1>4

(* A request is answered by the live worker it was sent to, or it fails and
   leaves no worker. *)
LEMMA Requested ==
  ASSUME NEW w, NEW command, NEW r \in RequestOutcomes(w, command)
  PROVE  \/ r = [worker |-> NoWorker, answer |-> "ERROR"]
         \/ /\ w.alive
            /\ r = Handle(w, command, state, configuration_revision)
            /\ r.answer \in {"OK", "REFUSED"}
  BY DEF RequestOutcomes, Handle

(* A setup operation ends with an error and no worker, or with the answer of
   a live worker of the backend asked for, which was there or was spawned
   for it; while the interlock is up only the error is left. *)
LEMMA SetupEnds ==
  ASSUME LiveTypeOK, BlockedHasNoWorker,
         NEW b \in Backends, NEW command, NEW o \in SetupOutcomes(command, b)
  PROVE  /\ o.failures \in 0..FAILURE_STREAK_LIMIT
         /\ o.blocked \in BOOLEAN
         /\ o.blocked \/ setup_worker_blocked =>
              /\ o.answer = "ERROR"
              /\ o.failures = FAILURE_STREAK_LIMIT
         /\ \/ o.answer = "ERROR" /\ o.worker = NoWorker
            \/ /\ o.answer \in {"OK", "REFUSED"}
               /\ \E w \in Workers :
                    /\ w.alive /\ w.backend = b
                    /\ (w = worker /\ Alive) \/ w = Spawned(b)
                    /\ [worker |-> o.worker, answer |-> o.answer] =
                         Handle(w, command, state, configuration_revision)
<1>1. PICK e \in EnsureOutcomes(b) :
        o \in IF e.worker = NoWorker
              THEN {[worker |-> NoWorker, failures |-> e.failures,
                     blocked |-> e.blocked, answer |-> "ERROR"]}
              ELSE {[worker   |-> r.worker,
                     failures |-> CASE r.answer = "OK"      -> 0
                                    [] r.answer = "REFUSED" -> e.failures
                                    [] r.answer = "ERROR"   -> Count(e.failures),
                     blocked  |-> /\ r.answer = "ERROR"
                                  /\ Count(e.failures) = FAILURE_STREAK_LIMIT,
                     answer   |-> r.answer] :
                      r \in RequestOutcomes(e.worker, command)}
  BY DEF SetupOutcomes
<1>2. /\ e.failures \in 0..FAILURE_STREAK_LIMIT
      /\ e.blocked \in BOOLEAN
      /\ e.worker = NoWorker => e.blocked /\ e.failures = FAILURE_STREAK_LIMIT
      /\ setup_worker_blocked => e.worker = NoWorker
      /\ e.worker # NoWorker =>
           \/ e.worker = Spawned(b)
           \/ e.worker = worker /\ Alive /\ worker.backend = b
  BY Ensured
<1>3. CASE e.worker = NoWorker
  BY <1>1, <1>2, <1>3
<1>4. CASE e.worker # NoWorker
  <2>1. PICK r \in RequestOutcomes(e.worker, command) :
          o = [worker   |-> r.worker,
               failures |-> CASE r.answer = "OK"      -> 0
                              [] r.answer = "REFUSED" -> e.failures
                              [] r.answer = "ERROR"   -> Count(e.failures),
               blocked  |-> /\ r.answer = "ERROR"
                            /\ Count(e.failures) = FAILURE_STREAK_LIMIT,
               answer   |-> r.answer]
    BY <1>1, <1>4
  <2>2. Count(e.failures) \in 0..FAILURE_STREAK_LIMIT
    BY <1>2, CountType
  <2>3. ~setup_worker_blocked
    BY <1>2, <1>4
  <2>4. e.worker \in Workers /\ e.worker.alive /\ e.worker.backend = b
    <3>1. /\ Spawned(b) \in Workers
          /\ Spawned(b).alive
          /\ Spawned(b).backend = b
      BY SpawnedWorker DEF Spawned, LiveTypeOK, TypeOK
    <3>2. Alive => worker \in Workers /\ worker.alive
      BY DEF Alive, LiveTypeOK
    <3> QED
      BY <1>2, <1>4, <3>1, <3>2
  <2>5. CASE r = [worker |-> NoWorker, answer |-> "ERROR"]
    <3>1. /\ o.worker = NoWorker /\ o.answer = "ERROR"
          /\ o.failures = Count(e.failures)
          /\ o.blocked = (Count(e.failures) = FAILURE_STREAK_LIMIT)
      BY <2>1, <2>5
    <3> QED
      BY <2>2, <2>3, <3>1
  <2>6. CASE /\ e.worker.alive
             /\ r = Handle(e.worker, command, state, configuration_revision)
             /\ r.answer \in {"OK", "REFUSED"}
    <3>1. /\ o.worker = r.worker /\ o.answer = r.answer
          /\ o.failures \in {0, e.failures}
          /\ o.blocked = FALSE
      BY <2>1, <2>6
    <3>2. [worker |-> o.worker, answer |-> o.answer] = r
      BY <2>6, <3>1 DEF Handle
    <3>3. o.failures \in 0..FAILURE_STREAK_LIMIT
      BY <1>2, <3>1 DEF FAILURE_STREAK_LIMIT
    <3> QED
      BY <1>2, <1>4, <2>3, <2>4, <2>6, <3>1, <3>2, <3>3
  <2> QED
    BY <2>5, <2>6, Requested
<1> QED
  BY <1>3, <1>4
-----------------------------------------------------------------------------
(* The worker's answers. *)

(* A setup command brings the worker to the session's revision and, unless
   it was armed or recording at that very revision, leaves it in a mode from
   which setup goes on. *)
LEMMA HandledSetup ==
  ASSUME NEW w \in Workers, w.alive, NEW command \in SetupCommands,
         NEW s, NEW rev \in Int, NEW x, NEW a,
         [worker |-> x, answer |-> a] = Handle(w, command, s, rev)
  PROVE  /\ x \in Workers
         /\ x.alive
         /\ x.backend = w.backend
         /\ x.revision = rev
         /\ w.revision # rev \/ w.mode \in {"SETUP", "PREVIEWED"} =>
              x.mode \in {"SETUP", "PREVIEWED"}
<1> DEFINE y == Synced(w, command, rev)
<1>1. /\ y \in Workers /\ y.alive /\ y.backend = w.backend /\ y.revision = rev
      /\ w.revision # rev \/ w.mode \in {"SETUP", "PREVIEWED"} =>
           y.mode \in {"SETUP", "PREVIEWED"}
  <2>1. CASE w.revision # rev
    <3> DEFINE m == [w EXCEPT !.revision = rev, !.mode = "SETUP"]
    <3>1. y = [m EXCEPT !.previewed = -1]
      BY <2>1 DEF Synced
    <3>2. /\ m \in Workers /\ m.alive /\ m.backend = w.backend
          /\ m.revision = rev /\ m.mode = "SETUP"
      BY DEF Workers, WorkerModes
    <3> HIDE DEF m, y
    <3> QED
      BY <3>1, <3>2 DEF Workers
  <2>2. CASE w.revision = rev
    BY <2>2 DEF Synced
  <2> QED
    BY <2>1, <2>2
<1>2. x \in {y, Executed(y, command)}
  BY <1>1 DEF Handle
<1>3. CASE x = y
  BY <1>1, <1>3
<1>4. CASE x = Executed(y, command)
  <2>1. CASE command = "PREVIEW"
    <3>1. x = [y EXCEPT !.mode = "PREVIEWED", !.previewed = y.revision]
      BY <1>4, <2>1 DEF Executed
    <3> HIDE DEF y
    <3> QED
      BY <1>1, <3>1 DEF Workers, WorkerModes
  <2>2. CASE command = "REGION_SNAPSHOT"
    BY <1>1, <1>4, <2>2 DEF Executed
  <2> QED
    BY <2>1, <2>2 DEF SetupCommands
<1> QED
  BY <1>2, <1>3, <1>4

SessionCommands == {"ARM", "RECORD_START", "CAPTURE", "PAUSE", "RESUME"}

(* The mode a command of the recording session leads to. *)
ModeAfter == [ARM |-> "ARMED", RECORD_START |-> "RECORDING",
              CAPTURE |-> "RECORDING", PAUSE |-> "PAUSED",
              RESUME |-> "RECORDING"]

(* A command of the recording session is answered only at the worker's own
   revision; a refusal changes nothing, an execution only the mode. *)
LEMMA HandledSession ==
  ASSUME NEW w \in Workers, w.alive, NEW command \in SessionCommands,
         NEW s, NEW rev \in Int, NEW x, NEW a \in {"OK", "REFUSED"},
         [worker |-> x, answer |-> a] = Handle(w, command, s, rev)
  PROVE  /\ x \in Workers
         /\ x.alive
         /\ x.backend = w.backend
         /\ x.revision = rev
         /\ w.revision = rev
         /\ a = "REFUSED" =>
              /\ x = w
              /\ command # "ARM" => w.mode \notin AcceptingModes[command]
         /\ a = "OK" => x.mode = ModeAfter[command]
<1>1. Synced(w, command, rev) = w
  BY DEF Synced, SetupCommands, SessionCommands
<1>2. /\ w.revision = rev
      /\ a = "REFUSED" => x = w /\ ~Accepts(w, command, s)
      /\ a = "OK" => x = Executed(w, command) /\ Accepts(w, command, s)
  BY <1>1 DEF Handle
<1>3. CASE a = "REFUSED"
  BY <1>2, <1>3 DEF Accepts, SetupCommands, SessionCommands
<1>4. CASE a = "OK"
  <2>1. x = [w EXCEPT !.mode = ModeAfter[command]]
    <3>1. CASE command = "CAPTURE"
      <4>1. w.mode = "RECORDING" /\ x = w
        BY <1>2, <1>4, <3>1 DEF Accepts, AcceptingModes, Executed
      <4> QED
        BY <3>1, <4>1 DEF ModeAfter, Workers
    <3>2. CASE command \in SessionCommands \ {"CAPTURE"}
      BY <1>2, <1>4, <3>2 DEF Executed, ModeAfter, SessionCommands
    <3> QED
      BY <3>1, <3>2
  <2>2. ModeAfter[command] \in WorkerModes
    BY DEF ModeAfter, WorkerModes, SessionCommands
  <2> QED
    BY <1>2, <1>4, <2>1, <2>2 DEF Workers
<1> QED
  BY <1>3, <1>4
-----------------------------------------------------------------------------
(* Setup operations. *)

(* Setup and ready screens show a session in one state each, as far as their
   handlers look. *)
LEMMA SetupIsConfigured ==
  ASSUME LiveInv, InSetup
  PROVE  state = "REGIONS_CONFIGURED" /\ ~gate /\ ~recovering
  BY DEF LiveInv, ScreenInStep, InSetup

(* A setup operation that leaves the session in REGIONS_CONFIGURED leaves a
   worker from which setup can go on, whatever it was before. *)
LEMMA SetupStepWorker ==
  ASSUME LiveInv, state = "REGIONS_CONFIGURED",
         NEW command \in SetupCommands \cup {"ARM"}, NEW b \in Backends,
         NEW o \in SetupOutcomes(command, b), o.answer = "OK" => command # "ARM"
  PROVE  /\ o.worker \in Workers \cup {NoWorker}
         /\ o.worker # NoWorker =>
              /\ o.worker.backend = b
              /\ \/ o.worker.revision # configuration_revision
                 \/ o.worker.mode \in {"SETUP", "PREVIEWED"}
<1> USE DEF LiveInv
<1>1. configuration_revision \in Int /\ state \in States
  BY RevisionAssumption DEF IInv, TypeOK
<1>2. CASE o.worker = NoWorker
  BY <1>2
<1>3. CASE o.worker # NoWorker
  <2>1. o.answer \in {"OK", "REFUSED"}
    BY <1>3, SetupEnds
  <2>2. PICK w \in Workers :
          /\ w.alive /\ w.backend = b
          /\ (w = worker /\ Alive) \/ w = Spawned(b)
          /\ [worker |-> o.worker, answer |-> o.answer] =
               Handle(w, command, state, configuration_revision)
    BY <1>3, SetupEnds
  <2>3. \/ w.revision # configuration_revision
        \/ w.mode \in {"SETUP", "PREVIEWED"}
    <3>1. CASE w = worker /\ Alive
      BY <3>1 DEF WorkerInStep
    <3>2. CASE w = Spawned(b)
      BY <1>1, <3>2, SpawnedWorker DEF Spawned, ConfirmedStates
    <3> QED
      BY <2>2, <3>1, <3>2
  <2>4. CASE command \in SetupCommands
    BY <1>1, <2>2, <2>3, <2>4, HandledSetup
  <2>5. CASE command = "ARM"
    <3>1. o.answer = "REFUSED" /\ command \in SessionCommands
      BY <2>1, <2>5 DEF SessionCommands
    <3>2. o.worker = w
      BY <1>1, <2>2, <3>1, HandledSession
    <3> QED
      BY <2>2, <2>3, <3>2
  <2> QED
    BY <2>4, <2>5
<1> QED
  BY <1>2, <1>3

(* The worker that accepted ARM or RECORD_START is in the mode that belongs
   to it, at the session's revision and with the controller's backend; one
   that refused is as it was. *)
LEMMA ArmedWorker ==
  ASSUME LiveInv, NEW command \in {"ARM", "RECORD_START"},
         NEW o \in SetupOutcomes(command, backend), o.worker # NoWorker
  PROVE  /\ o.worker \in Workers
         /\ o.worker.backend = backend
         /\ o.worker.revision = configuration_revision
         /\ o.answer = "OK" => o.worker.mode = ModeAfter[command]
         /\ o.answer # "OK" =>
              (o.worker = worker /\ Alive) \/ o.worker = Spawned(backend)
<1>1. configuration_revision \in Int /\ backend \in Backends
  BY RevisionAssumption DEF LiveInv, IInv, TypeOK, LiveTypeOK
<1>2. command \in SessionCommands
  BY DEF SessionCommands
<1>3. o.answer \in {"OK", "REFUSED"}
  BY <1>1, SetupEnds DEF LiveInv
<1>4. PICK w \in Workers :
        /\ w.alive /\ w.backend = backend
        /\ (w = worker /\ Alive) \/ w = Spawned(backend)
        /\ [worker |-> o.worker, answer |-> o.answer] =
             Handle(w, command, state, configuration_revision)
  BY <1>1, SetupEnds DEF LiveInv
<1>5. /\ o.worker \in Workers
      /\ o.worker.backend = w.backend
      /\ o.worker.revision = configuration_revision
      /\ o.answer = "REFUSED" => o.worker = w
      /\ o.answer = "OK" => o.worker.mode = ModeAfter[command]
  BY <1>1, <1>2, <1>3, <1>4, HandledSession
<1> QED
  BY <1>3, <1>4, <1>5
-----------------------------------------------------------------------------
(* Refinement. *)

(* A setup operation that leaves the session where it is raises the interlock
   or stutters. *)
LEMMA SetupStepRefines ==
  ASSUME LiveInv, state \in SetupStates, NEW b \in Backends, NEW command,
         NEW o \in SetupOutcomes(command, b), SetupStep(o)
  PROVE  [Next]_vars
<1>1. setup_worker_blocked \in BOOLEAN /\ o.blocked \in BOOLEAN
  BY SetupEnds DEF LiveInv, IInv, TypeOK
<1>2. CASE o.blocked
  BY <1>2 DEF SetupStep, Next, Block
<1>3. CASE ~o.blocked
  BY <1>1, <1>3 DEF SetupStep, vars
<1> QED
  BY <1>2, <1>3

(* A preview that opens the gate or not is a setup operation. *)
LEMMA ShowPreviewRefines ==
  ASSUME LiveInv, NEW b \in Backends, NEW shown, ShowPreview(b, shown)
  PROVE  [Next]_vars
<1>1. PICK o \in SetupOutcomes("PREVIEW", b) : PreviewRegions(b, o)
  BY DEF ShowPreview
<1>2. state \in SetupStates
  BY <1>1 DEF PreviewRegions, Legal, SetupStates
<1> QED
  BY <1>1, <1>2, SetupStepRefines DEF PreviewRegions

(* Every step of the session makes one transition of the state machine or
   leaves it alone. *)
LEMMA LiveStepRefines ==
  ASSUME LiveInv, [LiveNext]_sessionVars
  PROVE  [Next]_vars
<1> USE DEF LiveInv, Next
<1>0. backend \in Backends /\ chosen \in Backends
  BY DEF LiveTypeOK
<1>1. CASE CreateController
  BY <1>1 DEF CreateController
<1>2. CASE EditFields \/ ChooseBackend \/ BackToSetup \/ StopRefused \/ Leave
  BY <1>2 DEF EditFields, ChooseBackend, BackToSetup, StopRefused, Leave
<1>3. CASE RetryClicked
  BY <1>3 DEF RetryClicked, RetryWorker
<1>4. CASE TestCapture
  <2>1. state = "REGIONS_CONFIGURED"
    BY <1>4, SetupIsConfigured DEF TestCapture
  <2>2. PICK o \in SetupOutcomes("REGION_SNAPSHOT", chosen) : SetupStep(o)
    BY <1>4 DEF TestCapture, RegionSnapshot
  <2> QED
    BY <1>0, <2>1, <2>2, SetupStepRefines DEF SetupStates
<1>5. CASE PreviewOneRegion
  <2>1. PICK o \in SetupOutcomes("PREVIEW", backend) : PreviewRegions(backend, o)
    BY <1>5 DEF PreviewOneRegion
  <2>2. state \in SetupStates
    BY <2>1 DEF PreviewRegions, Legal, SetupStates
  <2> QED
    BY <1>0, <2>1, <2>2, SetupStepRefines DEF PreviewRegions
<1>6. CASE PreviewAll \/ FixTypes \/ Repreview
  BY <1>0, <1>6, ShowPreviewRefines DEF PreviewAll, FixTypes, Repreview
<1>7. CASE Confirm
  <2>1. PICK o \in SetupOutcomes("ARM", backend) : ConfirmPreviewAndArm(o)
    BY <1>7 DEF Confirm
  <2>2. state \in SetupStates
    BY <2>1 DEF ConfirmPreviewAndArm, IsLegal, Legal, SetupStates
  <2>3. CASE o.answer = "OK"
    BY <2>1, <2>3 DEF ConfirmPreviewAndArm
  <2>4. CASE o.answer # "OK"
    BY <1>0, <2>1, <2>2, <2>4, SetupStepRefines DEF ConfirmPreviewAndArm
  <2> QED
    BY <2>3, <2>4
<1>8. CASE StartClicked
  <2>1. PICK o \in SetupOutcomes("RECORD_START", backend) : BeginRecording(o)
    BY <1>8 DEF StartClicked
  <2>2. state \in SetupStates
    BY <2>1 DEF BeginRecording, IsLegal, Legal, SetupStates
  <2>3. CASE o.answer = "OK"
    BY <2>1, <2>3 DEF BeginRecording
  <2>4. CASE o.answer # "OK"
    BY <1>0, <2>1, <2>2, <2>4, SetupStepRefines DEF BeginRecording
  <2> QED
    BY <2>3, <2>4
<1>9. CASE Tick
  <2>1. CASE FrameTick
    BY <2>1 DEF FrameTick, EnterPause
  <2>2. CASE \E stored \in BOOLEAN : FailedTick(stored)
    BY <2>2 DEF FailedTick, EnterPause
  <2> QED
    BY <1>9, <2>1, <2>2 DEF Tick
<1>10. CASE PauseClicked
  BY <1>10 DEF PauseClicked, UserPause, EnterPause
<1>11. CASE ResumeClicked
  BY <1>11 DEF ResumeClicked, UserResume
<1>12. CASE Disarm
  BY <1>12 DEF Disarm
<1>13. CASE StopClicked
  BY <1>13 DEF StopClicked, StopRun
<1>14. CASE ShowFinalized
  BY <1>14 DEF ShowFinalized, Finalize
<1>15. CASE WorkerDies
  BY <1>15 DEF WorkerDies
<1>16. CASE UNCHANGED sessionVars
  BY <1>16 DEF sessionVars
<1> QED
  BY <1>1, <1>2, <1>3, <1>4, <1>5, <1>6, <1>7, <1>8, <1>9, <1>10, <1>11,
     <1>12, <1>13, <1>14, <1>15, <1>16 DEF LiveNext
-----------------------------------------------------------------------------
(* The invariant. *)

(* A new session satisfies the invariant. *)
LEMMA LiveInitInv == LiveInit => LiveInv
<1> SUFFICES ASSUME LiveInit PROVE LiveInv
  OBVIOUS
<1> USE DEF LiveInit, ControllerInit
<1>1. IInv
  BY InitIInv
<1>2. state = "IDLE" /\ configuration_revision = 0 /\ ~setup_worker_blocked
  BY DEF Init
<1>3. LiveTypeOK
  <2>1. counted \in BOOLEAN /\ gate \in BOOLEAN /\ recovering \in BOOLEAN
    OBVIOUS
  <2>2. invalidated \in -1..MaxRevision /\ fields \in 0..MaxEdits
    BY LiveSessionAssumption, RevisionAssumption
  <2>3. /\ setup_failures \in 0..FAILURE_STREAK_LIMIT
        /\ recording_failures \in 0..FAILURE_STREAK_LIMIT
    BY DEF FAILURE_STREAK_LIMIT
  <2>4. screen \in Screens /\ pause_state \in Pauses
    BY DEF Screens, Pauses
  <2> QED
    BY <1>1, <2>1, <2>2, <2>3, <2>4 DEF LiveTypeOK, IInv
<1>4. ReviewedConfiguration /\ WorkerInStep /\ BlockedHasNoWorker
  BY <1>2 DEF ReviewedConfiguration, WorkerInStep, BlockedHasNoWorker, Alive,
              ConfirmedStates
<1>5. ScreenInStep /\ GateReviewed
  BY <1>2 DEF ScreenInStep, GateReviewed
<1>6. BackendInUse /\ RecordingIsAsking /\ InvalidatedBehind
  BY <1>2 DEF BackendInUse, RecordingIsAsking, InvalidatedBehind,
              ConfirmedStates
<1> QED
  BY <1>1, <1>3, <1>4, <1>5, <1>6 DEF LiveInv

(* A bump is a step to the next revision. *)
LEMMA Bumped ==
  ASSUME LiveTypeOK, BumpRevision
  PROVE  /\ configuration_revision \in Int
         /\ configuration_revision' = configuration_revision + 1
  BY RevisionAssumption DEF LiveTypeOK, TypeOK, BumpRevision

(* The creation of a controller happens before there is a worker. *)
LEMMA CreateControllerInv ==
  ASSUME LiveInv, IInv', CreateController
  PROVE  LiveInv'
<1> USE DEF LiveInv
<1>1. /\ state \in {"IDLE", "TARGET_SELECTED"}
      /\ state' \in {"TARGET_SELECTED", "REGIONS_CONFIGURED"}
      /\ screen = "setup"
      /\ BumpRevision
      /\ UNCHANGED <<setup_worker_blocked, controllerVars, uiVars>>
  BY DEF CreateController, SelectTarget, SourcesConfigured
<1>2. ~Alive /\ ~gate /\ ~recovering
  BY <1>1 DEF WorkerInStep, GateReviewed, ScreenInStep
<1> USE <1>1, <1>2 DEF controllerVars, uiVars
<1>3. LiveTypeOK'
  BY DEF LiveTypeOK, IInv
<1>4. ReviewedConfiguration' /\ BackendInUse' /\ RecordingIsAsking'
  BY DEF ReviewedConfiguration, BackendInUse, RecordingIsAsking,
         ConfirmedStates
<1>5. WorkerInStep' /\ BlockedHasNoWorker'
  BY DEF WorkerInStep, BlockedHasNoWorker, Alive
<1>6. ScreenInStep' /\ GateReviewed'
  BY DEF ScreenInStep, GateReviewed
<1>7. InvalidatedBehind'
  BY Bumped DEF InvalidatedBehind, LiveTypeOK
<1> QED
  BY <1>3, <1>4, <1>5, <1>6, <1>7

(* Edits of setup, a new backend in the combobox, closing the gate, a refused
   stop and leaving touch neither the machine nor what the worker does. *)
LEMMA ScreenStepInv ==
  ASSUME LiveInv, IInv',
         EditFields \/ ChooseBackend \/ BackToSetup \/ StopRefused \/ Leave
  PROVE  LiveInv'
<1> USE DEF LiveInv
<1>1. CASE EditFields \/ ChooseBackend
  <2>1. /\ state = "REGIONS_CONFIGURED" /\ ~gate /\ ~recovering
        /\ UNCHANGED <<vars, controllerVars, screen, gate, reviewed,
                       invalidated, recovering>>
        /\ fields' \in 0..MaxEdits /\ chosen' \in Backends
    BY <1>1, SetupIsConfigured, LiveSessionAssumption
    DEF EditFields, ChooseBackend, LiveTypeOK
  <2> USE <2>1 DEF vars, controllerVars
  <2>2. LiveTypeOK'
    BY DEF LiveTypeOK, IInv
  <2>3. ReviewedConfiguration' /\ BackendInUse' /\ RecordingIsAsking'
    BY DEF ReviewedConfiguration, BackendInUse, RecordingIsAsking,
           ConfirmedStates
  <2>4. WorkerInStep' /\ BlockedHasNoWorker'
    BY DEF WorkerInStep, BlockedHasNoWorker, Alive
  <2>5. ScreenInStep' /\ GateReviewed' /\ InvalidatedBehind'
    BY DEF ScreenInStep, GateReviewed, InvalidatedBehind
  <2> QED
    BY <2>2, <2>3, <2>4, <2>5
<1>2. CASE BackToSetup \/ StopRefused \/ Leave
  <2>1. /\ UNCHANGED <<vars, backend, setup_failures, recording_failures,
                       counted, pause_state, chosen, fields, reviewed,
                       invalidated, recovering>>
        /\ \/ ~gate' /\ UNCHANGED <<screen, worker>>
           \/ /\ ~gate /\ ~recovering /\ screen' = "finalized"
              /\ state # "TARGET_SELECTED"
              /\ UNCHANGED <<gate, worker>>
           \/ /\ ~gate /\ ~recovering /\ screen' = "closed"
              /\ state # "TARGET_SELECTED"
              /\ worker' = NoWorker /\ UNCHANGED gate
    BY <1>2 DEF BackToSetup, StopRefused, Leave, OnRecording, controllerVars,
                ScreenInStep
  <2>2. gate' \in BOOLEAN
    BY <1>2 DEF BackToSetup, StopRefused, Leave, LiveTypeOK
  <2> USE <2>1, <2>2 DEF vars
  <2>3. LiveTypeOK'
    BY DEF LiveTypeOK, IInv, Screens
  <2>4. ReviewedConfiguration' /\ BackendInUse'
    BY DEF ReviewedConfiguration, BackendInUse
  <2>5. RecordingIsAsking'
    BY <1>2 DEF RecordingIsAsking, BackToSetup, StopRefused, Leave, Legal,
                ConfirmedStates
  <2>6. WorkerInStep' /\ BlockedHasNoWorker'
    BY DEF WorkerInStep, BlockedHasNoWorker, Alive
  <2>7. ScreenInStep' /\ GateReviewed' /\ InvalidatedBehind'
    BY DEF ScreenInStep, GateReviewed, InvalidatedBehind
  <2> QED
    BY <2>3, <2>4, <2>5, <2>6, <2>7
<1> QED
  BY <1>1, <1>2

(* A setup operation keeps the interlock and the failure count together. *)
LEMMA SetupStepBlocks ==
  ASSUME LiveInv, NEW b \in Backends, NEW command,
         NEW o \in SetupOutcomes(command, b), SetupStep(o)
  PROVE  setup_failures' \in 0..FAILURE_STREAK_LIMIT /\ BlockedHasNoWorker'
<1>1. /\ o.failures \in 0..FAILURE_STREAK_LIMIT
      /\ o.blocked \/ setup_worker_blocked =>
           o.answer = "ERROR" /\ o.failures = FAILURE_STREAK_LIMIT
      /\ \/ o.answer = "ERROR" /\ o.worker = NoWorker
         \/ o.answer \in {"OK", "REFUSED"}
  BY SetupEnds DEF LiveInv
<1> QED
  BY <1>1 DEF SetupStep, AfterSetup, BlockedHasNoWorker

(* A setup operation that leaves the session in REGIONS_CONFIGURED keeps what
   the invariant says of the worker. *)
LEMMA SetupStepKeeps ==
  ASSUME LiveInv, state = "REGIONS_CONFIGURED",
         NEW command \in SetupCommands \cup {"ARM"}, NEW b \in Backends,
         NEW o \in SetupOutcomes(command, b), o.answer = "OK" => command # "ARM",
         SetupStep(o)
  PROVE  /\ state' = "REGIONS_CONFIGURED"
         /\ UNCHANGED <<configuration_revision, recording_failures, counted,
                        pause_state>>
         /\ worker' \in Workers \cup {NoWorker}
         /\ setup_failures' \in 0..FAILURE_STREAK_LIMIT
         /\ WorkerInStep'
         /\ BlockedHasNoWorker'
<1>1. /\ state' = "REGIONS_CONFIGURED"
      /\ UNCHANGED <<configuration_revision, recording_failures, counted,
                     pause_state>>
      /\ worker' = o.worker
  BY DEF SetupStep, AfterSetup
<1>2. /\ worker' \in Workers \cup {NoWorker}
      /\ worker' # NoWorker =>
           \/ worker'.revision # configuration_revision
           \/ worker'.mode \in {"SETUP", "PREVIEWED"}
  BY <1>1, SetupStepWorker
<1>3. WorkerInStep'
  BY <1>1, <1>2 DEF WorkerInStep, Alive
<1> QED
  BY <1>1, <1>2, <1>3, SetupStepBlocks

(* The snapshot, the one-region preview and Retry touch the worker and the
   backend of a session that nothing has been confirmed of. *)
LEMMA SetupHandlerInv ==
  ASSUME LiveInv, IInv', TestCapture \/ PreviewOneRegion \/ RetryClicked
  PROVE  LiveInv'
<1> USE DEF LiveInv
<1>1. /\ state = "REGIONS_CONFIGURED" /\ ~gate /\ ~recovering
      /\ screen = "setup" /\ UNCHANGED uiVars
  BY SetupIsConfigured DEF TestCapture, PreviewOneRegion, RetryClicked, InSetup
<1>2. backend \in Backends /\ chosen \in Backends
  BY DEF LiveTypeOK
<1>3. /\ state' = "REGIONS_CONFIGURED"
      /\ UNCHANGED <<configuration_revision, recording_failures, counted,
                     pause_state>>
      /\ worker' \in Workers \cup {NoWorker}
      /\ backend' \in Backends
      /\ setup_failures' \in 0..FAILURE_STREAK_LIMIT
      /\ WorkerInStep'
      /\ BlockedHasNoWorker'
  <2>1. CASE TestCapture
    <3>1. PICK o \in SetupOutcomes("REGION_SNAPSHOT", chosen) : SetupStep(o)
      BY <2>1 DEF TestCapture, RegionSnapshot
    <3>2. backend' \in Backends
      BY <1>2, <2>1 DEF TestCapture, RegionSnapshot
    <3> QED
      BY <1>1, <1>2, <3>1, <3>2, SetupStepKeeps DEF SetupCommands
  <2>2. CASE PreviewOneRegion
    <3>1. PICK o \in SetupOutcomes("PREVIEW", backend) :
            PreviewRegions(backend, o)
      BY <2>2 DEF PreviewOneRegion
    <3> QED
      BY <1>1, <1>2, <3>1, SetupStepKeeps DEF SetupCommands, PreviewRegions
  <2>3. CASE RetryClicked
    <3>1. /\ setup_worker_blocked
          /\ UNCHANGED <<state, configuration_revision, backend,
                         recording_failures, counted, pause_state>>
          /\ \/ worker' = Spawned(backend) /\ ~setup_worker_blocked'
                /\ UNCHANGED setup_failures
             \/ worker' = NoWorker /\ setup_failures' = Count(setup_failures)
      BY <2>3 DEF RetryClicked, RetryWorker, IsLegal, Unblock, vars
    <3>2. setup_failures = FAILURE_STREAK_LIMIT /\ worker = NoWorker
      BY <3>1 DEF BlockedHasNoWorker
    <3>3. setup_failures' = FAILURE_STREAK_LIMIT
      BY <3>1, <3>2 DEF Count, FAILURE_STREAK_LIMIT
    <3>4. /\ Spawned(backend) \in Workers
          /\ Spawned(backend).mode = "SETUP"
      BY <1>1, <1>2, SpawnedWorker, RevisionAssumption
      DEF Spawned, ConfirmedStates, LiveTypeOK, TypeOK
    <3>5. WorkerInStep' /\ BlockedHasNoWorker'
      BY <1>1, <3>1, <3>3, <3>4
      DEF WorkerInStep, Alive, BlockedHasNoWorker
    <3> QED
      BY <1>1, <1>2, <3>1, <3>3, <3>4, <3>5 DEF FAILURE_STREAK_LIMIT
  <2> QED
    BY <2>1, <2>2, <2>3
<1> USE <1>1, <1>3 DEF uiVars
<1>4. LiveTypeOK'
  BY DEF LiveTypeOK, IInv
<1>5. ReviewedConfiguration' /\ BackendInUse' /\ RecordingIsAsking'
  BY DEF ReviewedConfiguration, BackendInUse, RecordingIsAsking,
         ConfirmedStates
<1>6. ScreenInStep' /\ GateReviewed' /\ InvalidatedBehind'
  BY DEF ScreenInStep, GateReviewed, InvalidatedBehind
<1> QED
  BY <1>4, <1>5, <1>6

(* A full preview opens the gate on what it showed. *)
LEMMA ShowPreviewInv ==
  ASSUME LiveInv, IInv', PreviewAll \/ FixTypes \/ Repreview
  PROVE  LiveInv'
<1> USE DEF LiveInv
<1>1. PICK b \in Backends : ShowPreview(b, fields')
  BY DEF PreviewAll, FixTypes, Repreview, LiveTypeOK
<1>2. /\ screen \in {"setup", "recording"}
      /\ ~recovering'
      /\ fields' \in 0..MaxEdits
      /\ UNCHANGED <<screen, chosen, invalidated>>
  BY SetupIsConfigured, LiveSessionAssumption
  DEF PreviewAll, FixTypes, Repreview, LiveTypeOK, GateReviewed, ScreenInStep,
      InSetup
<1>3. PICK o \in SetupOutcomes("PREVIEW", b) :
        /\ PreviewRegions(b, o)
        /\ gate' = (o.answer = "OK")
        /\ reviewed' = IF o.answer = "OK"
                       THEN [fields |-> fields', backend |-> b,
                             revision |-> configuration_revision]
                       ELSE reviewed
  BY <1>1 DEF ShowPreview
<1>4. state = "REGIONS_CONFIGURED" /\ backend' = b /\ SetupStep(o)
  BY <1>3 DEF PreviewRegions, Legal
<1>5. /\ state' = "REGIONS_CONFIGURED"
      /\ UNCHANGED <<configuration_revision, recording_failures, counted,
                     pause_state>>
      /\ worker' \in Workers \cup {NoWorker}
      /\ setup_failures' \in 0..FAILURE_STREAK_LIMIT
      /\ WorkerInStep'
      /\ BlockedHasNoWorker'
  BY <1>4, SetupStepKeeps DEF SetupCommands
<1>6. LiveTypeOK'
  <2>1. gate' \in BOOLEAN /\ recovering' \in BOOLEAN
    BY <1>3 DEF PreviewAll, FixTypes, Repreview, LiveTypeOK
  <2>2. reviewed' \in [fields : 0..MaxEdits, backend : Backends,
                       revision : 0..MaxRevision] \cup {NoReview}
    BY <1>2, <1>3 DEF LiveTypeOK, TypeOK
  <2> QED
    BY <1>2, <1>4, <1>5, <2>1, <2>2 DEF LiveTypeOK, IInv
<1>7. ReviewedConfiguration' /\ BackendInUse' /\ RecordingIsAsking'
  BY <1>5 DEF ReviewedConfiguration, BackendInUse, RecordingIsAsking,
              ConfirmedStates
<1>8. GateReviewed'
  BY <1>2, <1>3, <1>4, <1>5 DEF GateReviewed
<1>9. ScreenInStep' /\ InvalidatedBehind'
  BY <1>2, <1>4, <1>5 DEF ScreenInStep, InvalidatedBehind
<1> QED
  BY <1>5, <1>6, <1>7, <1>8, <1>9

(* The confirmation arms exactly what the gate shows. *)
LEMMA ConfirmInv ==
  ASSUME LiveInv, IInv', Confirm
  PROVE  LiveInv'
<1> USE DEF LiveInv
<1>1. PICK o \in SetupOutcomes("ARM", backend) :
        /\ ConfirmPreviewAndArm(o)
        /\ screen' = IF o.answer = "OK" THEN "ready" ELSE screen
  BY DEF Confirm
<1>2. /\ gate /\ gate' = FALSE
      /\ UNCHANGED <<backend, chosen, fields, reviewed, invalidated,
                     recovering>>
  BY <1>1 DEF Confirm, ConfirmPreviewAndArm
<1>3. /\ state = "REGIONS_CONFIGURED" /\ ~recovering
      /\ screen \in {"setup", "recording"}
      /\ backend \in Backends
      /\ ~setup_worker_blocked
  BY <1>1, <1>2
  DEF GateReviewed, ScreenInStep, LiveTypeOK, ConfirmPreviewAndArm, IsLegal,
      WorkerDependent
<1>4. CASE o.answer = "OK"
  <2>1. /\ state' = "ARMED" /\ screen' = "ready"
        /\ worker' = o.worker /\ setup_failures' = o.failures
        /\ UNCHANGED <<configuration_revision, setup_worker_blocked,
                       recording_failures, counted, pause_state>>
    BY <1>1, <1>4 DEF ConfirmPreviewAndArm, ConfirmPreview, AfterSetup
  <2>2. o.worker # NoWorker /\ o.failures \in 0..FAILURE_STREAK_LIMIT
    <3>1. /\ o.failures \in 0..FAILURE_STREAK_LIMIT
          /\ \E w \in Workers :
               /\ w.alive
               /\ [worker |-> o.worker, answer |-> o.answer] =
                    Handle(w, "ARM", state, configuration_revision)
      BY <1>3, <1>4, SetupEnds
    <3>2. o.worker \in Workers
      <4>1. configuration_revision \in Int /\ "ARM" \in SessionCommands
        BY RevisionAssumption DEF LiveTypeOK, TypeOK, SessionCommands
      <4> QED
        BY <1>4, <3>1, <4>1, HandledSession
    <3> QED
      BY <3>1, <3>2, ControllerAssumption
  <2>3. /\ o.worker \in Workers
        /\ o.worker.backend = backend
        /\ o.worker.revision = configuration_revision
        /\ o.worker.mode = "ARMED"
    BY <1>4, <2>2, ArmedWorker DEF ModeAfter
  <2> USE <1>2, <1>3, <2>1, <2>2, <2>3
  <2>4. LiveTypeOK'
    BY DEF LiveTypeOK, IInv, Screens
  <2>5. ReviewedConfiguration' /\ BackendInUse' /\ RecordingIsAsking'
    BY DEF ReviewedConfiguration, GateReviewed, BackendInUse, RecordingIsAsking
  <2>6. WorkerInStep' /\ BlockedHasNoWorker'
    BY DEF WorkerInStep, Alive, BlockedHasNoWorker
  <2>7. ScreenInStep' /\ GateReviewed' /\ InvalidatedBehind'
    BY DEF ScreenInStep, GateReviewed, InvalidatedBehind
  <2> QED
    BY <2>4, <2>5, <2>6, <2>7
<1>5. CASE o.answer # "OK"
  <2>1. SetupStep(o) /\ screen' = screen
    BY <1>1, <1>5 DEF ConfirmPreviewAndArm
  <2>2. /\ state' = "REGIONS_CONFIGURED"
        /\ UNCHANGED <<configuration_revision, recording_failures, counted,
                       pause_state>>
        /\ worker' \in Workers \cup {NoWorker}
        /\ setup_failures' \in 0..FAILURE_STREAK_LIMIT
        /\ WorkerInStep'
        /\ BlockedHasNoWorker'
    BY <1>3, <1>5, <2>1, SetupStepKeeps
  <2> USE <1>2, <1>3, <2>1, <2>2
  <2>3. LiveTypeOK'
    BY DEF LiveTypeOK, IInv
  <2>4. ReviewedConfiguration' /\ BackendInUse' /\ RecordingIsAsking'
    BY DEF ReviewedConfiguration, BackendInUse, RecordingIsAsking,
           ConfirmedStates
  <2>5. ScreenInStep' /\ GateReviewed' /\ InvalidatedBehind'
    BY DEF ScreenInStep, GateReviewed, InvalidatedBehind
  <2> QED
    BY <2>2, <2>3, <2>4, <2>5
<1> QED
  BY <1>4, <1>5

(* A refused or failed start leaves the session armed; an accepted one starts
   recording with the worker that accepted it. *)
LEMMA StartInv ==
  ASSUME LiveInv, IInv', StartClicked
  PROVE  LiveInv'
<1> USE DEF LiveInv
<1>1. PICK o \in SetupOutcomes("RECORD_START", backend) :
        /\ BeginRecording(o)
        /\ screen' = IF o.answer = "OK" THEN "recording" ELSE screen
  BY DEF StartClicked
<1>2. /\ screen = "ready" /\ state = "ARMED" /\ ~gate /\ ~recovering
      /\ UNCHANGED <<configuration_revision, backend, gate, chosen, fields,
                     reviewed, invalidated, recovering>>
      /\ backend \in Backends /\ configuration_revision \in Int
  BY <1>1, RevisionAssumption
  DEF StartClicked, BeginRecording, StartRecording, SetupStep, ScreenInStep,
      GateReviewed, LiveTypeOK, TypeOK
<1>3. /\ o.failures \in 0..FAILURE_STREAK_LIMIT
      /\ \/ o.answer = "ERROR" /\ o.worker = NoWorker
         \/ o.answer \in {"OK", "REFUSED"} /\ o.worker # NoWorker
  <2>1. /\ o.failures \in 0..FAILURE_STREAK_LIMIT
        /\ \/ o.answer = "ERROR" /\ o.worker = NoWorker
           \/ /\ o.answer \in {"OK", "REFUSED"}
              /\ \E w \in Workers :
                   /\ w.alive
                   /\ [worker |-> o.worker, answer |-> o.answer] =
                        Handle(w, "RECORD_START", state, configuration_revision)
    BY <1>2, SetupEnds
  <2>2. ASSUME o.answer \in {"OK", "REFUSED"}, NEW w \in Workers, w.alive,
               [worker |-> o.worker, answer |-> o.answer] =
                 Handle(w, "RECORD_START", state, configuration_revision)
        PROVE  o.worker \in Workers
    <3>1. "RECORD_START" \in SessionCommands
      BY DEF SessionCommands
    <3> QED
      BY <1>2, <2>2, <3>1, HandledSession
  <2> QED
    BY <2>1, <2>2, ControllerAssumption
<1>4. CASE o.answer = "OK"
  <2>1. /\ state' = "RECORDING" /\ screen' = "recording"
        /\ worker' = o.worker /\ setup_failures' = o.failures
        /\ recording_failures' \in 0..FAILURE_STREAK_LIMIT
        /\ pause_state' = "none"
        /\ UNCHANGED setup_worker_blocked
    BY <1>1, <1>4
    DEF BeginRecording, StartRecording, AfterSetup, LiveTypeOK,
        FAILURE_STREAK_LIMIT
  <2>2. counted' \in BOOLEAN
    BY <1>1, <1>4 DEF BeginRecording
  <2>3. /\ o.worker \in Workers
        /\ o.worker.backend = backend
        /\ o.worker.revision = configuration_revision
        /\ o.worker.mode = "RECORDING"
        /\ o.worker # NoWorker
    BY <1>3, <1>4, ArmedWorker DEF ModeAfter
  <2>4. ~setup_worker_blocked
    BY <1>1 DEF BeginRecording, IsLegal, WorkerDependent
  <2> USE <1>2, <1>3, <2>1, <2>2, <2>3, <2>4
  <2>5. LiveTypeOK'
    BY DEF LiveTypeOK, IInv, Screens, Pauses
  <2>6. ReviewedConfiguration' /\ BackendInUse' /\ RecordingIsAsking'
    BY DEF ReviewedConfiguration, BackendInUse, RecordingIsAsking,
           ConfirmedStates
  <2>7. WorkerInStep' /\ BlockedHasNoWorker'
    BY DEF WorkerInStep, Alive, BlockedHasNoWorker
  <2>8. ScreenInStep' /\ GateReviewed' /\ InvalidatedBehind'
    BY DEF ScreenInStep, GateReviewed, InvalidatedBehind
  <2> QED
    BY <2>5, <2>6, <2>7, <2>8
<1>5. CASE o.answer # "OK"
  <2>1. SetupStep(o) /\ screen' = screen
    BY <1>1, <1>5 DEF BeginRecording
  <2>2. /\ state' = "ARMED" /\ worker' = o.worker
        /\ UNCHANGED <<recording_failures, counted, pause_state>>
    BY <1>2, <2>1 DEF SetupStep, AfterSetup
  <2>3. setup_failures' \in 0..FAILURE_STREAK_LIMIT /\ BlockedHasNoWorker'
    BY <1>2, <2>1, SetupStepBlocks
  <2>4. o.worker # NoWorker =>
          /\ o.worker \in Workers
          /\ o.worker.backend = backend
          /\ o.worker.revision = configuration_revision
          /\ (o.worker = worker /\ Alive) \/ o.worker = Spawned(backend)
    BY <1>5, ArmedWorker
  <2>5. o.worker # NoWorker => o.worker.mode = "ARMED"
    <3>1. Spawned(backend).mode = "ARMED"
      BY <1>2, SpawnedWorker DEF Spawned, ConfirmedStates, States
    <3> QED
      BY <1>2, <2>4, <3>1 DEF WorkerInStep
  <2> USE <1>2, <2>1, <2>2, <2>3, <2>4, <2>5
  <2>6. LiveTypeOK'
    BY DEF LiveTypeOK, IInv
  <2>7. ReviewedConfiguration' /\ BackendInUse' /\ RecordingIsAsking'
    BY DEF ReviewedConfiguration, BackendInUse, RecordingIsAsking,
           ConfirmedStates
  <2>8. WorkerInStep'
    BY DEF WorkerInStep, Alive
  <2>9. ScreenInStep' /\ GateReviewed' /\ InvalidatedBehind'
    BY DEF ScreenInStep, GateReviewed, InvalidatedBehind
  <2> QED
    BY <2>3, <2>6, <2>7, <2>8, <2>9
<1> QED
  BY <1>4, <1>5

(* A tick keeps the worker of a session that goes on recording, replaces it,
   or pauses; the pause that needs recovery marks the revision it is at. *)
LEMMA TickInv ==
  ASSUME LiveInv, IInv', Tick
  PROVE  LiveInv'
<1> USE DEF LiveInv
<1>1. /\ screen = "recording" /\ ~gate /\ ~recovering
      /\ state = "RECORDING" /\ pause_state = "none" /\ worker # NoWorker
      /\ backend \in Backends /\ configuration_revision \in Int
      /\ recording_failures \in 0..FAILURE_STREAK_LIMIT
      /\ ~setup_worker_blocked
  BY RevisionAssumption
  DEF Tick, FrameTick, FailedTick, ScreenInStep, GateReviewed, LiveTypeOK,
      TypeOK, RecordingIsAsking, IInv, BlockedOnlyInSetup, SetupStates
<1>2. /\ UNCHANGED <<screen, gate, chosen, fields, reviewed, recovering>>
      /\ invalidated' = IF pause_state' \in NeedsRecovery
                        THEN configuration_revision ELSE invalidated
  BY DEF Tick
<1>3. /\ UNCHANGED <<configuration_revision, setup_worker_blocked, backend,
                     setup_failures, counted>>
      /\ \/ state' = "RECORDING" /\ pause_state' = "none"
         \/ state' = "PAUSED" /\ pause_state' \in Pauses
  BY <1>1
  DEF Tick, FrameTick, FailedTick, EnterPause, Pause, vars, Pauses
<1>4. /\ recording_failures' \in 0..FAILURE_STREAK_LIMIT
      /\ worker' \in Workers \cup {NoWorker}
      /\ worker' # NoWorker => worker'.backend = backend
      /\ worker' # NoWorker /\ worker'.alive =>
           /\ worker'.revision = configuration_revision
           /\ worker'.mode \in {"RECORDING", "PAUSED"}
           /\ state' = "RECORDING" => worker'.mode = "RECORDING"
      /\ state' = "RECORDING" => worker' # NoWorker
  <2>1. CASE FrameTick
    <3>1. worker' = worker /\ recording_failures' = 0
      BY <2>1 DEF FrameTick
    <3> QED
      BY <1>1, <3>1
      DEF LiveTypeOK, BackendInUse, WorkerInStep, Alive, ConfirmedStates,
          FAILURE_STREAK_LIMIT
  <2>2. CASE \E stored \in BOOLEAN : FailedTick(stored)
    <3>1. PICK stored \in BOOLEAN : FailedTick(stored)
      BY <2>2
    <3> DEFINE s == IF stored THEN "RECORDING" ELSE "PAUSED"
               g == Restored(s, configuration_revision, backend)
    <3>2. /\ g \in Workers /\ g # NoWorker /\ g.backend = backend
          /\ g.revision = configuration_revision /\ g.mode = s
      <4>1. s \in States /\ s \in ConfirmedStates
        BY DEF States, ConfirmedStates
      <4> QED
        BY <1>1, <4>1, SpawnedWorker, ControllerAssumption
    <3>3. recording_failures' \in 0..FAILURE_STREAK_LIMIT
      <4>1. /\ Count(recording_failures) \in 0..FAILURE_STREAK_LIMIT
            /\ Count(Count(recording_failures)) \in 0..FAILURE_STREAK_LIMIT
        BY <1>1, CountType
      <4> QED
        BY <3>1, <4>1 DEF FailedTick
    <3>4. \/ worker' = NoWorker /\ state' = "PAUSED"
          \/ worker' = g /\ stored /\ state' = "RECORDING"
          \/ worker' = g /\ ~stored /\ state' = "PAUSED"
      BY <1>1, <3>1 DEF FailedTick, EnterPause, Pause, vars
    <3> HIDE DEF g
    <3> QED
      BY <3>2, <3>3, <3>4
  <2> QED
    BY <2>1, <2>2 DEF Tick
<1> USE <1>1, <1>2, <1>3, <1>4
<1>5. LiveTypeOK'
  BY DEF LiveTypeOK, TypeOK, IInv, Pauses
<1>6. ReviewedConfiguration' /\ BackendInUse' /\ RecordingIsAsking'
  BY DEF ReviewedConfiguration, BackendInUse, RecordingIsAsking,
         ConfirmedStates
<1>7. WorkerInStep' /\ BlockedHasNoWorker'
  BY DEF WorkerInStep, Alive, BlockedHasNoWorker
<1>8. ScreenInStep' /\ GateReviewed'
  BY DEF ScreenInStep, GateReviewed
<1>9. InvalidatedBehind'
  BY DEF InvalidatedBehind, LiveTypeOK, NeedsRecovery
<1> QED
  BY <1>5, <1>6, <1>7, <1>8, <1>9

(* Pausing asks the worker, and pauses whatever it answers. *)
LEMMA PauseInv ==
  ASSUME LiveInv, IInv', PauseClicked
  PROVE  LiveInv'
<1> USE DEF LiveInv
<1>1. /\ screen = "recording" /\ ~gate /\ ~recovering
      /\ state = "RECORDING" /\ state' = "PAUSED" /\ pause_state' = "user"
      /\ UNCHANGED <<uiVars, configuration_revision, setup_worker_blocked,
                     backend, setup_failures, counted>>
  BY DEF PauseClicked, OnRecording, UserPause, EnterPause, Pause, IsLegal, Legal
<1>2. /\ worker \in Workers /\ worker # NoWorker
      /\ backend \in Backends /\ configuration_revision \in Int
      /\ recording_failures \in 0..FAILURE_STREAK_LIMIT
      /\ ~setup_worker_blocked
      /\ worker.backend = backend
  BY <1>1, RevisionAssumption
  DEF RecordingIsAsking, LiveTypeOK, TypeOK, IInv, BlockedOnlyInSetup,
      SetupStates, BackendInUse, ConfirmedStates
<1>3. PICK r \in RequestOutcomes(worker, "PAUSE") :
        /\ worker' = r.worker
        /\ recording_failures' = IF r.answer = "ERROR"
                                 THEN Count(recording_failures)
                                 ELSE recording_failures
  BY DEF PauseClicked, UserPause
<1>4. recording_failures' \in 0..FAILURE_STREAK_LIMIT
  BY <1>2, <1>3, CountType
<1>5. \/ worker' = NoWorker
      \/ /\ worker' \in Workers
         /\ worker'.backend = backend
         /\ worker'.revision = configuration_revision
         /\ worker'.mode \in {"RECORDING", "PAUSED"}
  <2>1. CASE r = [worker |-> NoWorker, answer |-> "ERROR"]
    BY <1>3, <2>1
  <2>2. CASE /\ worker.alive
             /\ r = Handle(worker, "PAUSE", state, configuration_revision)
             /\ r.answer \in {"OK", "REFUSED"}
    <3>1. r = [worker |-> r.worker, answer |-> r.answer]
      BY <2>2 DEF Handle
    <3>2. /\ r.worker \in Workers
          /\ r.worker.backend = worker.backend
          /\ r.worker.revision = configuration_revision
          /\ r.answer = "REFUSED" => r.worker = worker
          /\ r.answer = "OK" => r.worker.mode = "PAUSED"
      <4>1. "PAUSE" \in SessionCommands /\ ModeAfter["PAUSE"] = "PAUSED"
        BY DEF SessionCommands, ModeAfter
      <4>2. [worker |-> r.worker, answer |-> r.answer] =
              Handle(worker, "PAUSE", state, configuration_revision)
        BY <2>2, <3>1
      <4> QED
        BY <1>2, <2>2, <4>1, <4>2, HandledSession
    <3>3. worker.mode = "RECORDING"
      BY <1>1, <1>2, <2>2 DEF WorkerInStep, Alive
    <3> QED
      BY <1>2, <1>3, <2>2, <3>2, <3>3
  <2> QED
    BY <2>1, <2>2, Requested
<1> USE <1>1, <1>2, <1>4, <1>5 DEF uiVars
<1>6. LiveTypeOK'
  BY DEF LiveTypeOK, IInv, Pauses
<1>7. ReviewedConfiguration' /\ BackendInUse' /\ RecordingIsAsking'
  BY DEF ReviewedConfiguration, BackendInUse, RecordingIsAsking,
         ConfirmedStates
<1>8. WorkerInStep' /\ BlockedHasNoWorker'
  BY DEF WorkerInStep, Alive, BlockedHasNoWorker
<1>9. ScreenInStep' /\ GateReviewed' /\ InvalidatedBehind'
  BY DEF ScreenInStep, GateReviewed, InvalidatedBehind
<1> QED
  BY <1>6, <1>7, <1>8, <1>9

(* Resuming succeeds with a worker that records, and fails without one. *)
LEMMA ResumeInv ==
  ASSUME LiveInv, IInv', ResumeClicked
  PROVE  LiveInv'
<1> USE DEF LiveInv
<1> DEFINE w == IF Alive THEN worker ELSE Spawned(backend)
<1>1. /\ screen = "recording" /\ ~gate /\ ~recovering /\ state = "PAUSED"
      /\ pause_state \in Pauses \ NeedsRecovery
      /\ UNCHANGED <<uiVars, configuration_revision, setup_worker_blocked,
                     backend, setup_failures, counted>>
      /\ backend \in Backends /\ configuration_revision \in Int
      /\ recording_failures \in 0..FAILURE_STREAK_LIMIT
      /\ ~setup_worker_blocked
  BY RevisionAssumption
  DEF ResumeClicked, OnRecording, UserResume, Resume, IsLegal, Legal, vars,
      MayResume, LiveTypeOK, TypeOK, IInv, BlockedOnlyInSetup, SetupStates
<1>2. /\ w \in Workers /\ w.alive /\ w.backend = backend
      /\ w.revision = configuration_revision
      /\ w.mode \in {"RECORDING", "PAUSED"}
  <2>1. CASE Alive
    BY <1>1, <2>1
    DEF Alive, LiveTypeOK, BackendInUse, ConfirmedStates, WorkerInStep
  <2>2. CASE ~Alive
    BY <1>1, <2>2, SpawnedWorker DEF Spawned, States, ConfirmedStates
  <2> QED
    BY <2>1, <2>2
<1>3. PICK r \in RequestOutcomes(w, "RESUME") :
        IF r.answer = "ERROR"
        THEN /\ worker' = NoWorker
             /\ recording_failures' = Count(recording_failures)
             /\ UNCHANGED <<vars, pause_state>>
        ELSE /\ worker' = r.worker
             /\ Resume
             /\ pause_state' = "none"
             /\ UNCHANGED recording_failures
  BY DEF ResumeClicked, UserResume
<1>4. recording_failures' \in 0..FAILURE_STREAK_LIMIT
  BY <1>1, <1>3, CountType
<1>5. CASE r = [worker |-> NoWorker, answer |-> "ERROR"]
  <2>1. worker' = NoWorker /\ UNCHANGED <<vars, pause_state>>
    BY <1>3, <1>5
  <2> USE <1>1, <1>4, <2>1 DEF uiVars, vars
  <2>2. LiveTypeOK'
    BY DEF LiveTypeOK, IInv
  <2>3. ReviewedConfiguration' /\ BackendInUse' /\ RecordingIsAsking'
    BY DEF ReviewedConfiguration, BackendInUse, RecordingIsAsking
  <2>4. WorkerInStep' /\ BlockedHasNoWorker'
    BY DEF WorkerInStep, Alive, BlockedHasNoWorker
  <2>5. ScreenInStep' /\ GateReviewed' /\ InvalidatedBehind'
    BY DEF ScreenInStep, GateReviewed, InvalidatedBehind
  <2> QED
    BY <2>2, <2>3, <2>4, <2>5
<1>6. CASE /\ w.alive
           /\ r = Handle(w, "RESUME", state, configuration_revision)
           /\ r.answer \in {"OK", "REFUSED"}
  <2>1. worker' = r.worker /\ state' = "RECORDING" /\ pause_state' = "none"
    BY <1>3, <1>6 DEF Resume
  <2>2. /\ r.worker \in Workers
        /\ r.worker.backend = backend
        /\ r.worker.revision = configuration_revision
        /\ r.worker.mode = "RECORDING"
    <3> HIDE DEF w
    <3>1. r = [worker |-> r.worker, answer |-> r.answer]
      BY <1>6 DEF Handle
    <3>2. [worker |-> r.worker, answer |-> r.answer] =
            Handle(w, "RESUME", state, configuration_revision)
      BY <1>6, <3>1
    <3>3. /\ "RESUME" \in SessionCommands
          /\ ModeAfter["RESUME"] = "RECORDING"
          /\ AcceptingModes["RESUME"] = {"PAUSED"}
      BY DEF SessionCommands, ModeAfter, AcceptingModes
    <3>4. /\ r.worker \in Workers
          /\ r.worker.backend = w.backend
          /\ r.worker.revision = configuration_revision
          /\ r.answer = "REFUSED" => r.worker = w /\ w.mode # "PAUSED"
          /\ r.answer = "OK" => r.worker.mode = "RECORDING"
      BY <1>1, <1>2, <1>6, <3>2, <3>3, HandledSession
    <3> QED
      BY <1>2, <1>6, <3>4
  <2>3. worker' # NoWorker
    BY <2>1, <2>2, ControllerAssumption
  <2> USE <1>1, <1>4, <2>1, <2>2, <2>3 DEF uiVars
  <2>4. LiveTypeOK'
    BY DEF LiveTypeOK, IInv, Pauses
  <2>5. ReviewedConfiguration' /\ BackendInUse' /\ RecordingIsAsking'
    BY DEF ReviewedConfiguration, BackendInUse, RecordingIsAsking,
           ConfirmedStates
  <2>6. WorkerInStep' /\ BlockedHasNoWorker'
    BY DEF WorkerInStep, Alive, BlockedHasNoWorker
  <2>7. ScreenInStep' /\ GateReviewed' /\ InvalidatedBehind'
    BY DEF ScreenInStep, GateReviewed, InvalidatedBehind
  <2> QED
    BY <2>4, <2>5, <2>6, <2>7
<1> HIDE DEF w
<1> QED
  BY <1>5, <1>6, Requested

(* Recovery leaves the run for a later revision, behind which the worker that
   recorded stays. *)
LEMMA DisarmInv ==
  ASSUME LiveInv, IInv', Disarm
  PROVE  LiveInv'
<1> USE DEF LiveInv
<1>1. /\ screen = "recording" /\ ~gate /\ recovering' = TRUE
      /\ state = "PAUSED" /\ state' = "REGIONS_CONFIGURED"
      /\ configuration_revision \in Int
      /\ configuration_revision' = configuration_revision + 1
      /\ worker' \in {worker, NoWorker}
      /\ UNCHANGED <<backend, setup_failures, recording_failures, counted,
                     pause_state, setup_worker_blocked, screen, gate, chosen,
                     fields, reviewed, invalidated>>
  BY Bumped DEF Disarm, OnRecording, Reconfigure
<1>2. ~setup_worker_blocked
  BY <1>1 DEF IInv, BlockedOnlyInSetup, SetupStates
<1>3. Alive => worker.revision = configuration_revision
  BY <1>1 DEF WorkerInStep
<1> USE <1>1, <1>2, <1>3
<1>4. LiveTypeOK'
  BY DEF LiveTypeOK, IInv
<1>5. ReviewedConfiguration' /\ BackendInUse' /\ RecordingIsAsking'
  BY DEF ReviewedConfiguration, BackendInUse, RecordingIsAsking,
         ConfirmedStates
<1>6. WorkerInStep' /\ BlockedHasNoWorker'
  BY DEF WorkerInStep, Alive, BlockedHasNoWorker
<1>7. ScreenInStep' /\ GateReviewed'
  BY DEF ScreenInStep, GateReviewed
<1>8. InvalidatedBehind'
  BY DEF InvalidatedBehind, LiveTypeOK
<1> QED
  BY <1>4, <1>5, <1>6, <1>7, <1>8

(* The end of a run, and the death of a worker process. *)
LEMMA EndInv ==
  ASSUME LiveInv, IInv',
         StopClicked \/ ShowFinalized \/ (WorkerDies /\ UNCHANGED uiVars)
  PROVE  LiveInv'
<1> USE DEF LiveInv
<1>1. CASE StopClicked
  <2>1. /\ screen = "recording" /\ ~gate /\ ~recovering
        /\ state' = "STOPPING" /\ worker' = NoWorker
        /\ ~setup_worker_blocked
        /\ UNCHANGED <<uiVars, configuration_revision, setup_worker_blocked,
                       backend, setup_failures, recording_failures, counted,
                       pause_state>>
    BY <1>1 DEF StopClicked, OnRecording, StopRun, Stop, RunStates, IInv,
                BlockedOnlyInSetup, SetupStates
  <2> USE <2>1 DEF uiVars
  <2>2. LiveTypeOK'
    BY DEF LiveTypeOK, IInv
  <2>3. ReviewedConfiguration' /\ BackendInUse' /\ RecordingIsAsking'
    BY DEF ReviewedConfiguration, BackendInUse, RecordingIsAsking,
           ConfirmedStates
  <2>4. WorkerInStep' /\ BlockedHasNoWorker'
    BY DEF WorkerInStep, Alive, BlockedHasNoWorker
  <2>5. ScreenInStep' /\ GateReviewed' /\ InvalidatedBehind'
    BY DEF ScreenInStep, GateReviewed, InvalidatedBehind
  <2> QED
    BY <2>2, <2>3, <2>4, <2>5
<1>2. CASE ShowFinalized
  <2>1. /\ screen' = "finalized" /\ state = "STOPPING"
        /\ state' \in {"STOPPING", "FINALIZED"}
        /\ UNCHANGED <<controllerVars, configuration_revision,
                       setup_worker_blocked, gate, chosen, fields, reviewed,
                       invalidated, recovering>>
    BY <1>2 DEF ShowFinalized, Finalize, Finalized, vars
  <2>2. ~Alive /\ ~gate /\ ~recovering
    BY <2>1 DEF WorkerInStep, GateReviewed, ScreenInStep
  <2> USE <2>1, <2>2 DEF controllerVars
  <2>3. LiveTypeOK'
    BY DEF LiveTypeOK, IInv, Screens
  <2>4. ReviewedConfiguration' /\ BackendInUse' /\ RecordingIsAsking'
    BY DEF ReviewedConfiguration, BackendInUse, RecordingIsAsking,
           ConfirmedStates
  <2>5. WorkerInStep' /\ BlockedHasNoWorker'
    BY DEF WorkerInStep, Alive, BlockedHasNoWorker
  <2>6. ScreenInStep' /\ GateReviewed' /\ InvalidatedBehind'
    BY DEF ScreenInStep, GateReviewed, InvalidatedBehind
  <2> QED
    BY <2>3, <2>4, <2>5, <2>6
<1>3. CASE WorkerDies /\ UNCHANGED uiVars
  <2>1. /\ worker \in Workers /\ worker # NoWorker
        /\ worker' = [worker EXCEPT !.alive = FALSE]
        /\ UNCHANGED <<vars, backend, setup_failures, recording_failures,
                       counted, pause_state, uiVars>>
    BY <1>3 DEF WorkerDies, Alive, LiveTypeOK
  <2>2. /\ worker' \in Workers /\ ~worker'.alive
        /\ worker'.backend = worker.backend
    BY <2>1 DEF Workers
  <2>3. worker' # NoWorker
    BY <2>2, ControllerAssumption
  <2> USE <2>2, <2>3 DEF uiVars, vars
  <2>4. LiveTypeOK'
    BY <2>1 DEF LiveTypeOK, IInv
  <2>5. ReviewedConfiguration' /\ BackendInUse' /\ RecordingIsAsking'
    BY <2>1 DEF ReviewedConfiguration, BackendInUse, RecordingIsAsking
  <2>6. WorkerInStep' /\ BlockedHasNoWorker'
    BY <2>1 DEF WorkerInStep, Alive, BlockedHasNoWorker
  <2>7. ScreenInStep' /\ GateReviewed' /\ InvalidatedBehind'
    BY <2>1 DEF ScreenInStep, GateReviewed, InvalidatedBehind
  <2> QED
    BY <2>4, <2>5, <2>6, <2>7
<1> QED
  BY <1>1, <1>2, <1>3

(* Every step of the session preserves the invariant; what SessionMachine's
   own invariant says comes with the step's refinement. *)
LEMMA LiveNextInv == LiveInv /\ [LiveNext]_sessionVars => LiveInv'
<1> SUFFICES ASSUME LiveInv, [LiveNext]_sessionVars
             PROVE  LiveInv'
  OBVIOUS
<1>1. IInv'
  BY LiveStepRefines, NextIInv DEF LiveInv
<1>2. CASE UNCHANGED sessionVars
  BY <1>1, <1>2
  DEF sessionVars, vars, controllerVars, uiVars, LiveInv, LiveTypeOK, IInv,
      ReviewedConfiguration, WorkerInStep, Alive, BlockedHasNoWorker,
      ScreenInStep, GateReviewed, BackendInUse, RecordingIsAsking,
      InvalidatedBehind
<1> QED
  BY <1>1, <1>2, CreateControllerInv, ScreenStepInv, SetupHandlerInv,
     ShowPreviewInv, ConfirmInv, StartInv, TickInv, PauseInv, ResumeInv,
     DisarmInv, EndInv DEF LiveNext
-----------------------------------------------------------------------------
(* Theorems. *)

(* The invariant holds in every reachable state of a live session. *)
THEOREM LiveInvariance == LiveSpec => []LiveInv
  BY LiveInitInv, LiveNextInv, PTL DEF LiveSpec

(* The live session implements the session state machine: whatever the owner
   clicks, whatever the worker answers and whenever it dies, the session
   makes only the transitions the legality table and the interlock allow. *)
THEOREM SessionRefinement == LiveSpec => Spec
<1>1. LiveInit => Init
  BY DEF LiveInit, ControllerInit
<1>2. LiveInv /\ [LiveNext]_sessionVars => [Next]_vars
  BY LiveStepRefines
<1> QED
  BY <1>1, <1>2, LiveInvariance, PTL DEF LiveSpec, Spec

(* The fields of the machine, the controller and the screens keep their
   types. *)
THEOREM LiveTypeCorrect == LiveSpec => []LiveTypeOK
<1>1. LiveInv => LiveTypeOK
  BY DEF LiveInv
<1> QED
  BY <1>1, LiveInvariance, PTL

(* A ready, recording or paused session is backed by a confirmation of the
   configuration in force, inherited from the state machine. *)
THEOREM LivePreviewCurrent == LiveSpec => []PreviewCurrent
  BY SessionRefinement, ConfirmedSessionsAreCurrent, PTL

(* No handler reaches RECORDING around a confirmation, inherited from the
   state machine. *)
THEOREM LiveRecordingReviewed == LiveSpec => RecordingReviewed
  BY SessionRefinement, RecordingIsReviewed, PTL

(* What is armed, recorded or paused is what a full preview of the same
   fields, backend and revision showed the owner. *)
THEOREM ConfigurationIsReviewed == LiveSpec => []ReviewedConfiguration
<1>1. LiveInv => ReviewedConfiguration
  BY DEF LiveInv
<1> QED
  BY <1>1, LiveInvariance, PTL

(* A live worker accepts the next request the session may send it. *)
THEOREM WorkerStaysInStep == LiveSpec => []WorkerInStep
<1>1. LiveInv => WorkerInStep
  BY DEF LiveInv
<1> QED
  BY <1>1, LiveInvariance, PTL

(* The session never records without a worker, and the worker runs the
   reviewed backend. *)
THEOREM RecordingAlwaysHasWorker == LiveSpec => []RecordingHasWorker
<1>1. LiveInv => RecordingHasWorker
  <2> SUFFICES ASSUME LiveInv, state = "RECORDING", screen # "closed"
               PROVE  worker # NoWorker /\ worker.backend = reviewed.backend
    BY DEF RecordingHasWorker
  <2>1. worker # NoWorker
    BY DEF LiveInv, RecordingIsAsking
  <2>2. worker.backend = backend
    BY <2>1 DEF LiveInv, BackendInUse, ConfirmedStates
  <2>3. reviewed.backend = backend
    BY DEF LiveInv, ReviewedConfiguration, ConfirmedStates
  <2> QED
    BY <2>1, <2>2, <2>3
<1> QED
  BY <1>1, LiveInvariance, PTL

(* Nothing is captured at a configuration whose window was lost or changed. *)
THEOREM InvalidatedIsNotCaptured == LiveSpec => []NoCaptureOfInvalidated
<1>1. LiveInv => NoCaptureOfInvalidated
  BY DEF LiveInv, InvalidatedBehind, NoCaptureOfInvalidated, LiveTypeOK, TypeOK
<1> QED
  BY <1>1, LiveInvariance, PTL

(* The interlock is up only without a worker and at the failure limit. *)
THEOREM InterlockHasNoWorker == LiveSpec => []BlockedHasNoWorker
<1>1. LiveInv => BlockedHasNoWorker
  BY DEF LiveInv
<1> QED
  BY <1>1, LiveInvariance, PTL
=============================================================================
