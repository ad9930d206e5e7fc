------------------------------ MODULE Retention ------------------------------
(***************************************************************************)
(* What a recording keeps: the stability engine                            *)
(* (src/screen2xyz_m2/stability.py) with the parts of the controller that  *)
(* feed it (the cache of the last OCR result per field, for ticks whose    *)
(* pixels did not change) and that make its decisions durable (the event   *)
(* is journaled or the engine is rolled back).  One step is one tick, one  *)
(* failed tick, or a pause or resume.  The journal's bytes are the subject *)
(* of RunJournal; here an append succeeds or fails as a whole.             *)
(***************************************************************************)
EXTENDS Integers, FiniteSets

CONSTANTS
  Sources,    \* the enabled fields
  Values,     \* normalized values, numbers standing for kind and text
  NoValue,    \* None
  Modes,      \* the retention modes looked at
  Threshold,  \* min_change_threshold, 0 for None
  Debounce,   \* ticks after which debounce_ms has surely elapsed
  Failures    \* how an append may fail: as a StorageFailure, or with the
              \* OSError of creating the directory of the crops

ASSUME RetentionAssumption ==
  /\ Values \subseteq Int
  /\ NoValue \notin Int
  /\ Threshold \in Nat
  /\ Debounce \in Nat
  /\ Modes \subseteq {"changed_and_errors", "changed_only", "values_only",
                      "every_tick_diagnostic"}
  /\ Failures \subseteq {"StorageFailure", "OSError"}

VARIABLES
  recording,      \* RECORDING, as against PAUSED
  mode,           \* retention_mode
  confirmations,  \* per field, fixed at the start
  engine,         \* StabilityEngine._state
  cache,          \* _last_ocr: what the last OCR of each field came to
  durable,        \* history: comparator as of the last journaled event or seed
  told,           \* history: the error the journal last reported per field
  run,            \* history: per field, equal readings the engine was given
  shown,          \* history: per field, equal OCR results in a row
  bare            \* history: fields the last event named without evidence

history == <<durable, told, run, shown, bare>>
vars == <<recording, mode, confirmations, engine, cache, history>>

(* A parse error keeps its OCR result in the cache, a capture failure has
   none.  Both are retainable; a missing value is not. *)
ParseErrors == {"NO_NUMBER"}
RetainableErrors == ParseErrors \cup {"CAPTURE_FAILURE"}
Statuses == RetainableErrors \cup
            {"OK", "MISSING_SOURCE_VALUE", "UNSTABLE_READING"}

NoCandidate == [value |-> NoValue, count |-> 0, full |-> FALSE]
NoOcr == [status |-> "none", value |-> NoValue, read |-> "none"]

(* _SourceState before the first reading. *)
Unseeded ==
  [seeded |-> FALSE, stable_value |-> NoValue, stable_status |-> "none",
   retained_error_active |-> FALSE, last_retained_error |-> "none",
   pre_error_value |-> NoValue, candidate |-> NoCandidate]
-----------------------------------------------------------------------------
(* What a tick may observe of a field: a fresh OCR result, a failed capture
   of the field, or unchanged pixels, for which the cached result stands in.
   `full` is whether the observation carries raw text and a crop. *)

(* Whether the candidate's age has reached debounce_ms at this tick. *)
Settled == IF Debounce = 0 THEN {TRUE} ELSE BOOLEAN

FreshReadings ==
  [status : {"OK"}, value : Values, full : {TRUE}, how : {"fresh"},
   settled : Settled]
  \cup [status : ParseErrors \cup {"MISSING_SOURCE_VALUE"}, value : {NoValue},
        full : {TRUE}, how : {"fresh"}, settled : {TRUE}]

FailedReading ==
  [status |-> "CAPTURE_FAILURE", value |-> NoValue, full |-> FALSE,
   how |-> "failed", settled |-> TRUE]

CachedReadings(s) ==
  IF cache[s] = NoOcr THEN {}
  ELSE [status : {cache[s].status}, value : {cache[s].value}, full : {FALSE},
        how : {"cached"}, settled : Settled]

Observations(s) == FreshReadings \cup {FailedReading} \cup CachedReadings(s)

Frames ==
  {f \in [Sources -> UNION {Observations(s) : s \in Sources}] :
     \A s \in Sources : f[s] \in Observations(s)}
-----------------------------------------------------------------------------
(* One field in process_tick: the new state of the field and what became of
   the reading. *)

Dropped(st) == [st EXCEPT !.candidate = NoCandidate]

SameAsStable(st, o) ==
  /\ st.seeded /\ ~st.retained_error_active
  /\ st.stable_value = o.value /\ st.stable_status = "OK"

Abs(n) == IF n < 0 THEN -n ELSE n

BelowThreshold(st, o) ==
  /\ Threshold > 0 /\ st.stable_value # NoValue
  /\ Abs(o.value - st.stable_value) < Threshold
  /\ st.seeded /\ ~st.retained_error_active

Cap(n) == IF n > 2 + Debounce THEN 2 + Debounce ELSE n

(* As if candidate_matches were never true. *)
OfferedAfresh(st, o) == [value |-> o.value, count |-> 1, full |-> o.full]

(* The candidate after reading o: the same one seen once more, or a new one
   with this frame as its evidence. *)
Offered(st, o) ==
  IF st.candidate # NoCandidate /\ st.candidate.value = o.value
  THEN [st.candidate EXCEPT !.count = Cap(@ + 1)]
  ELSE [value |-> o.value, count |-> 1, full |-> o.full]

Replaces(st, o, needed) ==
  /\ st.candidate # NoCandidate /\ st.candidate.value # o.value
  /\ needed > 1

Confirmed(candidate, o, needed) ==
  /\ candidate.count >= needed
  /\ o.settled \/ candidate.count > Debounce

Committed(st, candidate) ==
  [st EXCEPT !.seeded = TRUE, !.stable_value = candidate.value,
             !.stable_status = "OK", !.retained_error_active = FALSE,
             !.last_retained_error =
               IF st.retained_error_active THEN "none" ELSE @,
             !.candidate = NoCandidate]

(* Both a recovery and a change carry the candidate's evidence. *)
CommitOutcome(st, candidate) ==
  CASE st.retained_error_active ->
         IF candidate.value # st.pre_error_value
         THEN "recovered_moved" ELSE "recovered"
    [] ~st.retained_error_active /\ st.seeded
         /\ st.stable_value # candidate.value -> "changed"
    [] OTHER -> "none"

ReadOK(st, o, needed) ==
  LET candidate == Offered(st, o) IN
  CASE SameAsStable(st, o) \/ BelowThreshold(st, o) ->
         [st |-> Dropped(st), outcome |-> "none", full |-> TRUE]
    [] ~SameAsStable(st, o) /\ ~BelowThreshold(st, o)
         /\ Replaces(st, o, needed) ->
         [st |-> [st EXCEPT !.candidate = candidate],
          outcome |-> "rejected", full |-> TRUE]
    [] OTHER ->
         IF Confirmed(candidate, o, needed)
         THEN [st |-> Committed(st, candidate),
               outcome |-> CommitOutcome(st, candidate),
               full |-> candidate.full]
         ELSE [st |-> [st EXCEPT !.candidate = candidate],
               outcome |-> "none", full |-> TRUE]

(* A retainable error is a transition when it differs from the last error
   retained; the value before the first error of a run is remembered. *)
ReadError(st, o) ==
  LET remembered == IF st.retained_error_active THEN Dropped(st)
                    ELSE [Dropped(st) EXCEPT !.pre_error_value = st.stable_value]
  IN  IF st.last_retained_error = o.status
      THEN [st |-> remembered, outcome |-> "none", full |-> TRUE]
      ELSE [st |-> [remembered EXCEPT !.stable_status = o.status,
                                      !.retained_error_active = TRUE,
                                      !.last_retained_error = o.status],
            outcome |-> "error", full |-> o.full]

Read(st, o, needed) ==
  CASE o.status = "OK"               -> ReadOK(st, o, needed)
    [] o.status \in RetainableErrors -> ReadError(st, o)
    [] OTHER -> [st |-> Dropped(st), outcome |-> "none", full |-> TRUE]

(* The retention decision over all fields, in order of precedence. *)
Decision(read) ==
  LET with(outcomes) == {s \in Sources : read[s].outcome \in outcomes}
      errors  == IF mode = "changed_only" THEN {} ELSE with({"error"})
      changes == with({"changed", "recovered_moved"} \cup
                      (IF mode = "changed_only" THEN {} ELSE {"recovered"}))
      named   == IF errors # {} THEN errors \cup with({"changed"}) ELSE changes
  IN  [kind  |-> CASE errors # {} -> "RETAINED_ERROR"
                   [] errors = {} /\ changes # {} -> "RETAINED_CHANGE"
                   [] errors = {} /\ changes = {}
                        /\ mode = "every_tick_diagnostic" ->
                        "RETAINED_DIAGNOSTIC"
                   [] OTHER -> "none",
       named |-> named,
       bare  |-> {s \in named \ errors : ~read[s].full},
       crops |-> mode # "values_only" /\ \E s \in Sources :
                   read[s].outcome \notin {"none", "rejected"} /\ read[s].full]
-----------------------------------------------------------------------------
(* Steps.  In each, `result` tells what becomes of the append of the event,
   if there is one. *)

(* The cache after a frame.  It holds the very observation that process_tick
   goes on to mark, so a reading rejected as unstable is cached as such. *)
Cached(f, rejected) ==
  [s \in Sources |->
     IF f[s].how = "fresh"
     THEN [status |-> IF s \in rejected THEN "UNSTABLE_READING" ELSE f[s].status,
           value  |-> f[s].value,
           read   |-> f[s].status]
     ELSE cache[s]]

(* As if an automatic pause kept the pending candidates. *)
DropNone(states) == states

DropAll(states) == [s \in Sources |-> Dropped(states[s])]

(* History: one more of the same value in a row, or a new row; what is not
   a value ends the row. *)
NoRow == [value |-> NoValue, count |-> 0]
NoRows == [s \in Sources |-> NoRow]

Extended(row, ok, value) ==
  CASE ~ok -> NoRow
    [] ok /\ row.value = value -> [row EXCEPT !.count = Cap(@ + 1)]
    [] OTHER -> [value |-> value, count |-> 1]

Given(f) == [s \in Sources |-> Extended(run[s], f[s].status = "OK", f[s].value)]

(* What OCR made of the pixels of a field, this tick or when they last
   changed, before stability marked it. *)
OcrOk(f, s) == CASE f[s].how = "fresh"  -> f[s].status = "OK"
                 [] f[s].how = "cached" -> cache[s].read = "OK"
                 [] OTHER               -> FALSE

Shown(f) == [s \in Sources |-> Extended(shown[s], OcrOk(f, s), f[s].value)]

(* History: an event carries the comparator of every seeded field; without
   one only a field that was just seeded has a new baseline. *)
Accounted(states, written) ==
  [s \in Sources |->
     IF written \/ (states[s].seeded /\ ~engine[s].seeded)
     THEN states[s].stable_value ELSE durable[s]]

Told(states, named) ==
  [s \in Sources |->
     CASE s \notin named -> told[s]
       [] s \in named /\ states[s].retained_error_active ->
            states[s].stable_status
       [] OTHER -> "none"]

(* History: a pause that discards a candidate ends its row. *)
Ended(rows, states, pauses) ==
  [s \in Sources |->
     IF pauses /\ states[s].candidate # NoCandidate THEN NoRow ELSE rows[s]]

(* As if restore_state were not called. *)
KeptAlways(lost, after) == after

(* What the engine holds after a tick: restore_state on a lost event. *)
Kept(lost, after) == IF lost THEN engine ELSE after

(* A tick whose frame went through process_tick.  If the event cannot be
   stored the engine is rolled back to before the tick and the session
   pauses; a pause for any other reason discards the candidates.  The
   rollback comes after the storage pause, so it brings candidates back.  An
   OSError is nobody's to handle: it leaves tick() at once, without rollback
   and without pause, and the scheduler's callback only logs it. *)
Tick(f, result, pauses) ==
  LET read     == [s \in Sources |-> Read(engine[s], f[s], confirmations[s])]
      after    == [s \in Sources |-> read[s].st]
      decision == Decision(read)
      due      == decision.kind # "none"
      written  == due /\ result = "stored"
      lost     == due /\ result = "StorageFailure"
      paused   == pauses /\ result # "OSError"
      kept     == Kept(lost, after)
  IN
  /\ recording
  /\ result # "stored" => due
  /\ result = "OSError" => decision.crops
  /\ cache' = Cached(f, {s \in Sources : read[s].outcome = "rejected"})
  /\ engine' = IF paused THEN DropAll(kept) ELSE kept
  /\ recording' = ~(lost \/ paused)
  /\ bare' = IF written THEN decision.bare ELSE {}
  /\ durable' = IF lost THEN durable ELSE Accounted(after, written)
  /\ told' = IF written THEN Told(after, decision.named) ELSE told
  /\ run' = Ended(IF lost THEN run ELSE Given(f), kept, paused)
  /\ shown' = Ended(IF lost THEN shown ELSE Shown(f), kept, paused)
  /\ UNCHANGED <<mode, confirmations>>

(* A frame of the wrong size or DPI: its texts are cached, but it reaches
   neither the engine nor the journal, and the session pauses. *)
InvalidatedTick(f) ==
  /\ recording
  /\ cache' = Cached(f, {})
  /\ engine' = DropAll(engine)
  /\ recording' = FALSE
  /\ run' = NoRows
  /\ shown' = NoRows
  /\ bare' = {}
  /\ UNCHANGED <<mode, confirmations, durable, told>>

(* _recording_failure: no frame at all.  Candidates are discarded, and every
   field whose state is not yet a capture failure turns into one. *)
WorkerFailure(result, pauses) ==
  LET dropped == DropAll(engine)
      failing == {s \in Sources : engine[s].stable_status # "CAPTURE_FAILURE"}
      due     == failing # {} /\ mode # "changed_only"
      stored  == result = "stored"
      failed  == [s \in Sources |->
                    IF s \in failing
                    THEN [dropped[s] EXCEPT !.stable_status = "CAPTURE_FAILURE",
                                            !.retained_error_active = TRUE]
                    ELSE dropped[s]]
  IN
  /\ recording
  /\ result # "OSError"
  /\ engine' = IF due /\ stored THEN failed ELSE dropped
  /\ recording' = ~(pauses \/ (due /\ ~stored))
  /\ durable' = Accounted(dropped, due /\ stored)
  /\ told' = IF due /\ stored THEN Told(failed, failing) ELSE told
  /\ run' = NoRows
  /\ shown' = NoRows
  /\ bare' = {}
  /\ UNCHANGED <<mode, confirmations, cache>>

(* user_pause leaves the candidates alone. *)
UserPause ==
  /\ recording
  /\ recording' = FALSE
  /\ UNCHANGED <<mode, confirmations, engine, cache, history>>

UserResume ==
  /\ ~recording
  /\ recording' = TRUE
  /\ UNCHANGED <<mode, confirmations, engine, cache, history>>
-----------------------------------------------------------------------------
Init ==
  /\ recording = TRUE
  /\ mode \in Modes
  /\ confirmations \in [Sources -> {1, 2}]
  /\ engine = [s \in Sources |-> Unseeded]
  /\ cache = [s \in Sources |-> NoOcr]
  /\ durable = [s \in Sources |-> NoValue]
  /\ told = [s \in Sources |-> "none"]
  /\ run = NoRows
  /\ shown = NoRows
  /\ bare = {}

Results == {"stored"} \cup Failures

Next ==
  \/ \E f \in Frames, result \in Results, pauses \in BOOLEAN :
       Tick(f, result, pauses)
  \/ \E f \in Frames : InvalidatedTick(f)
  \/ \E result \in Results, pauses \in BOOLEAN : WorkerFailure(result, pauses)
  \/ UserPause
  \/ UserResume

Spec == Init /\ [][Next]_vars
-----------------------------------------------------------------------------
(* Properties. *)

CandidateType == [value : Values \cup {NoValue}, count : 0..(2 + Debounce),
                  full : BOOLEAN]

TypeOK ==
  /\ recording \in BOOLEAN
  /\ mode \in Modes
  /\ confirmations \in [Sources -> {1, 2}]
  /\ engine \in [Sources ->
       [seeded : BOOLEAN, stable_value : Values \cup {NoValue},
        stable_status : RetainableErrors \cup {"OK", "none"},
        retained_error_active : BOOLEAN,
        last_retained_error : RetainableErrors \cup {"none"},
        pre_error_value : Values \cup {NoValue}, candidate : CandidateType]]
  /\ cache \in [Sources -> [status : Statuses \cup {"none"},
                           value : Values \cup {NoValue},
                           read : Statuses \cup {"none"}]]
  /\ durable \in [Sources -> Values \cup {NoValue}]
  /\ told \in [Sources -> RetainableErrors \cup {"none"}]

(* No value is lost: whatever failed, was rolled back or paused in between,
   the comparator the engine compares with is the one the journal last
   recorded (or the unreported first value of the field), so a change the
   journal has not recorded is always detected again. *)
ComparatorIsDurable ==
  \A s \in Sources : engine[s].stable_value = durable[s]

(* The engine holds an error for reported only when the journal last said
   exactly that of the field (changed_only reports no error). *)
ErrorsAreDurable ==
  \A s \in Sources :
    engine[s].retained_error_active /\ mode # "changed_only" =>
      told[s] = engine[s].stable_status

(* No flicker is retained: a field's recorded value moves only to a value
   read as often in a row as the field asks for, with no failure, no
   invalidated frame and no automatic pause inside the row.  A pause of the
   owner's does not end a row: user_pause keeps the candidate, so a reading
   from before it counts (see PauseDiscardsCandidates). *)
ChangesAreConfirmed ==
  [][\A s \in Sources :
       durable'[s] # durable[s] =>
         run'[s].value = durable'[s] /\ run'[s].count >= confirmations[s]]_vars

Near(s, v) == \/ engine[s].stable_value = v
              \/ /\ engine[s].stable_value # NoValue
                 /\ Abs(engine[s].stable_value - v) < Threshold

Enough(s, n) == n >= confirmations[s] /\ n > Debounce

(* Nothing hides a value the engine is given: once a field was given as the
   same value for the confirmations asked, and for its debounce time, its
   comparator is that value or one within the threshold of it, whatever
   errors, refused writes and pauses came before. *)
ReadValueRetained ==
  \A s \in Sources : Enough(s, run[s].count) => Near(s, run[s].value)

(* The same of the value OCR reads on the screen, also where its pixels do
   not change and later ticks take the cached result for it. *)
ShownValueRetained ==
  \A s \in Sources : Enough(s, shown[s].count) => Near(s, shown[s].value)

(* Pause discards the pending bundle: no candidate outlives a pause, whoever
   paused, to be confirmed by a frame taken after it.
   The code does not keep this. *)
PauseDiscardsCandidates ==
  ~recording => \A s \in Sources : engine[s].candidate = NoCandidate

(* A retained change of a mode that keeps crops carries the raw text and the
   crop of the frame that introduced the value.
   The code does not keep this. *)
EvidenceSelfContained ==
  bare # {} => mode = "values_only"
=============================================================================
