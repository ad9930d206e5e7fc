# Verification of Screen2XYZ

TLA+ models of the Screen2XYZ repository (`src/`), checked with TLC and, where
it says so below, proved with TLAPS. Paths are relative to
`src/src/` unless they start with `src/`.

## 1. The system

Screen2XYZ is four Python packages.

| package | what it is |
|---|---|
| `screen2xyz_m2` | the live watcher: captures a window at an interval, reads up to eight fields by OCR, and records what changed |
| `screen2xyz_civil` | a digitizer for civil plan sheets: calibrate, pick or detect points, approve, export |
| `screen2xyz_m1` | an earlier assisted session, sequential |
| `screen2xyz_lab` | a synthetic OCR laboratory, a batch pipeline |

The first two are the products in use, and the ones modelled.

### Components of `screen2xyz_m2`

| component | state it keeps | operations | hard because |
|---|---|---|---|
| `statemachine.py` | state, confirmed revision, revision, worker interlock | select, configure, confirm, start, pause, resume, reconfigure, stop, finalized | any order of calls must keep the confirmation current |
| `controller.py` | the worker, failure counts, pause, cache of OCR results, skip count | setup requests, tick, pause, resume, stop, emergency stop, finalize | called from two threads; every request may fail and replace the worker |
| `adapters/capture_worker_windows.ps1` | mode, revision, previewed revision | INIT, snapshot, preview, arm, record, capture, pause, resume, stop | must agree with a session it learns about only from requests |
| `worker.py` | process, generation, pending request | start, request, teardown | timeouts, late replies, overlapping requests |
| `scheduler.py` | running and stopped flags, in-flight lock | start, pause, resume, drain, stop | one tick in flight, skips instead of queues, drains with a timeout |
| `stability.py` | per field: comparator, error, candidate | process_tick, snapshot, restore, discard | what is kept must follow what became durable |
| `journal.py`, `recovery.py` | journal, crops, checkpoint, live previews, counters | append, checkpoint, live rows, read, verify, recover | crashes and failures between any two file operations |
| `exports.py` | none | CSV, XYZ, summary, manifest | must match the journal, one file after another |
| `ui/app.py` | screens, dialogs, field table, verdict, confirmed regions | the handlers of the owner's clicks | dialogs and shared lists outlive what they were opened on |
| `parsing.py` | none | numbers, coordinates, dates | a wrong reading that looks right |
| `models.py`, `profiles.py`, `targets.py`, `paths.py`, `contracts.py` | none | validate, look up | |

The Tk thread runs the handlers, the scheduler's loop thread starts one tick
thread at a time, and two reader threads feed the worker client. Ticks reach the
interface through a queue; pauses reach the scheduler through a callback on the
tick thread; the field list is one object shared by interface and controller;
the worker learns the session's state and revision only from each request.

What makes them correct: a recording is always of a configuration the owner
reviewed; worker and session agree; no thread waits for ever, and none captures
while the session is paused; every retained event is durable before the program
relies on it; no reading is lost or invented by failures, pauses and rollbacks;
a stopped run is final and its exports are of one reading of its journal; what
the setup screen says is of the target in force.

### Components of `screen2xyz_civil`

| component | state it keeps | operations | correct when |
|---|---|---|---|
| `workflow.py`, `models.py`, `qa.py` | the record, undo and redo stacks | about thirty undoable actions, undo, redo | an approved point is on the grid of the current calibration; a refused action changes nothing |
| `persistence.py`, `exports.py`, `estimator_exports.py`, `advanced_exports.py`, `io_utils.py` | project file, export directories | save, open, export | a package is all or nothing; the record lists only packages that exist; what is not marked stale is current |
| `ui/app.py` | open project, candidate index, hover service, tool, busy flag | open, index in the background, hover, capture, collect clicks | the hover service is of the index and calibration of the open project; an extraction ends |
| `detection.py`, `assisted_capture.py` | none | candidates, evidence, suggestion | nothing dangerous is offered, whatever lies around the cursor |
| `transform.py`, `surface.py` | none | calibrate, triangulate, filter | the triangles are those of the definition, and honour the reviewed geometry |
| `ocr.py`, `pdf.py`, `source.py`, `sheet_metadata.py` | none | read images and files | inputs of the above |

`PROJECT.json` lists every component with its status, and every hazard with its
line in the code.

## 2. The modules

| module | models | built on |
|---|---|---|
| `SessionMachine` | `statemachine.py` | |
| `CaptureWorker` | the worker's command loop, as operators on a worker record | |
| `SessionController` | `controller.py`: worker lifecycle and session operations | `SessionMachine`, `CaptureWorker` |
| `LiveSession` | the handlers of `ui/app.py` over the controller | `SessionController` |
| `LiveSessionProofs` | its refinement and invariants, and those of `SessionMachine`, proved | `LiveSession` |
| `SetupScreen` | the setup screen of `ui/app.py` with its dialogs | |
| `SetupScreenProofs` | its invariants, proved | `SetupScreen` |
| `WorkerCalls` | abstract: what `WorkerClient.request` promises | |
| `RecordingThreads` | `scheduler.py`, `worker.py` and the threads of a recording | `WorkerCalls` (refined) |
| `RecordingThreadsProofs` | its safety and its refinement of `WorkerCalls`, proved | `RecordingThreads` |
| `Retention` | `stability.py`, with the cache that feeds it and the write that makes it durable | |
| `RetentionProofs` | its invariants, proved | `Retention` |
| `RunJournal` | `journal.py`, `recovery.py`, the tick thread's append and the Tk thread's finalize | |
| `RunFiles` | `session.json`, the live previews, the exports one by one | `RunJournal` |
| `RunFilesProofs` | its invariants and those of `RunJournal`, proved | `RunFiles` |
| `ValueParsing` | `parsing.py`: numbers, lost degree signs | |
| `CivilReadings` | `detection.py`, `assisted_capture.py` | |
| `Readings` | inputs to the two, and what is read of them | `ValueParsing`, `CivilReadings` |
| `ReadingsProofs` | its invariants, proved | `Readings` |
| `CivilRecord` | `workflow.py`, `models.py` | |
| `CivilHandoff` | `persistence.py`, `exports.py`, crash and reopen | `CivilRecord` |
| `CivilHandoffProofs` | its properties and those of `CivilRecord`, proved | `CivilHandoff` |
| `CivilCanvas` | `ui/app.py` of the civil package: indexing, hovering, tools | |
| `CivilCanvasProofs` | its invariants, proved | `CivilCanvas` |
| `CivilSurface` | `surface.py` | |

### SessionMachine, SessionController, LiveSession

`SessionMachine` has the four fields of `SessionStateMachine` as variables and a
transition method per action; `Legal` is `_LEGAL` (without the actions that
change nothing: save, load, export, close), `IsLegal` is `is_legal`. `Block` and
`Unblock` are the controller's writes to the interlock.

`SessionController` adds `worker`, a record `[alive, mode, revision, previewed,
backend]` or `NoWorker`, the two failure counters, `counted`
(`_recording_counter_initialized`), `backend` and `pause_state`. A request is one
step: `CaptureWorker!Handle` gives the reply the command loop would send; instead
of it a `WorkerError` may come (the worker died, timed out, or its reply was
dropped for its revision), after which every caller tears the worker down. That a
request may be taken for one step is what `RecordingThreads` shows. The
retries inside `ensure_worker` are folded into its set of outcomes. Backoff
delays are left out (they only take time); the streaks behind the automatic
pauses (minimized, blank, off-screen) are a choice of the pausing frame.

`LiveSession` adds what the owner sees: `screen`, the modal `gate`, the backend
combobox `chosen`, a version number `fields` for the shared field table, and
`recovering` for the middle of `_disarm_and_repreview`. Handlers run on one
thread, so each is one step; three that make two moves of the session machine
take two steps, so that every step is one of `SessionMachine`. `reviewed` and
`invalidated` are history variables.

### SetupScreen

What `LiveSession` folds into a version number: the target, the fields and their
rectangles, the verdict of the capture test, and the dialogs. The region picker
and the gate grab the input; Edit, Review and the guided demo do not, and keep
the field or the controller they were opened on. A rectangle is what put it there
(the placeholder of a new field, a drag, typing) and the target it was drawn
over. `controllers` holds every controller ever made, so that one nobody is in
charge of any more is still there to be seen. Geometry inside the picker is
reduced to what `region_confirm_allowed` asks: no selection, an unfit one, a fit one.

### RecordingThreads, WorkerCalls

Three threads and the worker processes. A step is what a thread does between two
places where another may get in its way: `request` is entering (the lock is tried,
the message sent), taking a reply off the queue, and timing out; a teardown is the
kill and the reaping; a handler of the Tk thread is its click, its drain, its
request and its end. A generation has the process, its mode, the request lock, the
messages in its pipe and the replies in its queue; `IsMine` is the comparison of
request identifiers, by which a late reply is passed over. A dead generation's name is used
again, so three are enough. `did` remembers the last command the process carried
out, from which `call`, the abstract state of `WorkerCalls`, is computed.

Two of the code's pairs of statements are two steps, as another thread may get between
them. `_spawn_worker` sets `self.worker` (`Spawn`) before `start` runs the process
(`Launch`), and a teardown that finds no process in between returns at once.
`_resume` lets the session record (`EndResume`, in `user_resume`) before it restarts
the scheduler (`RestartScheduler`), and a tick that the loop had already decided on may
pause the session in between. Two history variables count what this and
overlapping teardowns do: `orphans`, how many processes the controller forgot without
tearing them down (also by a teardown's `self.worker = None`: `_teardown_worker`
tests the field, waits for the process, and then clears the field, whoever has set it
in between), and `overtaken`, that Resume restarted the scheduler over a pause.

### Retention

One step is one tick, one failed tick, a pause or a resume. Per field `engine`
is `_SourceState` (kind folded into the value), `cache` is `_last_ocr`. A tick
observes every field: a fresh OCR result, a failed capture, or unchanged pixels,
for which the cached result stands in. `settled` is the outcome of the debounce
comparison, forced to true once a candidate is older than `Debounce` ticks.
A pause of the owner's keeps the candidates, an automatic one discards them, as in the code
(finding 3). The append of the tick's event succeeds, fails with a `StorageFailure` (rolled
back, paused) or, where `Failures` allows it, with the `OSError` of creating the
crop directory. `Cached` shares the rejected observation with the engine, as the
code's aliasing does. `durable`, `told`, `run`, `shown` and `bare` are history:
what the journal holds, what it last said of an error, how many equal readings
in a row the engine was given and OCR saw, and which fields an event named
without evidence. Evidence byte accounting is left out: eight fields of at most
8 MiB cannot exceed the 64 MiB limit, so `BufferError` cannot be raised.

### RunJournal, RunFiles

`phase` is the program counter of the tick thread inside `tick` and
`append_event`, one step per file operation; `ui` that of the Tk thread inside
`finalize`. The journal is a sequence of lines, each whole or torn, ended by a
newline or not; what is written behind an unended line joins it. `synced` is how
much of it fsync has covered. `Kill` may leave part of the line being written,
`LosePower` drops any of what was not synced. A renamed file is assumed to
survive a power loss. `read_journal` is `Complete`, `Readable` and `EventIds`.
The drain before Pause and Resume makes them refuse while a tick is in flight;
the drain before Stop ends after a quarter of a second either way, so `Stop` may
come in any phase; `drained` records which it was. A tick waiting for the worker
when Stop tears it down fails and appends its error event like any other.

`RunFiles` adds the files around the journal. A live preview is a sequence of
lines too: the header, the rows of an event, a piece of either, or a piece that
something was appended to. `AppendLiveRow(done, piece, pauses)` is the whole of
`append_live_row` with its first `done` appends made and the next one failed,
perhaps half way; `Headers` and `Rows` are the appends in the order of the code.
The loop over the appends (`AppendAll`) and that over an event's points (`PointsOf`)
are recursive functions of how many were made.
`FailExports(done)` leaves the first exports new and the others as an earlier
attempt left them; the manifest is the last of them. `RebuildExports` is the
button of the Finalized screen, `RecoverRun` the command. Nothing reads the
previews after a crash, so what a crash leaves of a row is not modelled.

### ValueParsing, CivilReadings, Readings

Algorithms, as operators on an input; `Readings` has one variable, the input,
and one action per kind of it, so a run enumerates the inputs and the properties
compare what is read with what was written. A text is a sequence of kinds of
characters (two digits are not told apart: `parse_number` does not either), a
coordinate the digits of what was shown, a sheet a row of labels and symbols
with positions in pixels. `CivilReadings` follows `build_candidate_evidence`:
the centre of the densest band of explicit decimals, the repair of lost decimal
points by it, association with symbols, classification, the categories that
reject, the competing labels; then the spatial index with its limit of twelve, and
the suggestion. `Token` is the part of a text that the pattern of `parse_number` matches,
found by where runs of digits and separators begin and end. `list.sort` with a total key is `Ranked`: the place of an element is how many come
before it; so are the neighbours (`Place`, `At`). The two-pointer scan of
`FullestWindow` is a recursive function of its left end. A crowd (`ReadCrowd`) is
a sheet with up to `MaxCrowd` labels, all alike but for the last: a place of the sheet
where recognition found the same thing many times. `ReadDoubtful` is one of three such
labels, the least band an elevation is judged by, and one that recognition has
spoilt: its decimal point lost, its digits in two words or too many, or its place outside the crop.

### CivilRecord, CivilHandoff

`CivilRecord` has an operator per method of `CivilWorkflow`: a pair of whether it
returns and the record it leaves, from which `Undoable` makes the step as
`@undoable` does, restoring the record when it raises. Records are compared as
wholes, as the undo stack stores them. Positions, elevations, types and numbers are
members of small sets; `Local` pairs a position with the revision of the
calibration that placed it, which is all that recalibration can get wrong. A
loop of the code over rows or labels is `OneByOne`: each element is a step on the
record the one before left, and the first that raises ends it. `Orders` are the
orders `list.sort` may give, one for a key and a direction.
`CivilHandoff` adds the project file and the published packages. An export is
begun, built in its staging directory, published by the rename and finished, and
may fail or die between any two; `Content` is what the package says of the project.

### CivilCanvas

Every project opened is kept, because an indexing thread goes on reading the
record it was started with. `threads` are the indexing threads by generation;
`_finish_pdf_index` runs on the Tk thread when it gets to it. Undo restores a
record by clearing and refilling it; between the two a thread may find no
attributes, raise what its handler does not catch, and post nothing (`torn`,
`Restore`). Each project has a sheet of its own, named by its place in `projects`;
reading its text and OCR take the same path. Only actions that change a record are
bounded; their undo and redo, clicks, pointer moves and refusals are not.

### CivilSurface

Bowyer-Watson as a fold over the points in their order; the filters by boundary,
exclusion polygon and no-cross line; and the numbering by which triangles are
disabled. Positions are integers, on which every test is exact: `Power` is the sign of the
test `_circumcircle_contains` makes with a centre and a radius, and `SignOfDifference`
takes the sign of a difference of products in two limbs, as TLC's integers have 32
bits. The super triangle is the finite one of the code. Besides a small grid there is
one place far from it: with two or three places of the grid it is almost on a line, and the circle
through them reaches the super triangle. Of boundary, exclusion and line the estimator draws
one; the code takes its filters one after another.

## 3. The runs

| run | bounds | states | shows |
|---|---|---|---|
| `live_session` | 4 revisions, 2 field edits, 2 backends | 4 596 | the session records what was reviewed, worker and session agree, and the whole implements `SessionMachine!Spec` |
| `recording_threads` | 3 generations, failure limit 2, 1 forgotten worker | 293 000 | no frame while paused, no process left by a stop that found no tick, every request one call, everybody returns, ticks go on |
| `retention` | 1 field, values 1, 2, 5 with threshold 2, debounce 1, confirmations 1 and 2, 3 modes | 33 746 | no value lost, no flicker kept |
| `run_files` | 2 appends, 1 field with crops, 1 skip, 2 failed previews | 690 000 | acknowledged events, crops, skip counts, previews and exports survive failures, kills and power loss |
| `setup_screen` | 2 fields, 2 targets one of which is the demo's, 2 backends, 2 controllers | 1 440 000 | verdict, picker and drawn regions are of the target in force |
| `civil_handoff` | 2 points, 4 calls, 2 exports, 1 point for a surface | 1 090 000 | approved points are calibrated, a fresh export matches, refusals change nothing |
| `civil_canvas` | 2 projects, 2 extractions, 1 change of each with its undo and redo | 189 000 | the hover service is current, an extraction ends |
| `civil_surface` | 4 points on a 3 by 3 grid and a far place, in every order, one boundary, exclusion or line | 156 000 | the triangulation is Delaunay as far as the super triangle reaches, and its filters honour the geometry |
| `readings` | texts of 5 characters, 5 elevations, 3 labels, 12 labels in one place, 1 spoilt label beside 3 | 104 000 | what is read is what was written, or nothing |
| `journal_retry` | as `run_files`, 3 appends, 2 skips | violated | finding 1 |
| `shown_value` | 1 field, values 1 and 5 | violated | finding 2 |
| `pause_kept` | 1 field, values 1 and 5 | violated | finding 3 |

Why the bounds are enough. A pause, a recovery, a new recording and another pause
fit into four revisions; counters are only compared with their limit, at which
they saturate. After one forgotten worker (`MaxOrphans`) the owner only stops, so that the
processes nobody tears down do not use up the generations. Three generations are the worker, the one being torn down and the
one that replaces it. Three values give one pair below the threshold and one
above, and a row longer than confirmations and debounce behaves like one that
just reached them. Two appends are enough for a failed one before and after an
acknowledged one, the second an event with a point and the first without. Two fields
are the one a dialog holds and another; two targets, two controllers the one
dropped and the one in charge. Four calls are, for instance, an edit,
a recalibration, an export and an undo. Four points on a grid of nine contain the
triple on a line, the four on a circle and two at one place; with the far place,
triangles whose circle reaches the super triangle, which then loses them (`Reached`). Texts of five
characters hold a sign, two separators and two digits. Three labels compete, guard
and are suggested in every combination; twelve in one place are as many as the spatial
index returns; with one more `StrictRejectionsGuard` does not hold (below). `Retention` treats one
field at a time: fields meet only in the precedence of the decision, and two
fields are too many for a run.

`SetupScreen` treats its fields alike, so `setup_screen` uses their symmetry; no
liveness is checked there. Deadlock checking is off where the modelled thing ends:
at a bound, when the window is closed, when the run is final or recovered, when an
input was read.

The code's `C.FAILURE_STREAK_LIMIT` is 3. `recording_threads` has 2, as its
liveness is too much for TLC otherwise; its safety properties and the invariant
of the proofs were checked at 3 as well (435 254 states, no error). The
proofs are for every limit and any number of forgotten workers.

`retention` leaves the `OSError` of the crop directory out of `Failures`: with it
`ComparatorIsDurable` does not hold. The properties of `run_files` that need it
say `~spoilt`, and `journal_retry` shows what happens otherwise.

### Findings

1. A failed append may leave bytes that the retry makes into a sequence break
   or a malformed line; the run can then be neither stopped nor recovered into
   exports.
2. A reading rejected as unstable is cached as unstable; if the pixels then
   stand still the value is never confirmed.
3. The owner's Pause keeps the pending candidate and its evidence, against
   `docs/requirements/M2_LIVE_DATA_CONTRACTS.md:378-380`; after Resume one more
   equal reading may confirm a candidate from before the pause. `ChangesAreConfirmed`
   counts confirmations as the code does, across such a pause.

### Statements the code does not keep

The modules state some more of what documents and comments say. TLC refutes each
under the constants of the run named (the formula in place of its properties);
they are not runs of their own.

| statement | run | what happens |
|---|---|---|
| `LiveSession!StopAlwaysFinalizes` | `live_session` | a recovery whose preview failed, or whose gate was left, leaves the recording screen over a session that is not recording; Stop is refused and the refusal swallowed, against `M2_LIVE_PRODUCT_SPEC.md:177` |
| `RecordingThreads!RecordingCaptures` | `recording_threads` | a Pause refused because a tick is in flight leaves the session RECORDING and the scheduler paused, until Pause is clicked again |
| `RecordingThreads!PauseNeverOverlaps` | `recording_threads` | after a tick that paused the session by itself, or a scheduler already past its check, Pause meets the tick's request on the pipe |
| `RecordingThreads!NoRestartAfterStop` | `recording_threads` | a tick whose worker Stop tore down spawns a replacement, against `M2_LIVE_DATA_CONTRACTS.md:37` |
| `RecordingThreads!PauseStopsDispatch` | `recording_threads` | a tick the loop had decided on pauses the session by itself after `user_resume` made it RECORDING and before `scheduler.resume()` (`ui/app.py:3306-3308`): `running`, cleared by the pause, is set again, and the loop dispatches ticks over a paused session, against `M2_LIVE_DATA_CONTRACTS.md:497` ("Enter `PAUSED` and stop scheduling captures"). Each finds it PAUSED and captures nothing (`NoFrameWhilePaused`) |
| `RecordingThreads!StopLeavesNoWorker` | `recording_threads` | a tick dispatched behind the drain of a Pause fails to capture and restarts the worker; the Pause's request is refused, and its teardown finds no process, between `self.worker = ...` and `start`, or overlaps the tick's; its `self.worker = None` (`controller.py:174`) forgets the new process, and a later Stop with no tick in flight leaves it running, against `src/tests_m2/run_m2_soak.py:263` ("must never ... leave an orphan"). Only the backoff before a restart and the time a teardown waits make it unlikely; nothing orders the two threads |
| `RunJournal!FinalizedRunIsFinal` | `run_files` | a tick in flight when Stop goes on appends behind the exports and the manifest |
| `Retention!EvidenceSelfContained` | `retention` | a cached reading starts a candidate; the change it leads to has neither raw text nor crop, against `M2_LIVE_PRODUCT_SPEC.md:249` |
| `Retention!ComparatorIsDurable` | `retention`, with `"OSError"` in `Failures` | an `OSError` from creating `crops/<seq>/` leaves the tick past rollback and pause; the change is lost |
| `SetupScreen!ConfirmedIsReal` | `setup_screen` | Apply in the Edit dialog confirms the placeholder rectangle of a field that was only renamed |
| `CivilHandoff!ExportHistoryRetained` | `civil_handoff` | Undo takes the list of packages back with the rest |
| `CivilCanvas!IndexOfOpenSheet` | `civil_canvas` | a project opened during an extraction gets the index of the sheet before |
| `CivilSurface!SurfaceFillsHull` | `civil_surface` | the super triangle is 20 spans high (`surface.py:212-216`); the circle through points almost on a line, as (0, 0), (2, 0), (50, 2), reaches it, and the triangle is dropped: the surface has a notch at its hull, or is refused as collinear ("cannot be triangulated") |
| `CivilSurface!BoundaryIsLimit` | `civil_surface` | the boundary filter looks at the centroid and the sides of a triangle (`surface.py:111-115`): one that has the whole boundary within it is kept, and covers ground outside |
| `CivilSurface!SurfacesStaySeparate` | `civil_surface`, with two types, side 1, far place 1, 6 points, no geometry | a triangle disabled in one surface disables the one of the same number in the other, against decision CPD-006 |
| `Readings!DroppedIsTrue` | `readings` | where OCR dropped the degree sign altogether, `_recover_corrupted_degrees` takes a genuine zero of the degrees for it if that alone splits validly: `1010'20.5"N` is read as 1°10'20.5", with status OK, against `parsing.py:299-303` ("the corruption is caught") |
| `Readings!StrictRejectionsGuard` | `readings`, with `MaxCrowd = 13` | `suggest` looks for a guard only in what `nearest` returns, the twelve nearest labels (`assisted_capture.py:148`): where twelve are nearer, a rejected label within the guard's radius is not seen and another is offered for capture, against `DETECTION_RULES.md:67-68` |
| `Readings!RangeRejectionGuards` | `readings` | a label out of the plausible range does not guard clicks near it, against `DETECTION_RULES.md` |

## 4. Fairness, liveness and refinement

`RecordingThreads!FairSpec` assumes weak fairness of the scheduler's loop, of the
tick thread, and of the Tk thread once a click called its handler, each with the
request or teardown it is in: each is a running Python thread, and each wait in it
(`queue.get`, `drain`, `process.wait`) has a timeout, which the model takes as a
step that may come at any time. Nothing is assumed of the worker process, which may be
silent for ever, nor of the owner, who need not click. `EveryoneReturns` and
`RecordingGoesOn` hold under it.

`CivilCanvas!FairSpec` assumes weak fairness of the indexing threads, of the
second half of a restore, and strong fairness of what a thread posted to the event
loop: Tk takes its events in order, so nothing the estimator does comes before it
for ever.
`EveryIndexEnds` holds under it, except for a thread that died on a torn record,
which the formula says.

Refinements: `LiveSession` implements `SessionMachine` (its `Spec` is a property
of `live_session`; same variables, no mapping needed). `RecordingThreads`
implements `WorkerCalls` under the mapping `call`: a thread that waits has a call,
which is done once the generation it asked carried out its command
(`RequestIsOneCall`). This is the step `SessionController` takes a request for.
Both are proved (`SessionRefinement`, `RequestsAreCalls`).

The other promises that sound like liveness ("a steady value is retained") are
stated as safety with a bound (`ReadValueRetained`: after so many readings).
Liveness is left to TLC.

## 5. The proofs

Eight modules hold theorems; each is about the module it is named after and those
that one extends, with its constants free. `PROJECT.json` lists the theorems a
reader should know of. The pattern is the same in all: an inductive invariant,
the conjunction of named parts; a lemma per action or handler; and the properties
from the invariant. Every invariant was first checked with TLC on its run, and so was
`ErrorsAreDurable`, which is proved and is not among the properties of one.

**Assumptions.** Those the modules declare on their constants (`RevisionAssumption`
and so on), which TLC evaluates in the runs. Three are worth a word.

- `ThreadsAssumption` asks for at least one generation, the worker the recording
  starts with.
- `ComparatorStaysDurable`, `ErrorsStayDurable` and `OnlyConfirmedChanges` are proved for
  `"OSError" \notin Failures`: an `OSError` from creating `crops/<seq>/` is caught by
  nobody between the engine's `process_tick` and its `restore`, the engine then
  stands for what the journal does not hold, and the statements are false
  (section 3). `ReadValuesAreRetained` needs no such hypothesis.
- `RecordsStaySound`, `FreshExportsMatch` and `HistoriesArePublished` are proved for
  `NoFileIsNoPackage`: the constant that stands for the absence of a package is not a
  package. TLC cannot evaluate it, since it quantifies over everything; a model
  value, as in the run, satisfies it.

**LiveSessionProofs.** First of `SessionMachine` alone: `TypeCorrect`,
`ConfirmedSessionsAreCurrent`, `InterlockStaysInSetup`, `RecordingIsReviewed`.
`PreviewCurrent` is not inductive by itself: `Stop` of a ready session leaves a
confirmation behind in `REGIONS_CONFIGURED`, so the step back to `ARMED` needs to know
that a confirmation is current or absent in every state. Then of the session:
`SessionRefinement`: every handler makes one transition of
`SessionMachine` or none, so the theorems above hold of the session. The refinement
is not independent of the invariant: a handler's transition is legal only because
of the screen that offers it (`ScreenInStep`), and `ReviewedConfiguration` of an armed session
rests on what the gate shows while it is open (`GateReviewed`). `BackendInUse` is
needed where a worker is respawned during a recording, `RecordingIsAsking` for the
assertion in `tick`, and `InvalidatedBehind` says why a configuration paused as lost
cannot be captured again: the way from that pause back to a recording is the
recovery, which bumps the revision.

**RecordingThreadsProofs.** The longest, as the property is: that no frame is captured
while PAUSED depends on where three threads are (`ControlInv`), on whose the worker is
while teardowns overlap (`WorkerInv`), and on which commands are still in a pipe or a
queue (`CommandsInv`). `PlacesInv` and `QuietInv` say that Pause, Resume and Stop each
keep the loop from dispatching, and until when: a loop that has decided on a tick goes on.
`FramesInv` then says that whatever may still be asked for a frame is
no worker that would capture one. For any number of generations and any limit,
`PausedCapturesNothing`, `PauseIsQuiet`, `CleanStopsLeaveNoWorker`. The last two have
their exceptions, `overtaken` and `orphans`: without them they are false (section 3).

`RequestsAreCalls`, the refinement of `WorkerCalls`, needs more: why the reply a
thread takes off the queue is of what the worker did last, and did for this call.
`LocksInv`: a thread that waits holds the lock of the generation it asked, so two
waits are never on one. `TellsInv`: a reply to the call that waits is in the
queue only if it is of the last command the process carried out, which then has nothing
else to do, and before that the command is the last of its inbox. `EndsInv`: the
end of a stream is no reply to any command. `ClosingInv`: STOP and SHUTDOWN are
owed only by a generation that is being closed, so neither is asked of one twice
and a late reply to the first cannot pass for the second; for CAPTURE, PAUSE and
RESUME that is `OwedInv`, part of `CommandsInv`. Under the mapping every step is then a Send,
Perform, Return, Fail or Drop of one call, or a stutter (`CallStep`).

**RetentionProofs.** About one field at a time: the row of equal readings it was given and its
candidate are the same thing until the comparator stands for the row (`RowPending`).
The lemmas on `Read` follow one reading through `process_tick`; a rollback restores
the engine as it was before the tick. `ErrorRemembers` is needed for changed_only,
where the end of an error is compared with the value before it. `ErrorsStayDurable`
follows an error from the reading that raises it to the event that names it
(`ReadLeavesError`, `ErrorsAreNamed`).

**RunFilesProofs.** `FilesInv` has five parts. `SkipsInv` counts a skip twice between the
acknowledgement of its event and its consumption, as the code does. `JournalInv` says what may
stand behind the acknowledged lines, torn or not, unless a failed append spoilt the
file; `AcknowledgedEventsSurvive` and `CheckpointsNeverLead` follow for every kill and power
loss. `AppendInv` ties the crops written so far to the event under way: a retry
writes its own over those of the attempt before.

The live previews rest on `PreviewInv`, which is `FilesInv` with two parts more.
`LiveInv` is about each file: its rows stand in the order of their events, and the rows
reported but lost, with one more if it ends in a piece, are no more than the failures
counted in `export_errors`; the piece must be counted, since the next append
to that file destroys the row it would have been. `RowsAreKept` is the case without a
piece. `RegenInv`: as long as nothing failed, the previews are what would be
regenerated from the events shown, so a rebuild changes nothing
(`PreviewsAreRegenerations`). The appends of a row, and the points of an event, are
loops; their lemmas unfold the recursive functions with `Climb`, below.

**SetupScreenProofs.** `VerdictIsCurrent` is inductive with `GrabInv`, that the picker and the
gate keep the input and with it what they rest on, and `ChargeInv`, that the
controller in charge is of the selected target. `NoOtherStrays` is an action property of
every controller ever made.

**CivilHandoffProofs.** `FormInv`: in every record that can come back (current, undone,
redone, on file) every point, approved or not, is where the record's calibration puts
it. That is stronger than `ApprovedIsCalibrated`, which an approval after a
recalibration would otherwise break. `Keeps` is what each of the estimator's thirty
methods does: the form stays, the history stays, and either the record is marked
stale or what would be in the package is the same; only sorting takes the second way.
`PackagesInv`: every such record, and the one a failed export rolls back to, is `Sound` for the
packages published, while the record under export is not until the rename. `OneByOne` is a recursive
function over the elements. What it computes is proved without an induction
schema: `Climb` shows, with the least element of a set of numbers, that a set with 0
and with the successor of each of its members is all of them, and the lemmas of the
three loops say that the recursive function exists and keeps the form at every step.

**ReadingsProofs.** The runs enumerate short inputs; these are theorems for texts, sheets
and rows of elevations of any length. `Spec` only makes inputs, so each invariant is
the form of the input and the theorem is about the operators.

- `NumbersAreAsWritten`: a number is read only from a text with one word that holds
  digits, and is the whole of that word with its sign; `auto` reads what any fixed
  mode that succeeds would have read.
- `RecoveryIsTrue`: the reading whose degree sign became a zero splits in the place the
  screen showed, which is one of the valid splits; where it is the only one it is taken,
  otherwise none is.
- `BandIsDensest`: no stretch of twenty holds more elevations than the window the scan
  ends with. The invariant of the scan is that `best` is at least as long as every
  window with a left end behind it and that the right end only moves forward; it is
  carried along the recursive function with `Climb`. `Ranked` is shown to
  be a sorted enumeration by counting what comes before (`PlacesAreTaken`).
- `OffersAreSafe`: what may be captured is guarded by nothing, is the nearest of its mode,
  and its symbol has no other elevation. It has the hypotheses `MaxLabels <= Limit`
  and `MaxCrowd <= Limit`, that the sheet has no more labels than a lookup of the spatial
  index returns. The code does not enforce them, and without them the statement is
  false: that is `StrictRejectionsGuard` of section 3.

**CivilCanvasProofs.** `ServiceInv` makes an exception of the moment at which a
record is put back and the window has not been told; `ThreadsInv` is why the
generation counter, without a lock, lets only the latest extraction be under way.

### What is only model-checked

- Liveness (`EveryoneReturns`, `RecordingGoesOn`, `EveryIndexEnds`): out of the
  prover's reach.
- `SurfaceIsDelaunay` and `GeometryHonored` of `civil_surface`: folds over the points,
  and determinants of positions, a non-linear arithmetic the SMT solver does not
  decide. The induction is over the triangulation built so far, which no theorem
  without an operator parameter offers, and its step is a theorem of plane geometry.

## 6. Mutants

Next to a definition stands its mutant, an operator that makes the mistake its
comment names ("Mutant:" or "As if"). Put in the definition's place it breaks
the property `PROJECT.json` pairs it with.

## 7. The plan

What is left, most important first.

1. Proofs: for `CivilSurface` lemmas on the filters, which need no geometry.
2. `Retention` with other fields abstracted into what they contribute to the
   decision; the recovery reported once; the streaks of the automatic pauses.
3. The estimator's workbook and its round-trip check; the fit of the transform.

## 8. What is not modelled, and why

Pixels, OCR, image and PDF processing, file formats and wording, which the
properties do not tell apart or which are inputs; the time a backoff or a
countdown takes; floating-point error in the transform and the surface (positions
are exact in the model); breaklines as constraints, which the code does not do
either; profiles and validation of the configuration, which keep no state; dates
and plain coordinates of `parsing.py`; the contents of export files beyond which
rows they hold; the demo, evaluation and target validation tools, which drive
the modelled parts by script; `screen2xyz_m1`, a superseded sequential tool; and
`screen2xyz_lab`, a batch computation over images.

What is abstracted inside the modelled parts, by definition:

- `LiveSession!StartClicked` leaves out the `OSError` of creating the run directory
  and `session.json` (a hazard of `PROJECT.json`).
- `RecordingThreads!Launch` reads the session's state for the mode a new worker is
  restored to; the code reads it between `Spawn` and `Launch` (`controller.py:167`).
  The safety properties were checked with the mode read at `Spawn` as well
  (293 794 states, no error).
- `RunFiles!Rows` always has a row of the long file; the code leaves it out of an
  event that has none (`journal.py:269`). `Replaced` leaves out
  `points_xyz_metadata.json` and `run_summary.json`, which are rewritten in place
  (`exports.py:321, 359`) and which `ExportsAgree` does not speak of. `RebuildExports`
  is also offered for a run whose summary is unverified.
- `SetupScreen!ApplyEdit` has no rectangle without an area: the code stores one but does not
  confirm it (`app.py:1271`). `OpenReview` follows the Review dialog opened last.
- `CivilHandoff!Content` omits the source manifest and the pages, which change
  outside the undoable actions (`ui/app.py:764-767`, `exports.py:483-505`): a
  package is not marked stale when they do, and `FreshExportMatches` does not say it is.
- `CivilRecord!AddElevationLine` keeps one elevation line, the code a list
  (`workflow.py:479`).
- `CivilReadings!Score` leaves out the share of the symbol's confidence and the cap
  (`detection.py:305-310`), with symbols of one confidence. `Competing` groups labels by
  symbol, the code by the page, pixel and type of it (`assisted_capture.py:434-439`).
- `ValueParsing!ParseNumber` does not tell a plus sign from none and has no range
  check; both only refuse more. `Splits` bounds a coordinate without its seconds,
  which a true reading always satisfies.
