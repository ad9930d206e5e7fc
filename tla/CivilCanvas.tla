----------------------------- MODULE CivilCanvas ------------------------------
(***************************************************************************)
(* The civil window (src/screen2xyz_civil/ui/app.py): projects opened one  *)
(* after another, an index of text candidates built by a background        *)
(* thread, the suggestion under the cursor, and tools that collect clicks. *)
(* The Tk thread handles one event at a time, except that an indexing      *)
(* thread may look at a record while an undo is putting it back.  There is *)
(* one candidate on each sheet, where the exclusion tool may draw.         *)
(***************************************************************************)
EXTENDS Integers, Sequences, FiniteSets, SequencesExt

CONSTANTS
  None,        \* no index, service, suggestion or callback
  MaxOpens,    \* bound: projects opened in a session of the window
  MaxIndexes,  \* bound: extractions started
  MaxChanges   \* bound: undoable actions that change the record of one project

ASSUME CanvasAssumption ==
  /\ MaxOpens \in Nat \ {0} /\ MaxIndexes \in Nat \ {0} /\ MaxChanges \in Nat

VARIABLES
  projects,    \* the project objects with their undo and redo stacks; the last is self.project
  tool,        \* _tool with its clicks, their number wanted and the callback
  indexing,    \* _indexing
  generation,  \* _index_generation
  threads,     \* the indexing thread of each generation
  index,       \* _candidate_index
  service,     \* _hover_service
  hover,       \* _hover_suggestion
  torn,        \* _restore_snapshot is between clear and update, and what follows it
  changes      \* of the bound

canvas == <<index, service, hover>>
work == <<indexing, generation, threads>>
vars == <<projects, tool, work, canvas, torn, changes>>

Generations == 1..MaxIndexes
Live        == {"extracting", "building", "posted"}
Select      == [name |-> "select", clicks |-> 0, want |-> 0, then |-> None]
NoThread    == [phase |-> "none", of |-> 0, error |-> FALSE, rejected |-> FALSE]
Ended(phase) == [NoThread EXCEPT !.phase = phase]

Loaded  == projects # <<>>
Current == Len(projects)
Record  == projects[Current].record
Opened(calibration) ==
  [record |-> [calibration |-> calibration, excluded |-> FALSE, cart |-> <<>>],
   undo |-> <<>>, redo |-> <<>>]

------------------------------------------------------------------------------
(* _rebuild_hover_service *)
Service(i, record) == IF i = None THEN None ELSE [index |-> i, calibration |-> record.calibration]
(* _set_candidate_index, and the _refresh that follows it. *)
SetIndex(i) == index' = i /\ service' = Service(i, projects'[Current].record) /\ UNCHANGED hover
Refresh     == SetIndex(index)

TkIdle == torn = "no"

(* new_from_source and open_project: another object, an empty index.  A tool
   under way and an extraction under way stay as they are; the stacks of the
   project that is left are out of reach. *)
Load(calibration) ==
  /\ TkIdle
  /\ Current < MaxOpens
  /\ projects' = Append([p \in DOMAIN projects |-> [projects[p] EXCEPT !.undo = <<>>, !.redo = <<>>]],
                        Opened(calibration))
  /\ index' = None /\ service' = None /\ hover' = None
  /\ changes' = 0
  /\ UNCHANGED <<tool, work, torn>>
NewFromSource == Load(0)
OpenProject   == Load(1)

(* extract_pdf_candidates, run_local_ocr *)
Start ==
  /\ generation' = generation + 1
  /\ indexing' = TRUE
  /\ threads' = [threads EXCEPT ![generation + 1] =
       [NoThread EXCEPT !.phase = "extracting", !.of = Current]]
StartAnyway == Loaded /\ TkIdle /\ generation < MaxIndexes /\ Start /\ UNCHANGED <<projects, tool, canvas, torn, changes>>
(* The busy flag refuses a second extraction. *)
Extract ==
  /\ Loaded /\ TkIdle
  /\ ~indexing
  /\ generation < MaxIndexes
  /\ Start
  /\ UNCHANGED <<projects, tool, canvas, torn, changes>>

Thread(g, phase, t) ==
  /\ threads[g].phase = phase
  /\ threads' = [threads EXCEPT ![g] = t]
  /\ UNCHANGED <<projects, tool, indexing, generation, canvas, torn, changes>>
(* The adapters, outside the record. *)
ReadSheet(g) ==
  \E failed \in BOOLEAN :
    Thread(g, "extracting",
      IF failed THEN [Ended("posted") EXCEPT !.error = TRUE]
      ELSE [threads[g] EXCEPT !.phase = "building"])
(* build_candidate_evidence reads the record the thread was started with, as
   it is now.  A record without attributes raises what worker does not catch,
   and nothing is posted. *)
BuildEvidence(g) ==
  LET t == threads[g] IN
  IF torn # "no" /\ t.of = Current
    THEN Thread(g, "building", Ended("died"))
    ELSE Thread(g, "building", [t EXCEPT !.phase = "posted", !.rejected = projects[t.of].record.excluded])

(* _finish_pdf_index, _finish_ocr_index: the index, and the sheet's name, which
   nothing here reads, go to the project that is open now. *)
FinishKeepsBusy(g) == indexing  \* mutant: the error return comes before the flag
FinishBusy(g) == IF g = generation THEN FALSE ELSE indexing
FinishIndex(g) ==
  LET t == threads[g] IN
  /\ TkIdle
  /\ t.phase = "posted"
  /\ threads' = [threads EXCEPT ![g] = Ended("over")]
  /\ indexing' = FinishBusy(g)
  /\ UNCHANGED projects
  /\ IF g # generation \/ t.error THEN UNCHANGED canvas
     ELSE SetIndex([sheet |-> t.of, rejected |-> t.rejected])
  /\ UNCHANGED <<tool, generation, torn, changes>>

------------------------------------------------------------------------------
(* An undoable method of the workflow that returns, and one that raises: the
   latter puts the record back, and the window returns without a refresh. *)
Changed(record) ==
  /\ changes < MaxChanges
  /\ changes' = changes + 1
  /\ projects' = [projects EXCEPT ![Current] =
       [record |-> record, undo |-> Append(@.undo, @.record), redo |-> <<>>]]
Raised ==
  /\ projects' = [projects EXCEPT ![Current].redo = <<>>]
  /\ torn' = "keep"
  /\ UNCHANGED changes

(* _begin_collect, of four clicks, three or more, or one. *)
Callbacks == [calibration |-> 2, exclusion |-> 2, manual |-> 1]
BeginCollect(kind) ==
  /\ Loaded /\ TkIdle
  /\ tool' = [name |-> "collect", clicks |-> 0, want |-> Callbacks[kind], then |-> kind]
  /\ UNCHANGED <<projects, work, canvas, torn, changes>>
CancelTool == TkIdle /\ tool' = Select /\ UNCHANGED <<projects, work, canvas, torn, changes>>

(* What the callback asks of the workflow that is open when it is called. *)
Applied(kind) ==
  CASE kind = "calibration" -> [Record EXCEPT !.calibration = @ + 1]
    [] kind = "exclusion"   -> [Record EXCEPT !.excluded = TRUE]
    [] kind = "manual"      -> [Record EXCEPT !.cart = Append(@, [sheet |-> Current, assisted |-> FALSE])]

(* _on_left_press with a collecting tool; the tool is dropped before the call. *)
Collect ==
  /\ Loaded /\ TkIdle /\ tool.name = "collect"
  /\ IF tool.clicks + 1 < tool.want
     THEN /\ tool' = [tool EXCEPT !.clicks = @ + 1]
          /\ UNCHANGED <<projects, canvas, torn, changes>>
     ELSE /\ tool' = Select
          /\ \/ Changed(Applied(tool.then)) /\ Refresh /\ UNCHANGED torn
             \/ Raised /\ UNCHANGED canvas
  /\ UNCHANGED work

(* set_elevation_range empties the index, and leaves the suggestion. *)
SetElevationRange ==
  /\ Loaded /\ TkIdle
  /\ \/ Changed(Record) /\ SetIndex(None) /\ UNCHANGED torn
     \/ Raised /\ UNCHANGED canvas
  /\ UNCHANGED <<tool, work>>

(* undo_action, redo_action: the refresh comes after the record is whole. *)
UndoUnrefreshed == "keep"  \* mutant: undo_action without _refresh
AfterUndo == "refresh"
UndoAction ==
  /\ Loaded /\ TkIdle
  /\ projects[Current].undo # <<>>
  /\ projects' = [projects EXCEPT ![Current] =
       [record |-> Last(@.undo), undo |-> Front(@.undo), redo |-> Append(@.redo, @.record)]]
  /\ torn' = AfterUndo
  /\ UNCHANGED <<tool, work, canvas, changes>>
RedoAction ==
  /\ Loaded /\ TkIdle
  /\ projects[Current].redo # <<>>
  /\ projects' = [projects EXCEPT ![Current] =
       [record |-> Last(@.redo), redo |-> Front(@.redo), undo |-> Append(@.undo, @.record)]]
  /\ torn' = AfterUndo
  /\ UNCHANGED <<tool, work, canvas, changes>>
Restore ==
  /\ torn # "no"
  /\ torn' = "no"
  /\ UNCHANGED projects
  /\ IF torn = "refresh" THEN Refresh ELSE UNCHANGED canvas
  /\ UNCHANGED <<tool, work, changes>>

------------------------------------------------------------------------------
(* _update_hover *)
Suggestion == IF service = None THEN None
              ELSE [sheet |-> service.index.sheet, rejected |-> service.index.rejected,
                    calibration |-> service.calibration]
Motion ==
  /\ Loaded /\ TkIdle
  /\ hover' \in IF tool.name = "select" THEN {Suggestion, None} ELSE {hover}
  /\ UNCHANGED <<projects, tool, work, index, service, torn, changes>>
PointerLeave == TkIdle /\ hover' = None /\ UNCHANGED <<projects, tool, work, index, service, torn, changes>>

(* capture_hover_suggestion; the workflow refuses a second row of a candidate. *)
Capture(suggestion) ==
  LET row == [sheet |-> suggestion.sheet, assisted |-> TRUE] IN
  IF suggestion = None \/ suggestion.rejected THEN UNCHANGED <<projects, torn, index, service, changes>>
  ELSE IF Contains(Record.cart, row)
    THEN Raised /\ UNCHANGED <<index, service>>
    ELSE /\ Changed([Record EXCEPT !.cart = Append(@, row)])
         /\ index' = index /\ service' = Service(index, Record)
         /\ UNCHANGED torn
(* A click looks under the cursor first; Enter, with any tool, does not. *)
Click ==
  /\ Loaded /\ TkIdle
  /\ tool.name = "select"
  /\ hover' = Suggestion
  /\ Capture(Suggestion)
  /\ UNCHANGED <<tool, work>>
Enter == Loaded /\ TkIdle /\ Capture(hover) /\ UNCHANGED <<tool, work, hover>>

------------------------------------------------------------------------------
Init ==
  /\ projects = <<>>
  /\ tool = Select
  /\ indexing = FALSE /\ generation = 0
  /\ threads = [g \in Generations |-> NoThread]
  /\ index = None /\ service = None /\ hover = None
  /\ torn = "no" /\ changes = 0

Indexer(g) == ReadSheet(g) \/ BuildEvidence(g)

Next ==
  \/ NewFromSource \/ OpenProject
  \/ Extract
  \/ \E g \in Generations : Indexer(g) \/ FinishIndex(g)
  \/ \E kind \in DOMAIN Callbacks : BeginCollect(kind)
  \/ CancelTool \/ Collect
  \/ SetElevationRange
  \/ UndoAction \/ RedoAction \/ Restore
  \/ Motion \/ PointerLeave \/ Click \/ Enter

(* Threads run, and the event loop, which takes its events in order, handles
   what is posted to it however many come in between. *)
FairSpec ==
  /\ Init /\ [][Next]_vars
  /\ \A g \in Generations : WF_vars(Indexer(g)) /\ SF_vars(FinishIndex(g))
  /\ WF_vars(Restore)

------------------------------------------------------------------------------
(* Between two events of the window, the service that resolves the cursor works
   with the index and the calibration of the open project, whatever was undone,
   refused, opened or installed by a thread since it was made: local coordinates
   are never shown on the grid of another calibration. *)
ServiceIsCurrent ==
  torn = "no" =>
    service = IF Loaded THEN Service(index, Record) ELSE None

(* One extraction is under way at most, and it is of the latest generation: no
   result is ever dropped, or installed over that of a later extraction. *)
LatestIsOnly ==
  \A g \in Generations : threads[g].phase \in Live => g = generation /\ indexing

(* The flag that refuses extractions comes down again: by the answer, good or
   not.  What may keep it up is a thread that met the record of an undo, or of
   a refused action, half restored. *)
EveryIndexEnds ==
  \A g \in Generations :
    (indexing /\ generation = g) ~> (~indexing \/ threads[g].phase = "died")

(* What does not hold: text read from the sheet of a project that was left may
   be indexed, and captured, in the one opened meanwhile. *)
IndexOfOpenSheet == index # None => index.sheet = Current
==============================================================================
