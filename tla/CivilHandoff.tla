----------------------------- MODULE CivilHandoff -----------------------------
(***************************************************************************)
(* The files of a civil plan project: the saved record (persistence.py)    *)
(* and the handoff packages (exports.py), which are built in a staging     *)
(* directory and published by one rename.  The window (ui/app.py) calls    *)
(* them between the estimator's actions of CivilRecord; the process may    *)
(* die at any step.                                                        *)
(***************************************************************************)
EXTENDS CivilRecord

CONSTANTS
  MaxExports,     \* bound: packages published
  NoFile,         \* there is no saved record, no package
  SurfacePoints   \* approved points a LandXML surface needs: 3 in the code

ASSUME HandoffAssumption == MaxExports \in Nat /\ SurfacePoints \in Nat \ {0}

VARIABLES
  file,      \* the project file
  packages,  \* the published package of each token
  export     \* the export under way: phase, token, selection, prior history and freshness

vars == <<project, undo, redo, calls, file, packages, export>>

Tokens == 1..MaxExports  \* export ids, which come with the time of day
Idle == [phase |-> "idle", token |-> NoFile, ids |-> {}, history |-> <<>>, stale |-> TRUE]

(* approved_points, and what the package says of the project. *)
Exportable(q) == q.status \in Approved /\ q.type \in Terrain /\ q.grid # NoGrid
Rows_(p, ids) == {p.points[i] : i \in {j \in DOMAIN p.points : Exportable(p.points[j]) /\ p.points[j].id \in ids}}
Content(p, ids) ==
  [rows |-> {[number |-> q.number, grid |-> q.grid, z |-> q.z, type |-> q.type] : q \in Rows_(p, ids)},
   line |-> IF p.line = "APPROVED" THEN p.calibration ELSE 0,
   geometry |-> p.geometry, check |-> p.check,
   surface |-> IF p.landxml THEN p.disabled ELSE {"not requested"}]

(* has_critical_export_errors *)
Critical(p) ==
  \/ p.calibration = 0
  \/ \E i \in DOMAIN p.points : p.points[i].status \in Approved /\ ~Exportable(p.points[i])
(* The gates of landxml_bytes and build_project_surface. *)
SurfaceReady(p) ==
  /\ "boundary" \in p.geometry
  /\ \E t \in Terrain :
       Cardinality({i \in DOMAIN p.points : Exportable(p.points[i]) /\ p.points[i].type = t}) >= SurfacePoints
Buildable(p, ids) ==
  /\ ~Critical(p)
  /\ ids # Ids(p) => Rows_(p, ids) # {}
  /\ p.landxml => SurfaceReady(p)

------------------------------------------------------------------------------
Opened ==
  LET p == [NewProject EXCEPT !.calibration = 1, !.geometry = {"boundary"}]
      q == AddPoint(p, NewPoint(p, "inside", "common", "EXISTING_GROUND", "MANUAL", "APPROVED"))
  IN  AddPoint(q, [NewPoint(q, "inside", "common", "DESIGN_GRADE", "PDF_TEXT", "AUTO_HIGH_CONFIDENCE")
                     EXCEPT !.alternatives = 1])

(* A project made from a source, or one of an earlier day. *)
Init ==
  /\ \/ project = NewProject /\ file = NoFile
     \/ project = Opened /\ file = Opened
  /\ undo = <<>> /\ redo = <<>> /\ calls = 0
  /\ packages = [t \in Tokens |-> NoFile]
  /\ export = Idle

Estimate == export = Idle /\ Workflow /\ UNCHANGED <<file, packages, export>>

(* enable_landxml: in the record, but not an undoable action. *)
EnableLandXml ==
  /\ export = Idle
  /\ "boundary" \in project.geometry
  /\ project' = Stale([project EXCEPT !.landxml = TRUE])
  /\ Counted
  /\ UNCHANGED <<undo, redo, file, packages, export>>

(* export_handoff up to the staging directory.  Ids come with the time; one whose
   package exists is refused, which changes nothing. *)
BeginExport(token, ids) ==
  /\ export = Idle
  /\ packages[token] = NoFile
  /\ export' = [phase |-> "staged", token |-> token, ids |-> ids,
                history |-> project.history, stale |-> project.stale]
  /\ Counted
  /\ UNCHANGED <<project, undo, redo, file, packages>>

(* except: the history and the freshness are put back, the stage is removed. *)
KeptEntry == [project EXCEPT !.stale = export.stale]  \* mutant: the entry stays
RolledBack == [project EXCEPT !.history = export.history, !.stale = export.stale]
FailExport ==
  /\ project' = RolledBack
  /\ export' = Idle
  /\ UNCHANGED <<undo, redo, calls, file, packages>>

(* _build_unpublished_handoff: every artifact is written and read again, then
   the package is recorded. *)
BuildExport ==
  /\ export.phase = "staged"
  /\ Buildable(project, export.ids)
  /\ project' = [project EXCEPT !.stale = FALSE, !.history =
       Append(@, [token |-> export.token, revision |-> project.calibration])]
  /\ export' = [export EXCEPT !.phase = "built"]
  /\ UNCHANGED <<undo, redo, calls, file, packages>>
(* A gate refuses, a file cannot be written, or does not verify. *)
FailBuild == export.phase = "staged" /\ FailExport

(* os.replace *)
Publish ==
  /\ export.phase = "built"
  /\ packages' = [packages EXCEPT ![export.token] =
       [content |-> Content(project, export.ids), ids |-> export.ids, revision |-> project.calibration]]
  /\ export' = [export EXCEPT !.phase = "published"]
  /\ UNCHANGED <<project, undo, redo, calls, file>>
FailPublish == export.phase = "built" /\ FailExport

(* stage_root.rmdir, and the window saves the project if it has a name; that
   save may fail too, which is no part of the export any more. *)
FinishExport ==
  /\ export.phase = "published"
  /\ export' = Idle
  /\ file' \in {file, IF file = NoFile THEN NoFile ELSE project}
  /\ UNCHANGED <<project, undo, redo, calls, packages>>
(* The rename is done, but what follows raises: the same except clause. *)
FailFinish == export.phase = "published" /\ FailExport

(* save_project: a temporary file takes the place of the file, or nothing does;
   a file like it is not replaced by another. *)
Save ==
  /\ export = Idle
  /\ file # project
  /\ file' = project
  /\ Counted
  /\ UNCHANGED <<project, undo, redo, packages, export>>

(* open_project, by the estimator or after the process died. *)
Reopen ==
  /\ file # NoFile
  /\ project' = file
  /\ undo' = <<>> /\ redo' = <<>> /\ Counted
  /\ export' = Idle
  /\ UNCHANGED <<file, packages>>

Published == {t \in Tokens : packages[t] # NoFile}
Handoff ==
  \E ids \in {Ids(project)} \cup {{id} : id \in Ids(project)} :
    \E token \in Tokens : (\A t \in Tokens : t < token <=> t \in Published) /\ BeginExport(token, ids)

Next ==
  \/ Estimate
  \/ EnableLandXml
  \/ Handoff
  \/ BuildExport \/ FailBuild
  \/ Publish \/ FailPublish
  \/ FinishExport \/ FailFinish
  \/ Save
  \/ Reopen

Spec == Init /\ [][Next]_vars

------------------------------------------------------------------------------
Stored == <<project>> \o undo \o redo \o (IF file = NoFile THEN <<>> ELSE <<file>>)

IsPoint(q) ==
  /\ q.id \in Nat \ {0} /\ q.number \in Nat \ {0}
  /\ q.pixel \in Pixels /\ q.z \in Elevations
  /\ q.type \in Types /\ q.status \in Statuses

(* The types, and what CivilProject demands when an undo, a redo or an open
   builds it again from a stored record: no two points have one id. *)
TypeOK ==
  /\ \A n \in DOMAIN Stored :
       LET p == Stored[n] IN
       /\ p.calibration \in Nat
       /\ \A i \in DOMAIN p.points : IsPoint(p.points[i])
       /\ Cardinality(Ids(p)) = Len(p.points)
  /\ export.phase \in {"idle", "staged", "built", "published"}

(* Whatever is edited, recalibrated, undone or reopened, an approved point is
   of a terrain class and has its place on the grid of the current calibration:
   the coordinates that go into the package are never those of an old scale. *)
ApprovedIsCalibrated ==
  \A i \in DOMAIN project.points :
    LET q == project.points[i] IN
    q.status \in Approved =>
      /\ q.type \in Terrain
      /\ project.calibration # 0
      /\ q.grid = Local(project, q.pixel)

(* exports_stale is what tells the estimator to export again.  While it is
   clear, the last package recorded holds what its selection would give now,
   through undo, redo, calls, a failed export, a crash and a reopened file.
   The sheet's source and its pages, which the window sets with no action of the
   workflow, are not part of what is compared. *)
FreshExportMatches ==
  (export = Idle /\ ~project.stale) =>
    LET last == packages[Last(project.history).token]
    IN  /\ project.history # <<>>
        /\ last # NoFile
        /\ last.content = Content(project, last.ids)

(* No record, current, undone, or on file, lists a package that was never
   published: a failed export takes its entry back before anything keeps it. *)
RecordedIsPublished ==
  \A n \in DOMAIN Stored : \A k \in DOMAIN Stored[n].history :
    LET entry   == Stored[n].history[k]
        package == packages[entry.token]
    IN  \/ package # NoFile /\ package.revision = entry.revision
        \/ n = 1 /\ export.phase = "built" /\ entry.token = export.token

(* A call that is refused, however far it had got (a bulk action half way, an
   alternative already taken off), leaves the record as it was: between two
   exports, what changes it without being undoable is the acceptance of LandXML
   and the opening of the file. *)
RefusedChangesNothing ==
  [][(export = Idle /\ export' = Idle /\ undo' = undo) =>
       project' \in {project, Stale([project EXCEPT !.landxml = TRUE]), file}]_vars

(* The documentation: export history is retained.  Undo brings back the list
   of packages of the snapshot with everything else.
   The code does not keep this. *)
ExportHistoryRetained ==
  [][(Undo \/ Redo) => Range(project.history) \subseteq Range(project'.history)]_vars
==============================================================================
