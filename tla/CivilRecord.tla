----------------------------- MODULE CivilRecord -----------------------------
(***************************************************************************)
(* The record of a civil plan project (src/screen2xyz_civil/models.py) and *)
(* the estimator's actions on it (workflow.py).  An operator gives what a  *)
(* method leaves in the record and whether it raises; @undoable, Undo and  *)
(* Redo work with whole records.  Plan positions, elevations, classes and  *)
(* point numbers are members of small sets.                                *)
(***************************************************************************)
EXTENDS Integers, Sequences, FiniteSets, SequencesExt

CONSTANTS
  MaxPoints,  \* bound: rows of the Point Cart
  MaxCalls    \* bound: what the estimator does in a behaviour, undo and save included

ASSUME RecordAssumption == MaxPoints \in Nat \ {0} /\ MaxCalls \in Nat

VARIABLES
  project,   \* self.project
  undo,      \* _undo_stack
  redo,      \* _redo_stack
  calls      \* of the bound

Pixels     == {"inside", "outside"}  \* of the region the crop tool selects
Elevations == {"common", "extreme"}  \* an extreme one is outside the narrow range
Terrain    == {"EXISTING_GROUND", "DESIGN_GRADE"}  \* of TERRAIN_POINT_TYPES
Types      == Terrain \cup {"UNKNOWN_NUMERIC"}
Statuses   == {"UNREVIEWED", "REVIEW_REQUIRED", "AUTO_HIGH_CONFIDENCE",
               "APPROVED", "EDITED_AND_APPROVED", "REJECTED"}
Approved   == {"APPROVED", "EDITED_AND_APPROVED"}
Geometries == {"boundary", "exclusion"}  \* lines of all kinds are kept alike
NoGrid     == <<>>   \* local_east and local_north are None

(* to_local: the position on the grid of a calibration's revision. *)
Local(p, pixel) == IF p.calibration = 0 THEN NoGrid ELSE <<pixel, p.calibration>>

NewProject ==
  [crop |-> "none", range |-> "wide", calibration |-> 0, check |-> "none",
   points |-> <<>>, line |-> "none", geometry |-> {}, disabled |-> {},
   landxml |-> FALSE, history |-> <<>>, stale |-> TRUE]

Ids(p)      == {p.points[i].id : i \in DOMAIN p.points}
Row(p, id) == CHOOSE i \in DOMAIN p.points : p.points[i].id = id
Point(p, id) == p.points[Row(p, id)]
(* _next_point_id: one more than the largest in the cart. *)
NextId(p) == 1 + (IF p.points = <<>> THEN 0 ELSE CHOOSE m \in Ids(p) : \A i \in Ids(p) : i <= m)

InCrop(p, pixel) == p.crop = "none" \/ pixel = "inside"
Plausible(p, z)    == p.range = "wide" \/ z = "common"

------------------------------------------------------------------------------
(* What a method leaves: the record, and whether it returned. *)
Returns(p) == [ok |-> TRUE, p |-> p]
Raises(p) == [ok |-> FALSE, p |-> p]
Stale(p) == [p EXCEPT !.stale = TRUE]
Require(c, p, q) == IF c THEN Returns(Stale(q)) ELSE Raises(p)
WithPoint(p, id, q) == [p EXCEPT !.points[Row(p, id)] = q]

SetCrop(p, crop) == Require(crop = "small", p, [p EXCEPT !.crop = crop])
SetRange(p, range) == Require(range # "reversed", p, [p EXCEPT !.range = range])

(* Mutant: points already approved keep their coordinates. *)
CalibrateUnreviewed(p, distinct) ==
  LET q == [p EXCEPT !.calibration = @ + 1, !.check = "none"]
  IN  Require(distinct, p,
        [q EXCEPT !.points = [i \in DOMAIN p.points |->
           IF p.points[i].status \in Approved THEN p.points[i]
           ELSE [p.points[i] EXCEPT !.grid = Local(q, p.points[i].pixel)]]])
(* build_calibration refuses coincident clicks; otherwise a new revision
   gives every point, approved or not, its place on the new grid. *)
ApplyCalibration(p, distinct) ==
  LET q == [p EXCEPT !.calibration = @ + 1, !.check = "none"]
  IN  Require(distinct, p,
        [q EXCEPT !.points = [i \in DOMAIN p.points |->
           [p.points[i] EXCEPT !.grid = Local(q, p.points[i].pixel)]]])
VerifyScale(p, passed) ==
  Require(p.calibration # 0, p, [p EXCEPT !.check = IF passed THEN "passed" ELSE "failed"])

NewPoint(p, pixel, z, type, method, status) ==
  [id |-> NextId(p), number |-> NextId(p), pixel |-> pixel, grid |-> Local(p, pixel),
   z |-> z, type |-> type, status |-> status, edited |-> FALSE,
   method |-> method, mode |-> "none", alternatives |-> 0]
AddPoint(p, q) == [p EXCEPT !.points = Append(@, q)]

AddManual(p, pixel, z, type) ==
  Require(type \in Terrain /\ Plausible(p, z) /\ InCrop(p, pixel), p,
          AddPoint(p, NewPoint(p, pixel, z, type, "MANUAL", "UNREVIEWED")))

(* One indexed candidate at "inside"; it may be in the cart once per mode. *)
CaptureAssisted(p, z, mode, capturable) ==
  Require(/\ capturable
          /\ ~\E i \in DOMAIN p.points : p.points[i].mode = mode
          /\ Plausible(p, z), p,
    AddPoint(p, [NewPoint(p, "inside", z, mode, "PDF_TEXT", "UNREVIEWED")
                   EXCEPT !.mode = mode, !.alternatives = 1]))

AddElevationLine(p, z, pixel) ==
  Require(Plausible(p, z) /\ InCrop(p, pixel), p, [p EXCEPT !.line = "UNREVIEWED"])
ApproveElevationLine(p) ==
  Require(p.calibration # 0 /\ p.line # "none", p, [p EXCEPT !.line = "APPROVED"])

(* add_candidate: an extracted point may not come in approved. *)
AddCandidate(p, q) ==
  Require(q.id \notin Ids(p) /\ q.status \notin Approved /\ InCrop(p, q.pixel), p,
          AddPoint(p, [q EXCEPT !.grid = Local(p, q.pixel)]))

(* The elements of s are taken one after another until a step is refused. *)
OneByOne(Step(_, _), p, s) ==
  LET r[k \in 0..Len(s)] ==
        IF k = 0 THEN Returns(p)
        ELSE IF r[k - 1].ok THEN Step(r[k - 1].p, s[k]) ELSE r[k - 1]
  IN  r[Len(s)]

(* ingest_text_candidates: labels outside the crop, in an exclusion zone or of
   a class that is never terrain are filtered.  The others enter for review, at
   the place of the symbol they go with; one of these out of the crop raises. *)
EnterLabel(p, l) ==
  LET type   == IF Plausible(p, l.z) THEN l.type ELSE "UNKNOWN_NUMERIC"
      status == IF l.sure /\ type \in Terrain THEN "AUTO_HIGH_CONFIDENCE" ELSE "REVIEW_REQUIRED"
  IN  IF \/ ~InCrop(p, l.pixel)
         \/ "exclusion" \in p.geometry /\ l.pixel = "inside"
         \/ l.type = "UTILITY_RIM"
      THEN Returns(p)
      ELSE AddCandidate(p, [NewPoint(p, l.at, l.z, type, "PDF_TEXT", status)
                              EXCEPT !.alternatives = 1])
IngestTextCandidates(p, labels) == OneByOne(EnterLabel, p, labels)

------------------------------------------------------------------------------
(* edit_point: the fields are assigned one after another, and a later one may
   be refused when an earlier one is already in the record.  Keep: not given. *)
Keep == "keep"
NoEdit == [z |-> Keep, type |-> Keep, pixel |-> Keep, number |-> 0]
Given(v, old) == IF v = Keep THEN old ELSE v

EditPoint(p, id, e) ==
  LET q0 == Point(p, id)
      q1 == [q0 EXCEPT !.z = Given(e.z, @)]
      q2 == [q1 EXCEPT !.type = Given(e.type, @)]
      q3 == IF e.pixel = Keep THEN q2
            ELSE [q2 EXCEPT !.pixel = e.pixel, !.grid = IF p.calibration = 0 THEN @ ELSE Local(p, e.pixel)]
      Taken == \E i \in DOMAIN p.points : p.points[i].id # id /\ p.points[i].number = e.number
      q4 == [q3 EXCEPT !.number = IF e.number = 0 THEN @ ELSE e.number]
  IN  IF e.z # Keep /\ ~Plausible(p, e.z) THEN Raises(p)
      ELSE IF e.pixel # Keep /\ ~InCrop(p, e.pixel) THEN Raises(WithPoint(p, id, q2))
      ELSE IF e.number # 0 /\ Taken THEN Raises(WithPoint(p, id, q3))
      ELSE Returns(Stale(WithPoint(p, id, [q4 EXCEPT !.status = "REVIEW_REQUIRED", !.edited = TRUE])))

(* use_alternative_association: the alternative is taken off before the move. *)
UseAlternative(p, id) ==
  LET q == Point(p, id)
      other == CHOOSE x \in Pixels : x # q.pixel
  IN  IF q.alternatives = 0 THEN Raises(p)
      ELSE EditPoint(WithPoint(p, id, [q EXCEPT !.alternatives = @ - 1]), id, [NoEdit EXCEPT !.pixel = other])

ApprovePoint(p, id) ==
  LET q == Point(p, id) IN
  Require(/\ p.calibration # 0
          /\ q.type \in Terrain
          /\ Plausible(p, q.z)
          /\ q.grid # NoGrid, p,
    WithPoint(p, id, [q EXCEPT !.status = IF q.edited THEN "EDITED_AND_APPROVED" ELSE "APPROVED"]))

RejectPoint(p, id) == Returns(Stale(WithPoint(p, id, [Point(p, id) EXCEPT !.status = "REJECTED"])))
(* Mutant: a point sent back to review does not make the export stale. *)
MarkQuietly(p, id) ==
  Returns(WithPoint(p, id, [Point(p, id) EXCEPT !.status = "REVIEW_REQUIRED"]))
MarkReviewRequired(p, id) ==
  Returns(Stale(WithPoint(p, id, [Point(p, id) EXCEPT !.status = "REVIEW_REQUIRED"])))

(* Within the duplicate tolerance: at the same place. *)
MergeDuplicate(p, keep, reject) ==
  IF /\ keep # reject
     /\ reject \in Ids(p)
     /\ Point(p, keep).grid # NoGrid
     /\ Point(p, keep).grid = Point(p, reject).grid
  THEN RejectPoint(p, reject) ELSE Raises(p)

Without(p, id) == [p EXCEPT !.points = RemoveAt(@, Row(p, id))]
DeleteManualPoint(p, id) == Require(Point(p, id).method = "MANUAL", p, Without(p, id))
DeleteCartPoint(p, id) == Returns(Stale(Without(p, id)))

(* The rows are changed one after another. *)
BulkApprove(p, ids) == IF ids = <<>> THEN Raises(p) ELSE OneByOne(ApprovePoint, p, ids)
Describe(p, id) == EditPoint(p, id, NoEdit)
BulkChangeDescription(p, ids) == IF ids = <<>> THEN Raises(p) ELSE OneByOne(Describe, p, ids)

(* renumber_points: the selected rows, all of them by default, from start on. *)
RenumberPoints(p, ids, start) ==
  LET chosen == {i \in DOMAIN p.points : p.points[i].id \in ids}
      number(i) == start - 1 + Cardinality({j \in chosen : j <= i})
      used == {p.points[i].number : i \in DOMAIN p.points \ chosen}
  IN  Require(chosen # {} /\ used \cap {number(i) : i \in chosen} = {}, p,
        [p EXCEPT !.points = [i \in DOMAIN p.points |->
           IF i \in chosen THEN [p.points[i] EXCEPT !.number = number(i)] ELSE p.points[i]]])

(* list.sort: equal numbers keep their order, in either direction. *)
Orders(p, reversed) ==
  LET n(i) == p.points[i].number
      Before(i, j) == IF reversed THEN n(i) > n(j) ELSE n(i) < n(j)
  IN  {f \in Bijection(DOMAIN p.points, DOMAIN p.points) :
        \A i, j \in DOMAIN p.points :
          i < j => Before(f[i], f[j]) \/ (n(f[i]) = n(f[j]) /\ f[i] < f[j])}
(* sort_points alone leaves exports_stale alone. *)
SortPoints(p, order) ==
  Returns([p EXCEPT !.points = [i \in DOMAIN p.points |-> p.points[order[i]]]])

SetGeometry(p, kind, pixel) == Require(InCrop(p, pixel), p, [p EXCEPT !.geometry = @ \cup {kind}])
DisableTriangle(p, t) == Returns(Stale([p EXCEPT !.disabled = @ \cup {t}]))

------------------------------------------------------------------------------
Counted == calls < MaxCalls /\ calls' = calls + 1

(* @undoable: the snapshot is pushed and the redo stack emptied before the
   method runs; if it raises, the snapshot is restored and taken off again. *)
NotRestored(r) == r.p  \* mutant: the exception leaves the record half changed
Restored(r) == IF r.ok THEN r.p ELSE project
Undoable(r) ==
  /\ Counted
  /\ Len(r.p.points) <= MaxPoints
  /\ project' = Restored(r)
  /\ undo' = IF r.ok THEN Append(undo, project) ELSE undo
  /\ redo' = <<>>

(* undo, redo: one stack gives the record, the other takes the current one. *)
Undo ==
  /\ undo # <<>>
  /\ project' = Last(undo)
  /\ undo' = Front(undo)
  /\ redo' = Append(redo, project)
  /\ Counted
Redo ==
  /\ redo # <<>>
  /\ project' = Last(redo)
  /\ redo' = Front(redo)
  /\ undo' = Append(undo, project)
  /\ Counted

Rows == [i \in DOMAIN project.points |-> project.points[i].id]

(* Samples of what the window sends: values of the form of the selected row
   (the classification keys and the move tool give one field), clicks, indexed
   candidates, and the labels of an extraction. *)
Edits == {[NoEdit EXCEPT !.z = "extreme", !.number = 2],
          [NoEdit EXCEPT !.z = "common", !.type = "DESIGN_GRADE", !.number = 1],
          [NoEdit EXCEPT !.type = "UNKNOWN_NUMERIC"],
          [NoEdit EXCEPT !.pixel = "outside"]}
Clicks == {<<"inside", "common", "EXISTING_GROUND">>, <<"outside", "extreme", "DESIGN_GRADE">>,
           <<"inside", "common", "UNKNOWN_NUMERIC">>}
Label(pixel, at, z, type, sure) == [pixel |-> pixel, at |-> at, z |-> z, type |-> type, sure |-> sure]
Extracted == {<<Label("inside", "inside", "extreme", "EXISTING_GROUND", FALSE)>>,
              <<Label("inside", "inside", "common", "DESIGN_GRADE", TRUE),
                Label("outside", "outside", "common", "UTILITY_RIM", FALSE)>>,
              <<Label("outside", "outside", "common", "EXISTING_GROUND", TRUE),
                Label("inside", "outside", "common", "EXISTING_GROUND", FALSE)>>}

Plan ==
  \/ \E c \in {"small", "beyond"} : Undoable(SetCrop(project, c))
  \/ \E r \in {"wide", "narrow", "reversed"} : Undoable(SetRange(project, r))
  \/ \E d \in BOOLEAN : Undoable(ApplyCalibration(project, d))
  \/ Undoable(VerifyScale(project, FALSE))
  \/ \E k \in Geometries : Undoable(SetGeometry(project, k, "inside"))
  \/ Undoable(SetGeometry(project, "boundary", "outside"))
  \/ Undoable(DisableTriangle(project, "T-0001"))
  \/ Undoable(AddElevationLine(project, "common", "inside"))
  \/ Undoable(AddElevationLine(project, "extreme", "outside"))
  \/ Undoable(ApproveElevationLine(project))

Cart ==
  \/ \E c \in Clicks : Undoable(AddManual(project, c[1], c[2], c[3]))
  \/ \E t \in Terrain : Undoable(CaptureAssisted(project, "common", t, TRUE))
  \/ Undoable(CaptureAssisted(project, "common", "DESIGN_GRADE", FALSE))
  \/ \E labels \in Extracted : Undoable(IngestTextCandidates(project, labels))
  \/ \E rows \in {Rows, Reverse(Rows)} : Undoable(BulkApprove(project, rows))
  \/ Undoable(BulkChangeDescription(project, Rows))
  \/ \E ids \in {Ids(project)} \cup {{id} : id \in Ids(project)} : Undoable(RenumberPoints(project, ids, 1))
  \/ \E b \in BOOLEAN : \E order \in Orders(project, b) : Undoable(SortPoints(project, order))

Review ==
  \E id \in Ids(project) :
    \/ \E e \in Edits : Undoable(EditPoint(project, id, e))
    \/ Undoable(UseAlternative(project, id))
    \/ Undoable(ApprovePoint(project, id))
    \/ Undoable(RejectPoint(project, id))
    \/ Undoable(MarkReviewRequired(project, id))
    \/ \E other \in Ids(project) \cup {0} : Undoable(MergeDuplicate(project, id, other))
    \/ Undoable(DeleteManualPoint(project, id))
    \/ Undoable(DeleteCartPoint(project, id))

Workflow == Plan \/ Cart \/ Review \/ Undo \/ Redo
==============================================================================
