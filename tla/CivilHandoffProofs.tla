--------------------------- MODULE CivilHandoffProofs --------------------------
(***************************************************************************)
(* Proofs about the civil project and its packages, for carts of any       *)
(* length and any number of calls and exports.  A record is sound when its *)
(* points are where its calibration puts them, its history lists published *)
(* packages, and its last package is what it would give again, unless it   *)
(* says that it is stale.  Every record that can come back is sound: the   *)
(* current one, those of the undo and redo stacks, the file, and the one a *)
(* failed export rolls back to.                                            *)
(***************************************************************************)
EXTENDS CivilHandoff, SequenceTheorems, WellFoundedInduction, TLAPS

Fields == {"crop", "range", "calibration", "check", "points", "line", "geometry",
           "disabled", "landxml", "history", "stale"}
PointFields == {"id", "number", "pixel", "grid", "z", "type", "status", "edited", "alternatives"}

IsSeq(s) == \E S : s \in Seq(S)

(* A point of the cart, whatever its status, is on the grid of the calibration. *)
Sited(p, q) ==
  /\ PointFields \subseteq DOMAIN q
  /\ q.grid = Local(p, q.pixel)
  /\ q.status \in Approved => q.type \in Terrain /\ p.calibration # 0

Form(p) ==
  /\ Fields \subseteq DOMAIN p
  /\ p.calibration \in Nat
  /\ p.stale \in BOOLEAN
  /\ IsSeq(p.points) /\ IsSeq(p.history)
  /\ \A i \in DOMAIN p.points : Sited(p, p.points[i])

(* What an action of the estimator keeps of a record. *)
Keeps(p, q) ==
  /\ Form(q)
  /\ q.history = p.history
  /\ q.stale = TRUE \/ (q.stale = p.stale /\ \A ids : Content(q, ids) = Content(p, ids))

------------------------------------------------------------------------------
(* Sequences of anything. *)
LEMMA SeqForm ==
  ASSUME NEW s, IsSeq(s)
  PROVE  Len(s) \in Nat /\ DOMAIN s = 1..Len(s)
BY DEF IsSeq

LEMMA SeqMade ==
  ASSUME NEW n \in Nat, NEW s, s = [i \in 1..n |-> s[i]]
  PROVE  IsSeq(s) /\ Len(s) = n /\ DOMAIN s = 1..n
<1> DEFINE S == {s[i] : i \in 1..n}
<1>1. s \in [1..n -> S]
  <2>1. \A i \in 1..n : s[i] \in S  OBVIOUS
  <2> HIDE DEF S
  <2> QED  BY <2>1
<1>2. s \in Seq(S)
  <2> HIDE DEF S
  <2> QED  BY <1>1, SeqDef
<1> HIDE DEF S
<1> QED  BY <1>1, <1>2 DEF IsSeq

LEMMA AppendForm ==
  ASSUME NEW s, IsSeq(s), NEW e
  PROVE  /\ IsSeq(Append(s, e)) /\ Len(Append(s, e)) = Len(s) + 1
         /\ \A i \in 1..Len(s) : Append(s, e)[i] = s[i]
         /\ Append(s, e)[Len(s) + 1] = e
<1>1. PICK S : s \in Seq(S)  BY DEF IsSeq
<1> DEFINE T == S \cup {e}
<1>2. s \in Seq(T) /\ e \in T  BY <1>1, SeqMonotonic
<1> HIDE DEF T
<1>3. Append(s, e) \in Seq(T) /\ Len(Append(s, e)) = Len(s) + 1  BY <1>2
<1>4. /\ \A i \in 1..Len(s) : Append(s, e)[i] = s[i]
      /\ Append(s, e)[Len(s) + 1] = e
  BY <1>2
<1> QED  BY <1>3, <1>4 DEF IsSeq

LEMMA FrontForm ==
  ASSUME NEW s, IsSeq(s), s # <<>>
  PROVE  /\ IsSeq(Front(s)) /\ Len(Front(s)) = Len(s) - 1 /\ Len(s) \in 1..Len(s)
         /\ \A i \in 1..Len(Front(s)) : Front(s)[i] = s[i]
         /\ Last(s) = s[Len(s)]
<1>1. PICK S : s \in Seq(S)  BY DEF IsSeq
<1>2. Len(s) \in Nat /\ Len(s) # 0  BY <1>1, EmptySeq
<1> DEFINE n == Len(s) - 1
           f == SubSeq(s, 1, n)
<1>3. n \in Nat /\ \A i \in 1..n : s[i] \in S  BY <1>1, <1>2
<1>4. f \in Seq(S) /\ Len(f) = n /\ \A i \in 1..n : f[i] = s[i]
  <2> HIDE DEF n
  <2>1. /\ f \in Seq(S)
        /\ Len(f) = IF 1 <= n THEN n - 1 + 1 ELSE 0
        /\ \A i \in 1 .. n - 1 + 1 : f[i] = s[1 + i - 1]
    BY <1>3, SubSeqProperties
  <2> HIDE DEF f
  <2> QED  BY <1>3, <2>1
<1>5. Front(s) = f /\ Last(s) = s[Len(s)] /\ Len(s) \in 1..Len(s)  BY <1>2 DEF Front, Last
<1> HIDE DEF f
<1> QED  BY <1>4, <1>5 DEF IsSeq

LEMMA EmptyForm == IsSeq(<<>>) /\ Len(<<>>) = 0 /\ DOMAIN <<>> = {}
<1>1. <<>> \in Seq({})  OBVIOUS
<1> QED  BY <1>1 DEF IsSeq

LEMMA RemovedForm ==
  ASSUME NEW s, IsSeq(s), NEW i \in DOMAIN s
  PROVE  /\ IsSeq(RemoveAt(s, i)) /\ Len(RemoveAt(s, i)) = Len(s) - 1
         /\ \A j \in DOMAIN RemoveAt(s, i) : \E k \in DOMAIN s : RemoveAt(s, i)[j] = s[k]
<1>1. PICK S : s \in Seq(S)  BY DEF IsSeq
<1>2. Len(s) \in Nat /\ i \in 1..Len(s)  BY <1>1
<1> DEFINE a == SubSeq(s, 1, i - 1)
           b == SubSeq(s, i + 1, Len(s))
<1>3. a \in Seq(S) /\ Len(a) = i - 1 /\ \A j \in 1..(i - 1) : a[j] = s[j]  BY <1>1, <1>2
<1>4. b \in Seq(S) /\ Len(b) = Len(s) - i /\ \A j \in 1..(Len(s) - i) : b[j] = s[i + j]
  BY <1>1, <1>2
<1> HIDE DEF a, b
<1>5. a \o b \in Seq(S) /\ Len(a \o b) = Len(s) - 1  BY <1>2, <1>3, <1>4
<1>6. \A j \in 1..(Len(s) - 1) : (a \o b)[j] = IF j <= i - 1 THEN a[j] ELSE b[j - (i - 1)]
  BY <1>2, <1>3, <1>4
<1>7. ASSUME NEW j \in 1..(Len(s) - 1) PROVE \E k \in DOMAIN s : (a \o b)[j] = s[k]
  <2>1. CASE j <= i - 1  BY <1>1, <1>2, <1>3, <1>6, <2>1
  <2>2. CASE j > i - 1
    <3> DEFINE m == j - (i - 1)
    <3>1. m \in 1..(Len(s) - i) /\ i + m = j + 1 /\ j + 1 \in DOMAIN s  BY <1>1, <1>2, <2>2
    <3>2. (a \o b)[j] = b[m]
      <4>1. ~ (j <= i - 1)  BY <1>2, <2>2
      <4> QED  BY <1>6, <4>1, Zenon
    <3>3. b[m] = s[i + m]
      <4> HIDE DEF m
      <4> QED  BY <1>4, <3>1
    <3> QED  BY <3>1, <3>2, <3>3
  <2>3. j <= i - 1 \/ j > i - 1  BY <1>2
  <2> QED  BY <2>1, <2>2, <2>3
<1>8. DOMAIN (a \o b) = 1..(Len(s) - 1)  BY <1>5
<1>9. IsSeq(a \o b)  BY <1>5 DEF IsSeq
<1>10. RemoveAt(s, i) = a \o b  BY DEF RemoveAt, a, b
<1> QED  BY <1>5, <1>7, <1>8, <1>9, <1>10

------------------------------------------------------------------------------
(* Records. *)
LEMMA StaleForm ==
  ASSUME NEW p, Form(p)
  PROVE  Form(Stale(p)) /\ Stale(p).history = p.history /\ Stale(p).stale = TRUE
<1> DEFINE q == Stale(p)
<1>1. /\ DOMAIN q = DOMAIN p /\ q.stale = TRUE
      /\ q.calibration = p.calibration /\ q.points = p.points /\ q.history = p.history
  BY DEF Stale, Form, Fields
<1> HIDE DEF q
<1>2. Form(q)  BY <1>1 DEF Form, Sited, Local
<1> QED  BY <1>1, <1>2 DEF q

LEMMA PointsForm ==
  ASSUME NEW p, Form(p), NEW s, IsSeq(s), \A i \in DOMAIN s : Sited(p, s[i])
  PROVE  LET q == [p EXCEPT !.points = s] IN
         Form(q) /\ q.history = p.history /\ q.points = s /\ q.calibration = p.calibration
<1> DEFINE q == [p EXCEPT !.points = s]
<1>1. /\ DOMAIN q = DOMAIN p /\ q.stale = p.stale
      /\ q.calibration = p.calibration /\ q.points = s /\ q.history = p.history
  BY DEF Form, Fields
<1> HIDE DEF q
<1>2. Form(q)  BY <1>1 DEF Form, Sited, Local
<1> QED  BY <1>1, <1>2 DEF q

(* An operation returns a stale record, or raises. *)
LEMMA RequireKeeps ==
  ASSUME NEW c, NEW p, NEW q, Form(p), c => Form(q) /\ q.history = p.history, Require(c, p, q).ok
  PROVE  Keeps(p, Require(c, p, q).p)
<1>1. c /\ Require(c, p, q).p = Stale(q)  BY DEF Require, Returns, Raises
<1> QED  BY <1>1, StaleForm DEF Keeps

LEMMA SameKeeps ==
  ASSUME NEW p, Form(p)
  PROVE  Keeps(p, p)
BY DEF Keeps

LEMMA KeepsKeeps ==
  ASSUME NEW p, NEW q, NEW r, Keeps(p, q), Keeps(q, r)
  PROVE  Keeps(p, r)
BY DEF Keeps

------------------------------------------------------------------------------
(* Points. *)
LEMMA SitedPlace ==
  ASSUME NEW p, NEW q, Sited(p, q)
  PROVE  /\ \A r : p.calibration = r.calibration => Sited(r, q)
         /\ \A v : /\ Sited(p, [q EXCEPT !.number = v])
                   /\ Sited(p, [q EXCEPT !.z = v])
                   /\ Sited(p, [q EXCEPT !.edited = v])
                   /\ Sited(p, [q EXCEPT !.alternatives = v])
         /\ \A v \in {"REJECTED", "REVIEW_REQUIRED"} : Sited(p, [q EXCEPT !.status = v])
<1>1. \A r : p.calibration = r.calibration => Sited(r, q)  BY DEF Sited, Local
<1>2. \A v : Sited(p, [q EXCEPT !.number = v])  BY DEF Sited, PointFields
<1>3. \A v : Sited(p, [q EXCEPT !.z = v])  BY DEF Sited, PointFields
<1>4. \A v : Sited(p, [q EXCEPT !.edited = v])  BY DEF Sited, PointFields
<1>5. \A v : Sited(p, [q EXCEPT !.alternatives = v])  BY DEF Sited, PointFields
<1>6. \A v \in {"REJECTED", "REVIEW_REQUIRED"} : Sited(p, [q EXCEPT !.status = v])
  BY DEF Sited, PointFields, Approved
<1> QED  BY <1>1, <1>2, <1>3, <1>4, <1>5, <1>6

LEMMA RowForm ==
  ASSUME NEW p, Form(p), NEW id \in Ids(p)
  PROVE  Row(p, id) \in DOMAIN p.points /\ Sited(p, Point(p, id))
BY DEF Ids, Row, Point, Form

(* A row of the cart is replaced. *)
LEMMA WithPointForm ==
  ASSUME NEW p, Form(p), NEW id \in Ids(p), NEW q, Sited(p, q)
  PROVE  LET w == WithPoint(p, id, q) IN
         /\ Form(w) /\ w.history = p.history
         /\ w.calibration = p.calibration /\ w.points = [p.points EXCEPT ![Row(p, id)] = q]
<1> DEFINE i == Row(p, id)
           s == [p.points EXCEPT ![i] = q]
<1>1. i \in DOMAIN p.points /\ DOMAIN p.points = 1..Len(p.points) /\ Len(p.points) \in Nat
  BY RowForm, SeqForm DEF Form
<1> HIDE DEF i
<1>2. s = [j \in 1..Len(p.points) |-> s[j]]  BY <1>1
<1>3. IsSeq(s) /\ DOMAIN s = DOMAIN p.points
  <2> HIDE DEF s
  <2> QED  BY <1>1, <1>2, SeqMade
<1>4. \A j \in DOMAIN s : Sited(p, s[j])  BY <1>1, <1>3 DEF Form
<1>5. WithPoint(p, id, q) = [p EXCEPT !.points = s]  BY DEF WithPoint, i
<1> HIDE DEF s
<1>6. LET w == [p EXCEPT !.points = s] IN
      Form(w) /\ w.history = p.history /\ w.points = s /\ w.calibration = p.calibration
  BY <1>3, <1>4, PointsForm
<1> QED  BY <1>5, <1>6 DEF s, i

(* A row is added. *)
LEMMA AddPointForm ==
  ASSUME NEW p, Form(p), NEW q, Sited(p, q)
  PROVE  Form(AddPoint(p, q)) /\ AddPoint(p, q).history = p.history
<1> DEFINE s == Append(p.points, q)
<1>1. /\ IsSeq(s) /\ Len(s) = Len(p.points) + 1 /\ Len(p.points) \in Nat
      /\ \A i \in 1..Len(p.points) : s[i] = p.points[i]
      /\ s[Len(p.points) + 1] = q
      /\ DOMAIN p.points = 1..Len(p.points)
  BY AppendForm, SeqForm DEF Form
<1> HIDE DEF s
<1>2. DOMAIN s = 1..(Len(p.points) + 1)  BY <1>1, SeqForm
<1>3. \A i \in DOMAIN s : i \in 1..Len(p.points) \/ i = Len(p.points) + 1  BY <1>1, <1>2
<1>4. \A i \in DOMAIN s : Sited(p, s[i])  BY <1>1, <1>3 DEF Form
<1>5. AddPoint(p, q) = [p EXCEPT !.points = s]  BY DEF AddPoint, s
<1> QED  BY <1>1, <1>4, <1>5, PointsForm

(* A new row is where it belongs, and not approved. *)
LEMMA NewPointSited ==
  ASSUME NEW p, NEW pixel, NEW z, NEW type, NEW method, NEW status, status \notin Approved
  PROVE  LET q == NewPoint(p, pixel, z, type, method, status) IN
         /\ Sited(p, q) /\ q.status = status
         /\ Sited(p, [q EXCEPT !.alternatives = 1]) /\ [q EXCEPT !.alternatives = 1].status = status
         /\ \A m : Sited(p, [q EXCEPT !.mode = m, !.alternatives = 1])
<1> DEFINE q == NewPoint(p, pixel, z, type, method, status)
<1>1. Sited(p, q) /\ q.status = status  BY DEF NewPoint, Sited, PointFields
<1>2. \A m : Sited(p, [q EXCEPT !.mode = m])
  <2>1. \A m : /\ DOMAIN [q EXCEPT !.mode = m] = DOMAIN q
               /\ \A f \in PointFields : [q EXCEPT !.mode = m][f] = q[f]
    <3> HIDE DEF q
    <3> QED  BY <1>1 DEF Sited, PointFields
  <2> QED  BY <1>1, <2>1 DEF Sited, PointFields
<1>3. Sited(p, [q EXCEPT !.alternatives = 1])  BY <1>1, SitedPlace
<1>4. [q EXCEPT !.alternatives = 1].status = status
  <2> HIDE DEF q
  <2> QED  BY <1>1 DEF Sited, PointFields
<1>5. ASSUME NEW m PROVE Sited(p, [q EXCEPT !.mode = m, !.alternatives = 1])
  <2>1. [q EXCEPT !.mode = m, !.alternatives = 1] = [[q EXCEPT !.mode = m] EXCEPT !.alternatives = 1]
    OBVIOUS
  <2> QED  BY <1>2, <2>1, SitedPlace
<1> QED  BY <1>1, <1>3, <1>4, <1>5

------------------------------------------------------------------------------
(* The actions of the estimator, one by one.  First those on the plan. *)
LEMMA FieldForm ==
  ASSUME NEW p, Form(p), NEW v
  PROVE  /\ Form([p EXCEPT !.crop = v]) /\ [p EXCEPT !.crop = v].history = p.history
         /\ Form([p EXCEPT !.range = v]) /\ [p EXCEPT !.range = v].history = p.history
         /\ Form([p EXCEPT !.check = v]) /\ [p EXCEPT !.check = v].history = p.history
         /\ Form([p EXCEPT !.line = v]) /\ [p EXCEPT !.line = v].history = p.history
         /\ Form([p EXCEPT !.geometry = v]) /\ [p EXCEPT !.geometry = v].history = p.history
         /\ Form([p EXCEPT !.disabled = v]) /\ [p EXCEPT !.disabled = v].history = p.history
         /\ Form([p EXCEPT !.landxml = v]) /\ [p EXCEPT !.landxml = v].history = p.history
<1> DEFINE Same(q) == /\ DOMAIN q = DOMAIN p /\ q.stale = p.stale
                      /\ q.calibration = p.calibration /\ q.points = p.points /\ q.history = p.history
<1>1. /\ Same([p EXCEPT !.crop = v])
      /\ Same([p EXCEPT !.range = v])
      /\ Same([p EXCEPT !.check = v])
      /\ Same([p EXCEPT !.line = v])
      /\ Same([p EXCEPT !.geometry = v])
      /\ Same([p EXCEPT !.disabled = v])
      /\ Same([p EXCEPT !.landxml = v])
  BY DEF Form, Fields
<1>2. ASSUME NEW q, Same(q) PROVE Form(q) /\ q.history = p.history
  BY <1>2 DEF Form, Sited, Local
<1> HIDE DEF Same
<1> QED  BY <1>1, <1>2, Zenon

LEMMA PlanKeeps ==
  ASSUME NEW p, Form(p), NEW x, NEW y
  PROVE  /\ SetCrop(p, x).ok => Keeps(p, SetCrop(p, x).p)
         /\ SetRange(p, x).ok => Keeps(p, SetRange(p, x).p)
         /\ VerifyScale(p, x).ok => Keeps(p, VerifyScale(p, x).p)
         /\ SetGeometry(p, x, y).ok => Keeps(p, SetGeometry(p, x, y).p)
         /\ DisableTriangle(p, x).ok => Keeps(p, DisableTriangle(p, x).p)
         /\ AddElevationLine(p, x, y).ok => Keeps(p, AddElevationLine(p, x, y).p)
         /\ ApproveElevationLine(p).ok => Keeps(p, ApproveElevationLine(p).p)
<1>1. SetCrop(p, x).ok => Keeps(p, SetCrop(p, x).p)
  <2> DEFINE q == [p EXCEPT !.crop = x]
  <2>1. Form(q) /\ q.history = p.history  BY FieldForm
  <2> HIDE DEF q
  <2>2. Require(x = "small", p, q).ok => Keeps(p, Require(x = "small", p, q).p)
    BY <2>1, RequireKeeps
  <2> QED  BY <2>2 DEF SetCrop, q
<1>2. SetRange(p, x).ok => Keeps(p, SetRange(p, x).p)
  BY FieldForm, RequireKeeps DEF SetRange
<1>3. VerifyScale(p, x).ok => Keeps(p, VerifyScale(p, x).p)
  BY FieldForm, RequireKeeps DEF VerifyScale
<1>4. SetGeometry(p, x, y).ok => Keeps(p, SetGeometry(p, x, y).p)
  BY FieldForm, RequireKeeps DEF SetGeometry
<1>5. DisableTriangle(p, x).ok => Keeps(p, DisableTriangle(p, x).p)
  <2> DEFINE q == [p EXCEPT !.disabled = p.disabled \cup {x}]
  <2>1. Form(q) /\ q.history = p.history  BY FieldForm
  <2>2. DisableTriangle(p, x).p = Stale(q)  BY DEF DisableTriangle, Returns
  <2> HIDE DEF q
  <2> QED  BY <2>1, <2>2, StaleForm DEF Keeps
<1>6. AddElevationLine(p, x, y).ok => Keeps(p, AddElevationLine(p, x, y).p)
  BY FieldForm, RequireKeeps DEF AddElevationLine
<1>7. ApproveElevationLine(p).ok => Keeps(p, ApproveElevationLine(p).p)
  BY FieldForm, RequireKeeps DEF ApproveElevationLine
<1> QED  BY <1>1, <1>2, <1>3, <1>4, <1>5, <1>6, <1>7

(* A calibration moves every point to its place on the new grid. *)
LEMMA CalibrationKeeps ==
  ASSUME NEW p, Form(p), NEW d, ApplyCalibration(p, d).ok
  PROVE  Keeps(p, ApplyCalibration(p, d).p)
<1> DEFINE q == [p EXCEPT !.calibration = @ + 1, !.check = "none"]
           s == [i \in DOMAIN p.points |-> [p.points[i] EXCEPT !.grid = Local(q, p.points[i].pixel)]]
           w == [q EXCEPT !.points = s]
<1>1. /\ DOMAIN q = DOMAIN p /\ q.calibration = p.calibration + 1 /\ q.history = p.history
      /\ q.stale = p.stale
  <2> DEFINE o == [p EXCEPT !.calibration = @ + 1]
  <2>1. /\ DOMAIN o = DOMAIN p /\ o.calibration = p.calibration + 1 /\ o.history = p.history
        /\ o.stale = p.stale
    BY DEF Form, Fields
  <2>2. q = [o EXCEPT !.check = "none"]  OBVIOUS
  <2> HIDE DEF o
  <2> QED  BY <2>1, <2>2 DEF Form, Fields
<1> HIDE DEF q
<1>2. Len(p.points) \in Nat /\ DOMAIN p.points = 1..Len(p.points)  BY SeqForm DEF Form
<1>3. IsSeq(s) /\ DOMAIN s = 1..Len(p.points)
  <2>1. s = [i \in 1..Len(p.points) |-> s[i]]  BY <1>2
  <2> HIDE DEF s
  <2> QED  BY <1>2, <2>1, SeqMade
<1>4. \A i \in DOMAIN s : Sited(q, s[i])
  <2> SUFFICES ASSUME NEW i \in DOMAIN p.points PROVE Sited(q, s[i])  BY <1>2, <1>3
  <2> DEFINE o == p.points[i]
             g == Local(q, o.pixel)
  <2>1. PointFields \subseteq DOMAIN o /\ (o.status \in Approved => o.type \in Terrain)
    BY DEF Form, Sited
  <2>2. s[i] = [o EXCEPT !.grid = g]  OBVIOUS
  <2> HIDE DEF s, o
  <2>3. /\ DOMAIN s[i] = DOMAIN o /\ s[i].grid = g /\ s[i].pixel = o.pixel
        /\ s[i].status = o.status /\ s[i].type = o.type
    BY <2>1, <2>2 DEF PointFields
  <2>4. q.calibration # 0  BY <1>1 DEF Form
  <2> QED  BY <2>1, <2>3, <2>4 DEF Sited
<1> HIDE DEF s
<1>5. /\ DOMAIN w = DOMAIN p /\ w.calibration = p.calibration + 1 /\ w.history = p.history
      /\ w.stale = p.stale /\ w.points = s
  BY <1>1 DEF Form, Fields
<1> HIDE DEF w
<1>6. \A i \in DOMAIN s : Sited(w, s[i])  BY <1>1, <1>4, <1>5, SitedPlace
<1>7. Form(w)  BY <1>3, <1>5, <1>6 DEF Form
<1>8. ApplyCalibration(p, d) = Require(d, p, w)  BY DEF ApplyCalibration, w, s, q
<1> QED  BY <1>5, <1>7, <1>8, RequireKeeps

------------------------------------------------------------------------------
(* New rows of the cart. *)
LEMMA AddKeeps ==
  ASSUME NEW p, Form(p), NEW x, NEW y, NEW z
  PROVE  /\ AddManual(p, x, y, z).ok => Keeps(p, AddManual(p, x, y, z).p)
         /\ CaptureAssisted(p, x, y, z).ok => Keeps(p, CaptureAssisted(p, x, y, z).p)
<1>1. ASSUME AddManual(p, x, y, z).ok PROVE Keeps(p, AddManual(p, x, y, z).p)
  <2> DEFINE q == NewPoint(p, x, y, z, "MANUAL", "UNREVIEWED")
  <2>1. Sited(p, q)  BY NewPointSited DEF Approved
  <2>2. Form(AddPoint(p, q)) /\ AddPoint(p, q).history = p.history  BY <2>1, AddPointForm
  <2> QED  BY <1>1, <2>2, RequireKeeps DEF AddManual
<1>2. ASSUME CaptureAssisted(p, x, y, z).ok PROVE Keeps(p, CaptureAssisted(p, x, y, z).p)
  <2> DEFINE q == [NewPoint(p, "inside", x, y, "PDF_TEXT", "UNREVIEWED")
                     EXCEPT !.mode = y, !.alternatives = 1]
  <2>1. Sited(p, q)  BY NewPointSited DEF Approved
  <2>2. Form(AddPoint(p, q)) /\ AddPoint(p, q).history = p.history
    <3> HIDE DEF q
    <3> QED  BY <2>1, AddPointForm
  <2> QED  BY <1>2, <2>2, RequireKeeps DEF CaptureAssisted
<1> QED  BY <1>1, <1>2

LEMMA EnterKeeps ==
  ASSUME NEW p, Form(p), NEW l, EnterLabel(p, l).ok
  PROVE  Keeps(p, EnterLabel(p, l).p)
<1>1. CASE EnterLabel(p, l) = Returns(p)  BY <1>1, SameKeeps DEF Returns
<1>2. CASE EnterLabel(p, l) # Returns(p)
  <2> DEFINE type   == IF Plausible(p, l.z) THEN l.type ELSE "UNKNOWN_NUMERIC"
             status == IF l.sure /\ type \in Terrain THEN "AUTO_HIGH_CONFIDENCE" ELSE "REVIEW_REQUIRED"
             q == [NewPoint(p, l.at, l.z, type, "PDF_TEXT", status) EXCEPT !.alternatives = 1]
             o == [q EXCEPT !.grid = Local(p, q.pixel)]
  <2>1. status \notin Approved  BY DEF Approved
  <2>2. Sited(p, q)
    <3> HIDE DEF type, status
    <3> QED  BY <2>1, NewPointSited
  <2>3. EnterLabel(p, l) = AddCandidate(p, q)  BY <1>2, Zenon DEF EnterLabel
  <2> HIDE DEF q
  <2>4. Sited(p, o)  BY <2>2 DEF Sited, PointFields
  <2> HIDE DEF o
  <2>5. Form(AddPoint(p, o)) /\ AddPoint(p, o).history = p.history  BY <2>4, AddPointForm
  <2> QED  BY <2>3, <2>5, RequireKeeps DEF AddCandidate, o
<1> QED  BY <1>1, <1>2

------------------------------------------------------------------------------
(* Changes of one row.  The rows stay the same rows. *)
LEMMA RowReplaced ==
  ASSUME NEW p, Form(p), NEW id \in Ids(p), NEW q, Sited(p, q), q.id = id
  PROVE  LET w == Stale(WithPoint(p, id, q)) IN Keeps(p, w) /\ w.stale = TRUE /\ Ids(w) = Ids(p)
<1> DEFINE v == WithPoint(p, id, q)
           w == Stale(v)
           i == Row(p, id)
<1>1. Form(v) /\ v.history = p.history /\ v.points = [p.points EXCEPT ![i] = q]
  BY WithPointForm
<1>2. i \in DOMAIN p.points /\ p.points[i].id = id  BY DEF Ids, Row
<1> HIDE DEF i, v
<1>3. DOMAIN v.points = DOMAIN p.points /\ \A j \in DOMAIN p.points : v.points[j].id = p.points[j].id
  BY <1>1, <1>2
<1>4. Ids(v) = Ids(p)  BY <1>3 DEF Ids
<1>5. w.points = v.points  BY <1>1 DEF Stale, Form, Fields
<1>6. Form(w) /\ w.history = v.history /\ w.stale = TRUE  BY <1>1, StaleForm
<1> HIDE DEF w
<1>7. Keeps(p, w)  BY <1>1, <1>6 DEF Keeps
<1>8. Ids(w) = Ids(p)  BY <1>4, <1>5 DEF Ids
<1> QED  BY <1>6, <1>7, <1>8 DEF w, v

LEMMA PointForm ==
  ASSUME NEW p, Form(p), NEW id \in Ids(p)
  PROVE  Sited(p, Point(p, id)) /\ Point(p, id).id = id
<1>1. Point(p, id).id = id  BY DEF Ids, Row, Point
<1> QED  BY <1>1, RowForm

LEMMA ApproveKeeps ==
  ASSUME NEW p, Form(p), NEW id \in Ids(p), ApprovePoint(p, id).ok
  PROVE  LET w == ApprovePoint(p, id).p IN Keeps(p, w) /\ w.stale = TRUE /\ Ids(w) = Ids(p)
<1> DEFINE q == Point(p, id)
           c == p.calibration # 0 /\ q.type \in Terrain /\ Plausible(p, q.z) /\ q.grid # NoGrid
           o == [q EXCEPT !.status = IF q.edited THEN "EDITED_AND_APPROVED" ELSE "APPROVED"]
<1>1. Sited(p, q) /\ q.id = id  BY PointForm
<1>2. ApprovePoint(p, id) = Require(c, p, WithPoint(p, id, o))  BY DEF ApprovePoint
<1>3. c /\ ApprovePoint(p, id).p = Stale(WithPoint(p, id, o))
  <2> HIDE DEF c, o
  <2> QED  BY <1>2 DEF Require, Returns, Raises
<1>4. Sited(p, o) /\ o.id = id
  <2> HIDE DEF q
  <2> QED  BY <1>1, <1>3 DEF Sited, PointFields
<1> HIDE DEF o
<1> QED  BY <1>3, <1>4, RowReplaced

(* Sent back to review, or rejected. *)
LEMMA StatusKeeps ==
  ASSUME NEW p, Form(p), NEW id \in Ids(p)
  PROVE  /\ Keeps(p, RejectPoint(p, id).p)
         /\ Keeps(p, MarkReviewRequired(p, id).p)
<1> DEFINE q == Point(p, id)
<1>1. Sited(p, q) /\ q.id = id  BY PointForm
<1>2. ASSUME NEW v \in {"REJECTED", "REVIEW_REQUIRED"}
      PROVE  Keeps(p, Stale(WithPoint(p, id, [q EXCEPT !.status = v])))
  <2> DEFINE o == [q EXCEPT !.status = v]
  <2>1. Sited(p, o)  BY <1>1, SitedPlace
  <2>2. o.id = id
    <3> HIDE DEF q
    <3> QED  BY <1>1 DEF Sited, PointFields
  <2> HIDE DEF o
  <2>3. Keeps(p, Stale(WithPoint(p, id, o)))  BY <2>1, <2>2, RowReplaced
  <2> QED  BY <2>3 DEF o
<1>3. /\ RejectPoint(p, id).p = Stale(WithPoint(p, id, [q EXCEPT !.status = "REJECTED"]))
      /\ MarkReviewRequired(p, id).p = Stale(WithPoint(p, id, [q EXCEPT !.status = "REVIEW_REQUIRED"]))
  BY DEF RejectPoint, MarkReviewRequired, Returns
<1> QED  BY <1>2, <1>3

LEMMA MergeKeeps ==
  ASSUME NEW p, Form(p), NEW id, NEW other, MergeDuplicate(p, id, other).ok
  PROVE  Keeps(p, MergeDuplicate(p, id, other).p)
<1>1. other \in Ids(p) /\ MergeDuplicate(p, id, other) = RejectPoint(p, other)
  BY DEF MergeDuplicate, Raises
<1> QED  BY <1>1, StatusKeeps

(* Whatever is given, an edited row goes back to review, at a place of the grid. *)
LEMMA EditKeeps ==
  ASSUME NEW p, Form(p), NEW id \in Ids(p), NEW e, EditPoint(p, id, e).ok
  PROVE  LET w == EditPoint(p, id, e).p IN Keeps(p, w) /\ w.stale = TRUE /\ Ids(w) = Ids(p)
<1> DEFINE Placed(q) == PointFields \subseteq DOMAIN q /\ q.grid = Local(p, q.pixel) /\ q.id = id
           q0 == Point(p, id)
           q1 == [q0 EXCEPT !.z = Given(e.z, @)]
           q2 == [q1 EXCEPT !.type = Given(e.type, @)]
           q3 == IF e.pixel = Keep THEN q2
                 ELSE [q2 EXCEPT !.pixel = e.pixel, !.grid = IF p.calibration = 0 THEN @ ELSE Local(p, e.pixel)]
           q4 == [q3 EXCEPT !.number = IF e.number = 0 THEN @ ELSE e.number]
           q5 == [q4 EXCEPT !.status = "REVIEW_REQUIRED", !.edited = TRUE]
<1>1. EditPoint(p, id, e).p = Stale(WithPoint(p, id, q5))
  <2> HIDE DEF q5, q3, q2
  <2>1. \/ EditPoint(p, id, e).ok = FALSE
        \/ EditPoint(p, id, e) = Returns(Stale(WithPoint(p, id, q5)))
    BY Zenon DEF EditPoint, Raises, q5, q3, q2
  <2> QED  BY <2>1 DEF Returns
<1>2. Placed(q0)  BY PointForm DEF Sited
<1>3. ASSUME NEW q, Placed(q), NEW v
      PROVE  Placed([q EXCEPT !.z = v]) /\ Placed([q EXCEPT !.type = v]) /\ Placed([q EXCEPT !.number = v])
  BY <1>3 DEF PointFields
<1>4. ASSUME NEW q, Placed(q), NEW v
      PROVE  Placed([q EXCEPT !.pixel = v, !.grid = IF p.calibration = 0 THEN @ ELSE Local(p, v)])
  <2> DEFINE a == [q EXCEPT !.pixel = v]
             g == IF p.calibration = 0 THEN q.grid ELSE Local(p, v)
             b == [a EXCEPT !.grid = g]
  <2>1. g = Local(p, v)  BY <1>4 DEF Local
  <2>2. a.pixel = v /\ DOMAIN a = DOMAIN q /\ a.id = id  BY <1>4 DEF PointFields
  <2>3. b = [q EXCEPT !.pixel = v, !.grid = IF p.calibration = 0 THEN @ ELSE Local(p, v)]
    OBVIOUS
  <2> HIDE DEF a, g
  <2>4. b.pixel = v /\ DOMAIN b = DOMAIN q /\ b.id = id /\ b.grid = g
    BY <2>2, <1>4 DEF PointFields
  <2> HIDE DEF b
  <2> QED  BY <1>4, <2>1, <2>3, <2>4
<1>5. ASSUME NEW q, Placed(q)
      PROVE  LET o == [q EXCEPT !.status = "REVIEW_REQUIRED", !.edited = TRUE] IN Sited(p, o) /\ o.id = id
  <2> DEFINE a == [q EXCEPT !.status = "REVIEW_REQUIRED"]
             o == [a EXCEPT !.edited = TRUE]
  <2>1. Placed(a) /\ a.status = "REVIEW_REQUIRED"  BY <1>5 DEF PointFields
  <2> HIDE DEF a
  <2>2. Placed(o) /\ o.status = "REVIEW_REQUIRED"  BY <2>1 DEF PointFields
  <2>3. o = [q EXCEPT !.status = "REVIEW_REQUIRED", !.edited = TRUE]  BY DEF a
  <2> HIDE DEF o
  <2>4. Sited(p, o) /\ o.id = id  BY <2>2 DEF Sited, Approved
  <2> QED  BY <2>3, <2>4
<1>6. Sited(p, q5) /\ q5.id = id
  <2> HIDE DEF Placed
  <2>1. Placed(q1)  BY <1>2, <1>3
  <2>2. Placed(q2)
    <3> HIDE DEF q1
    <3> QED  BY <2>1, <1>3
  <2>3. Placed(q3)
    <3> HIDE DEF q2
    <3> QED  BY <2>2, <1>4
  <2>4. Placed(q4)
    <3> HIDE DEF q3
    <3> QED  BY <2>3, <1>3
  <2> HIDE DEF q4
  <2> QED  BY <2>4, <1>5
<1> HIDE DEF q5
<1> QED  BY <1>1, <1>6, RowReplaced

LEMMA AlternativeKeeps ==
  ASSUME NEW p, Form(p), NEW id \in Ids(p), UseAlternative(p, id).ok
  PROVE  Keeps(p, UseAlternative(p, id).p)
<1> DEFINE q == Point(p, id)
           o == [q EXCEPT !.alternatives = @ - 1]
           v == WithPoint(p, id, o)
           e == [NoEdit EXCEPT !.pixel = CHOOSE x \in Pixels : x # q.pixel]
<1>1. UseAlternative(p, id) = EditPoint(v, id, e)
  <2> HIDE DEF v, e
  <2> QED  BY Zenon DEF UseAlternative, Raises, v, e
<1>2. Sited(p, q) /\ q.id = id  BY PointForm
<1> HIDE DEF q
<1>3. Sited(p, o) /\ o.id = id
  <2>1. Sited(p, o)  BY <1>2, SitedPlace
  <2> QED  BY <1>2, <2>1 DEF Sited, PointFields
<1> HIDE DEF o
<1> HIDE DEF e
<1>4. Form(v) /\ v.history = p.history
  <2>1. Sited(p, o)  BY <1>3
  <2> QED  BY <2>1, WithPointForm
<1>5. id \in Ids(v)
  <2>1. Row(p, id) \in DOMAIN p.points  BY RowForm
  <2>2. v.points = [p.points EXCEPT ![Row(p, id)] = o]  BY <1>3, WithPointForm
  <2> QED  BY <1>3, <2>1, <2>2 DEF Ids
<1> HIDE DEF v, e
<1>6. Keeps(v, EditPoint(v, id, e).p) /\ EditPoint(v, id, e).p.stale = TRUE
  BY <1>1, <1>4, <1>5, EditKeeps
<1> QED  BY <1>1, <1>4, <1>6 DEF Keeps

------------------------------------------------------------------------------
(* The whole cart. *)
LEMMA WithoutKeeps ==
  ASSUME NEW p, Form(p), NEW id \in Ids(p)
  PROVE  /\ DeleteManualPoint(p, id).ok => Keeps(p, DeleteManualPoint(p, id).p)
         /\ Keeps(p, DeleteCartPoint(p, id).p)
<1> DEFINE s == RemoveAt(p.points, Row(p, id))
           v == [p EXCEPT !.points = s]
<1>1. Row(p, id) \in DOMAIN p.points  BY RowForm
<1>2. IsSeq(s) /\ \A j \in DOMAIN s : \E k \in DOMAIN p.points : s[j] = p.points[k]
  BY <1>1, RemovedForm DEF Form
<1>3. Without(p, id) = v  BY DEF Without
<1> HIDE DEF s
<1>4. \A j \in DOMAIN s : Sited(p, s[j])  BY <1>2 DEF Form
<1>5. Form(v) /\ v.history = p.history  BY <1>2, <1>4, PointsForm
<1> HIDE DEF v
<1>6. DeleteManualPoint(p, id).ok => Keeps(p, DeleteManualPoint(p, id).p)
  BY <1>3, <1>5, RequireKeeps DEF DeleteManualPoint
<1>7. Keeps(p, DeleteCartPoint(p, id).p)
  BY <1>3, <1>5, StaleForm DEF DeleteCartPoint, Returns, Keeps
<1> QED  BY <1>6, <1>7

LEMMA RenumberKeeps ==
  ASSUME NEW p, Form(p), NEW ids, NEW start, RenumberPoints(p, ids, start).ok
  PROVE  Keeps(p, RenumberPoints(p, ids, start).p)
<1> DEFINE chosen == {i \in DOMAIN p.points : p.points[i].id \in ids}
           number(i) == start - 1 + Cardinality({j \in chosen : j <= i})
           used == {p.points[i].number : i \in DOMAIN p.points \ chosen}
           c == chosen # {} /\ used \cap {number(i) : i \in chosen} = {}
           s == [i \in DOMAIN p.points |->
                  IF i \in chosen THEN [p.points[i] EXCEPT !.number = number(i)] ELSE p.points[i]]
           v == [p EXCEPT !.points = s]
<1>1. RenumberPoints(p, ids, start) = Require(c, p, v)  BY Zenon DEF RenumberPoints
<1> HIDE DEF number, chosen
<1>2. Len(p.points) \in Nat /\ DOMAIN p.points = 1..Len(p.points)  BY SeqForm DEF Form
<1>3. IsSeq(s) /\ DOMAIN s = DOMAIN p.points
  <2>1. s = [i \in 1..Len(p.points) |-> s[i]]  BY <1>2
  <2> HIDE DEF s
  <2> QED  BY <1>2, <2>1, SeqMade
<1>4. ASSUME NEW i \in DOMAIN p.points PROVE Sited(p, s[i])
  <2>1. Sited(p, p.points[i])  BY DEF Form
  <2>2. Sited(p, [p.points[i] EXCEPT !.number = number(i)])  BY <2>1, SitedPlace
  <2> QED  BY <2>1, <2>2
<1> HIDE DEF s, c
<1>5. Form(v) /\ v.history = p.history  BY <1>3, <1>4, PointsForm
<1> HIDE DEF v
<1> QED  BY <1>1, <1>5, RequireKeeps

(* Sorting leaves the rows what they are, and the package that they give. *)
LEMMA SortKeeps ==
  ASSUME NEW p, Form(p), NEW b, NEW f \in Orders(p, b)
  PROVE  Keeps(p, SortPoints(p, f).p)
<1> DEFINE D == DOMAIN p.points
           s == [i \in D |-> p.points[f[i]]]
           q == [p EXCEPT !.points = s]
<1>1. f \in [D -> D] /\ \A j \in D : \E i \in D : f[i] = j
  BY DEF Orders, Bijection, Surjection
<1>2. Len(p.points) \in Nat /\ D = 1..Len(p.points)  BY SeqForm DEF Form
<1>3. IsSeq(s) /\ DOMAIN s = D
  <2>1. s = [i \in 1..Len(p.points) |-> s[i]]  BY <1>2
  <2> HIDE DEF s
  <2> QED  BY <1>2, <2>1, SeqMade
<1>4. \A i \in D : Sited(p, s[i])  BY <1>1 DEF Form
<1>5. SortPoints(p, f).p = q  BY DEF SortPoints, Returns
<1>6. Form(q) /\ q.history = p.history /\ q.points = s
  <2> HIDE DEF s, D
  <2> QED  BY <1>3, <1>4, PointsForm
<1>7. /\ q.stale = p.stale /\ q.line = p.line /\ q.calibration = p.calibration
      /\ q.geometry = p.geometry /\ q.check = p.check /\ q.landxml = p.landxml /\ q.disabled = p.disabled
  <2> HIDE DEF s
  <2> QED  BY DEF Form, Fields
<1>8. ASSUME NEW ids PROVE Rows_(q, ids) = Rows_(p, ids)
  <2> DEFINE Sent(o) == Exportable(o) /\ o.id \in ids
  <2>1. Rows_(q, ids) = {s[i] : i \in {j \in D : Sent(s[j])}}
    <3> HIDE DEF q, s, D
    <3> QED  BY <1>3, <1>6 DEF Rows_
  <2>2. Rows_(p, ids) = {p.points[i] : i \in {j \in D : Sent(p.points[j])}}  BY DEF Rows_
  <2> HIDE DEF Sent
  <2>3. ASSUME NEW i \in D, Sent(s[i]) PROVE \E j \in D : Sent(p.points[j]) /\ s[i] = p.points[j]
    BY <1>1, <2>3
  <2>4. ASSUME NEW j \in D, Sent(p.points[j]) PROVE \E i \in D : Sent(s[i]) /\ s[i] = p.points[j]
    BY <1>1, <2>4
  <2> HIDE DEF s, D
  <2> QED  BY <2>1, <2>2, <2>3, <2>4
<1> HIDE DEF q
<1>9. \A ids : Content(q, ids) = Content(p, ids)
  BY <1>7, <1>8, Zenon DEF Content
<1> QED  BY <1>5, <1>6, <1>7, <1>9 DEF Keeps

------------------------------------------------------------------------------
(* A whole list of changes, of any length.  Induction on a set of numbers:
   the least one that is not in it has no place to be. *)
LEMMA Least ==
  ASSUME NEW B, B \subseteq Nat, B # {}
  PROVE  \E x \in B : \A y \in B : ~ (y < x)
<1>1. PICK x \in B : \A y \in B : ~ (<<y, x>> \in OpToRel(<, Nat))
  BY WFMin, NatLessThanWellFounded
<1>2. ASSUME NEW y \in B, y < x PROVE FALSE
  <2>1. <<y, x>> \in OpToRel(<, Nat)  BY <1>2 DEF OpToRel
  <2> QED  BY <1>1, <2>1
<1> QED  BY <1>2

LEMMA Climb ==
  ASSUME NEW N \in Nat, NEW T, 0 \in T, \A k \in 0..(N - 1) : k \in T => k + 1 \in T
  PROVE  \A k \in 0..N : k \in T
<1> DEFINE B == {k \in 0..N : k \notin T}
<1>1. SUFFICES ASSUME B # {} PROVE FALSE  OBVIOUS
<1>2. B \subseteq Nat  OBVIOUS
<1> HIDE DEF B
<1>3. PICK x \in B : \A y \in B : ~ (y < x)  BY <1>1, <1>2, Least
<1> USE DEF B
<1>4. x # 0 /\ x - 1 \in 0..(N - 1)  BY <1>3
<1>5. x - 1 \in T  BY <1>3, <1>4
<1> QED  BY <1>3, <1>4, <1>5

(* The recursive function is what its equation says, for each of the three
   steps it is used with. *)
LEMMA ApprovePointOneByOne ==
  ASSUME NEW p, NEW s, Len(s) \in Nat
  PROVE  \E f : /\ f[0] = Returns(p)
                /\ \A k \in 0..(Len(s) - 1) :
                     f[k + 1] = IF f[k].ok THEN ApprovePoint(f[k].p, s[k + 1]) ELSE f[k]
                /\ OneByOne(ApprovePoint, p, s) = f[Len(s)]
<1> DEFINE N == Len(s)
           Def(f, k) == IF k = 0 THEN Returns(p)
                        ELSE IF f[k - 1].ok THEN ApprovePoint(f[k - 1].p, s[k]) ELSE f[k - 1]
           Q(n) == \E g : g = [k \in 0..n |-> Def(g, k)]
           r == CHOOSE f : f = [k \in 0..N |-> Def(f, k)]
<1>1. Q(0)
  <2> DEFINE g == [k \in 0..0 |-> Returns(p)]
  <2>1. g = [k \in 0..0 |-> Def(g, k)]  OBVIOUS
  <2> HIDE DEF g, Def
  <2> QED  BY <2>1
<1>2. ASSUME NEW n \in Nat, Q(n) PROVE Q(n + 1)
  <2>1. PICK g : g = [k \in 0..n |-> Def(g, k)]  BY <1>2
  <2> DEFINE h == [k \in 0..(n + 1) |-> Def(g, k)]
  <2>2. \A k \in 0..n : h[k] = g[k]
    <3> HIDE DEF Def
    <3> QED  BY <2>1
  <2>3. \A k \in 0..(n + 1) : Def(h, k) = Def(g, k)
    <3> HIDE DEF h
    <3> QED  BY <2>2
  <2> HIDE DEF Def
  <2>4. h = [k \in 0..(n + 1) |-> Def(h, k)]  BY <2>3
  <2> HIDE DEF h
  <2> QED  BY <2>4
<1>3. Q(N)
  <2> DEFINE T == {n \in 0..N : Q(n)}
  <2> HIDE DEF Q
  <2>1. 0 \in T /\ \A k \in 0..(N - 1) : k \in T => k + 1 \in T  BY <1>1, <1>2
  <2> HIDE DEF T
  <2>2. \A k \in 0..N : k \in T  BY <2>1, Climb
  <2> QED  BY <2>2 DEF T
<1>4. r = [k \in 0..N |-> Def(r, k)]
  <2> HIDE DEF Def
  <2> QED  BY <1>3
<1>5. OneByOne(ApprovePoint, p, s) = r[N]  BY DEF OneByOne
<1> HIDE DEF r
<1>6. \A k \in 0..N : r[k] = Def(r, k)
  <2> HIDE DEF Def
  <2> QED  BY <1>4
<1>7. r[0] = Returns(p)  BY <1>6
<1>8. ASSUME NEW k \in 0..(N - 1)
      PROVE  r[k + 1] = IF r[k].ok THEN ApprovePoint(r[k].p, s[k + 1]) ELSE r[k]
  <2>1. k + 1 \in 0..N /\ k + 1 # 0 /\ (k + 1) - 1 = k  OBVIOUS
  <2>2. r[k + 1] = Def(r, k + 1)  BY <1>6, <2>1
  <2> QED  BY <2>1, <2>2
<1> QED  BY <1>5, <1>7, <1>8

(* The same of the descriptions. *)
LEMMA DescribeOneByOne ==
  ASSUME NEW p, NEW s, Len(s) \in Nat
  PROVE  \E f : /\ f[0] = Returns(p)
                /\ \A k \in 0..(Len(s) - 1) :
                     f[k + 1] = IF f[k].ok THEN Describe(f[k].p, s[k + 1]) ELSE f[k]
                /\ OneByOne(Describe, p, s) = f[Len(s)]
<1> DEFINE N == Len(s)
           Def(f, k) == IF k = 0 THEN Returns(p)
                        ELSE IF f[k - 1].ok THEN Describe(f[k - 1].p, s[k]) ELSE f[k - 1]
           Q(n) == \E g : g = [k \in 0..n |-> Def(g, k)]
           r == CHOOSE f : f = [k \in 0..N |-> Def(f, k)]
<1>1. Q(0)
  <2> DEFINE g == [k \in 0..0 |-> Returns(p)]
  <2>1. g = [k \in 0..0 |-> Def(g, k)]  OBVIOUS
  <2> HIDE DEF g, Def
  <2> QED  BY <2>1
<1>2. ASSUME NEW n \in Nat, Q(n) PROVE Q(n + 1)
  <2>1. PICK g : g = [k \in 0..n |-> Def(g, k)]  BY <1>2
  <2> DEFINE h == [k \in 0..(n + 1) |-> Def(g, k)]
  <2>2. \A k \in 0..n : h[k] = g[k]
    <3> HIDE DEF Def
    <3> QED  BY <2>1
  <2>3. \A k \in 0..(n + 1) : Def(h, k) = Def(g, k)
    <3> HIDE DEF h
    <3> QED  BY <2>2
  <2> HIDE DEF Def
  <2>4. h = [k \in 0..(n + 1) |-> Def(h, k)]  BY <2>3
  <2> HIDE DEF h
  <2> QED  BY <2>4
<1>3. Q(N)
  <2> DEFINE T == {n \in 0..N : Q(n)}
  <2> HIDE DEF Q
  <2>1. 0 \in T /\ \A k \in 0..(N - 1) : k \in T => k + 1 \in T  BY <1>1, <1>2
  <2> HIDE DEF T
  <2>2. \A k \in 0..N : k \in T  BY <2>1, Climb
  <2> QED  BY <2>2 DEF T
<1>4. r = [k \in 0..N |-> Def(r, k)]
  <2> HIDE DEF Def
  <2> QED  BY <1>3
<1>5. OneByOne(Describe, p, s) = r[N]  BY DEF OneByOne
<1> HIDE DEF r
<1>6. \A k \in 0..N : r[k] = Def(r, k)
  <2> HIDE DEF Def
  <2> QED  BY <1>4
<1>7. r[0] = Returns(p)  BY <1>6
<1>8. ASSUME NEW k \in 0..(N - 1)
      PROVE  r[k + 1] = IF r[k].ok THEN Describe(r[k].p, s[k + 1]) ELSE r[k]
  <2>1. k + 1 \in 0..N /\ k + 1 # 0 /\ (k + 1) - 1 = k  OBVIOUS
  <2>2. r[k + 1] = Def(r, k + 1)  BY <1>6, <2>1
  <2> QED  BY <2>1, <2>2
<1> QED  BY <1>5, <1>7, <1>8

(* The same of the labels. *)
LEMMA EnterLabelOneByOne ==
  ASSUME NEW p, NEW s, Len(s) \in Nat
  PROVE  \E f : /\ f[0] = Returns(p)
                /\ \A k \in 0..(Len(s) - 1) :
                     f[k + 1] = IF f[k].ok THEN EnterLabel(f[k].p, s[k + 1]) ELSE f[k]
                /\ OneByOne(EnterLabel, p, s) = f[Len(s)]
<1> DEFINE N == Len(s)
           Def(f, k) == IF k = 0 THEN Returns(p)
                        ELSE IF f[k - 1].ok THEN EnterLabel(f[k - 1].p, s[k]) ELSE f[k - 1]
           Q(n) == \E g : g = [k \in 0..n |-> Def(g, k)]
           r == CHOOSE f : f = [k \in 0..N |-> Def(f, k)]
<1>1. Q(0)
  <2> DEFINE g == [k \in 0..0 |-> Returns(p)]
  <2>1. g = [k \in 0..0 |-> Def(g, k)]  OBVIOUS
  <2> HIDE DEF g, Def
  <2> QED  BY <2>1
<1>2. ASSUME NEW n \in Nat, Q(n) PROVE Q(n + 1)
  <2>1. PICK g : g = [k \in 0..n |-> Def(g, k)]  BY <1>2
  <2> DEFINE h == [k \in 0..(n + 1) |-> Def(g, k)]
  <2>2. \A k \in 0..n : h[k] = g[k]
    <3> HIDE DEF Def
    <3> QED  BY <2>1
  <2>3. \A k \in 0..(n + 1) : Def(h, k) = Def(g, k)
    <3> HIDE DEF h
    <3> QED  BY <2>2
  <2> HIDE DEF Def
  <2>4. h = [k \in 0..(n + 1) |-> Def(h, k)]  BY <2>3
  <2> HIDE DEF h
  <2> QED  BY <2>4
<1>3. Q(N)
  <2> DEFINE T == {n \in 0..N : Q(n)}
  <2> HIDE DEF Q
  <2>1. 0 \in T /\ \A k \in 0..(N - 1) : k \in T => k + 1 \in T  BY <1>1, <1>2
  <2> HIDE DEF T
  <2>2. \A k \in 0..N : k \in T  BY <2>1, Climb
  <2> QED  BY <2>2 DEF T
<1>4. r = [k \in 0..N |-> Def(r, k)]
  <2> HIDE DEF Def
  <2> QED  BY <1>3
<1>5. OneByOne(EnterLabel, p, s) = r[N]  BY DEF OneByOne
<1> HIDE DEF r
<1>6. \A k \in 0..N : r[k] = Def(r, k)
  <2> HIDE DEF Def
  <2> QED  BY <1>4
<1>7. r[0] = Returns(p)  BY <1>6
<1>8. ASSUME NEW k \in 0..(N - 1)
      PROVE  r[k + 1] = IF r[k].ok THEN EnterLabel(r[k].p, s[k + 1]) ELSE r[k]
  <2>1. k + 1 \in 0..N /\ k + 1 # 0 /\ (k + 1) - 1 = k  OBVIOUS
  <2>2. r[k + 1] = Def(r, k + 1)  BY <1>6, <2>1
  <2> QED  BY <2>1, <2>2
<1> QED  BY <1>5, <1>7, <1>8

LEMMA ApprovalsKeep ==
  ASSUME NEW p, Form(p), NEW s, Len(s) \in Nat, \A k \in 1..Len(s) : s[k] \in Ids(p),
         OneByOne(ApprovePoint, p, s).ok
  PROVE  Keeps(p, OneByOne(ApprovePoint, p, s).p)
<1>1. PICK f : /\ f[0] = Returns(p)
               /\ \A k \in 0..(Len(s) - 1) :
                    f[k + 1] = IF f[k].ok THEN ApprovePoint(f[k].p, s[k + 1]) ELSE f[k]
               /\ OneByOne(ApprovePoint, p, s) = f[Len(s)]
  BY ApprovePointOneByOne
<1> DEFINE Kept(r) == r.ok => Keeps(p, r.p) /\ Ids(r.p) = Ids(p)
           T == {k \in 0..Len(s) : Kept(f[k])}
<1>2. Kept(f[0])  BY <1>1, SameKeeps DEF Returns
<1>3. ASSUME NEW k \in 0..(Len(s) - 1), Kept(f[k]) PROVE Kept(f[k + 1])
  <2>1. CASE ~ f[k].ok  BY <1>1, <2>1
  <2>2. CASE f[k].ok
    <3> DEFINE q == f[k].p
               w == ApprovePoint(q, s[k + 1])
    <3>1. Form(q) /\ Keeps(p, q) /\ Ids(q) = Ids(p)  BY <1>3, <2>2 DEF Keeps
    <3>2. s[k + 1] \in Ids(q) /\ f[k + 1] = w  BY <1>1, <2>2, <3>1
    <3> HIDE DEF q
    <3>3. w.ok => Keeps(q, w.p) /\ Ids(w.p) = Ids(q)  BY <3>1, <3>2, ApproveKeeps
    <3> HIDE DEF w
    <3> QED  BY <3>1, <3>2, <3>3, KeepsKeeps
  <2> QED  BY <2>1, <2>2
<1>4. Kept(f[Len(s)])
  <2> HIDE DEF Kept
  <2>1. 0 \in T /\ \A k \in 0..(Len(s) - 1) : k \in T => k + 1 \in T  BY <1>2, <1>3
  <2> HIDE DEF T
  <2>2. \A k \in 0..Len(s) : k \in T  BY <2>1, Climb
  <2> QED  BY <2>2 DEF T
<1> QED  BY <1>1, <1>4

LEMMA DescriptionsKeep ==
  ASSUME NEW p, Form(p), NEW s, Len(s) \in Nat, \A k \in 1..Len(s) : s[k] \in Ids(p),
         OneByOne(Describe, p, s).ok
  PROVE  Keeps(p, OneByOne(Describe, p, s).p)
<1>1. PICK f : /\ f[0] = Returns(p)
               /\ \A k \in 0..(Len(s) - 1) :
                    f[k + 1] = IF f[k].ok THEN Describe(f[k].p, s[k + 1]) ELSE f[k]
               /\ OneByOne(Describe, p, s) = f[Len(s)]
  BY DescribeOneByOne
<1> DEFINE Kept(r) == r.ok => Keeps(p, r.p) /\ Ids(r.p) = Ids(p)
           T == {k \in 0..Len(s) : Kept(f[k])}
<1>2. Kept(f[0])  BY <1>1, SameKeeps DEF Returns
<1>3. ASSUME NEW k \in 0..(Len(s) - 1), Kept(f[k]) PROVE Kept(f[k + 1])
  <2>1. CASE ~ f[k].ok  BY <1>1, <2>1
  <2>2. CASE f[k].ok
    <3> DEFINE q == f[k].p
               w == Describe(q, s[k + 1])
    <3>1. Form(q) /\ Keeps(p, q) /\ Ids(q) = Ids(p)  BY <1>3, <2>2 DEF Keeps
    <3>2. s[k + 1] \in Ids(q) /\ f[k + 1] = w  BY <1>1, <2>2, <3>1
    <3> HIDE DEF q
    <3>3. w.ok => Keeps(q, w.p) /\ Ids(w.p) = Ids(q)  BY <3>1, <3>2, EditKeeps DEF Describe
    <3> HIDE DEF w
    <3> QED  BY <3>1, <3>2, <3>3, KeepsKeeps
  <2> QED  BY <2>1, <2>2
<1>4. Kept(f[Len(s)])
  <2> HIDE DEF Kept
  <2>1. 0 \in T /\ \A k \in 0..(Len(s) - 1) : k \in T => k + 1 \in T  BY <1>2, <1>3
  <2> HIDE DEF T
  <2>2. \A k \in 0..Len(s) : k \in T  BY <2>1, Climb
  <2> QED  BY <2>2 DEF T
<1> QED  BY <1>1, <1>4

LEMMA LabelsKeep ==
  ASSUME NEW p, Form(p), NEW s, Len(s) \in Nat, OneByOne(EnterLabel, p, s).ok
  PROVE  Keeps(p, OneByOne(EnterLabel, p, s).p)
<1>1. PICK f : /\ f[0] = Returns(p)
               /\ \A k \in 0..(Len(s) - 1) :
                    f[k + 1] = IF f[k].ok THEN EnterLabel(f[k].p, s[k + 1]) ELSE f[k]
               /\ OneByOne(EnterLabel, p, s) = f[Len(s)]
  BY EnterLabelOneByOne
<1> DEFINE Kept(r) == r.ok => Keeps(p, r.p)
           T == {k \in 0..Len(s) : Kept(f[k])}
<1>2. Kept(f[0])  BY <1>1, SameKeeps DEF Returns
<1>3. ASSUME NEW k \in 0..(Len(s) - 1), Kept(f[k]) PROVE Kept(f[k + 1])
  <2>1. CASE ~ f[k].ok  BY <1>1, <2>1
  <2>2. CASE f[k].ok
    <3> DEFINE q == f[k].p
               w == EnterLabel(q, s[k + 1])
    <3>1. Form(q) /\ Keeps(p, q)  BY <1>3, <2>2 DEF Keeps
    <3>2. f[k + 1] = w  BY <1>1, <2>2, <3>1
    <3> HIDE DEF q
    <3>3. w.ok => Keeps(q, w.p)  BY <3>1, <3>2, EnterKeeps
    <3> HIDE DEF w
    <3> QED  BY <3>1, <3>2, <3>3, KeepsKeeps
  <2> QED  BY <2>1, <2>2
<1>4. Kept(f[Len(s)])
  <2> HIDE DEF Kept
  <2>1. 0 \in T /\ \A k \in 0..(Len(s) - 1) : k \in T => k + 1 \in T  BY <1>2, <1>3
  <2> HIDE DEF T
  <2>2. \A k \in 0..Len(s) : k \in T  BY <2>1, Climb
  <2> QED  BY <2>2 DEF T
<1> QED  BY <1>1, <1>4

------------------------------------------------------------------------------
(* The workflow: whatever the estimator asks for, what is not refused keeps
   the record in form, its history, and its freshness honest. *)
LEMMA RowsForm ==
  ASSUME NEW p, Form(p), NEW s, s = [i \in DOMAIN p.points |-> p.points[i].id]
  PROVE  /\ Len(s) \in Nat /\ \A k \in 1..Len(s) : s[k] \in Ids(p)
         /\ Len(Reverse(s)) \in Nat /\ \A k \in 1..Len(Reverse(s)) : Reverse(s)[k] \in Ids(p)
<1>1. Len(p.points) \in Nat /\ DOMAIN p.points = 1..Len(p.points)  BY SeqForm DEF Form
<1>2. s = [i \in 1..Len(p.points) |-> s[i]]  BY <1>1
<1>3. Len(s) = Len(p.points)  BY <1>1, <1>2, SeqMade
<1>4. \A k \in 1..Len(s) : s[k] \in Ids(p)  BY <1>1, <1>3 DEF Ids
<1> DEFINE r == Reverse(s)
<1>5. r = [i \in 1..Len(s) |-> s[(Len(s) - i) + 1]]  BY DEF Reverse
<1> HIDE DEF r
<1>6. r = [i \in 1..Len(s) |-> r[i]]  BY <1>5
<1>7. Len(r) = Len(s)  BY <1>1, <1>3, <1>6, SeqMade
<1>8. \A k \in 1..Len(r) : (Len(s) - k) + 1 \in 1..Len(s)  BY <1>1, <1>3, <1>7
<1>9. \A k \in 1..Len(r) : r[k] \in Ids(p)  BY <1>4, <1>5, <1>7, <1>8
<1> QED  BY <1>1, <1>3, <1>4, <1>7, <1>9 DEF r

(* An undoable method of a workflow whose record is in form. *)
Undone(r) == Undoable(r) /\ (r.ok => Keeps(project, r.p))

LEMMA PlanUndone ==
  ASSUME Form(project), Plan
  PROVE  \E r : Undone(r)
<1>1. CASE \E c \in {"small", "beyond"} : Undoable(SetCrop(project, c))
  BY <1>1, PlanKeeps DEF Undone
<1>2. CASE \E r \in {"wide", "narrow", "reversed"} : Undoable(SetRange(project, r))
  BY <1>2, PlanKeeps DEF Undone
<1>3. CASE \E d \in BOOLEAN : Undoable(ApplyCalibration(project, d))
  BY <1>3, CalibrationKeeps DEF Undone
<1>4. CASE Undoable(VerifyScale(project, FALSE))  BY <1>4, PlanKeeps DEF Undone
<1>5. CASE \E k \in Geometries : Undoable(SetGeometry(project, k, "inside"))
  BY <1>5, PlanKeeps DEF Undone
<1>6. CASE Undoable(SetGeometry(project, "boundary", "outside"))  BY <1>6, PlanKeeps DEF Undone
<1>7. CASE Undoable(DisableTriangle(project, "T-0001"))  BY <1>7, PlanKeeps DEF Undone
<1>8. CASE Undoable(AddElevationLine(project, "common", "inside"))  BY <1>8, PlanKeeps DEF Undone
<1>9. CASE Undoable(AddElevationLine(project, "extreme", "outside"))  BY <1>9, PlanKeeps DEF Undone
<1>10. CASE Undoable(ApproveElevationLine(project))  BY <1>10, PlanKeeps DEF Undone
<1> QED  BY <1>1, <1>2, <1>3, <1>4, <1>5, <1>6, <1>7, <1>8, <1>9, <1>10 DEF Plan

LEMMA CartUndone ==
  ASSUME Form(project), Cart
  PROVE  \E r : Undone(r)
<1>1. CASE \E c \in Clicks : Undoable(AddManual(project, c[1], c[2], c[3]))
  BY <1>1, AddKeeps DEF Undone
<1>2. CASE \E t \in Terrain : Undoable(CaptureAssisted(project, "common", t, TRUE))
  BY <1>2, AddKeeps DEF Undone
<1>3. CASE Undoable(CaptureAssisted(project, "common", "DESIGN_GRADE", FALSE))
  BY <1>3, AddKeeps DEF Undone
<1>4. CASE \E labels \in Extracted : Undoable(IngestTextCandidates(project, labels))
  <2>1. PICK labels \in Extracted : Undoable(IngestTextCandidates(project, labels))  BY <1>4
  <2>2. Len(labels) \in Nat  BY DEF Extracted
  <2>3. IngestTextCandidates(project, labels) = OneByOne(EnterLabel, project, labels)
    BY DEF IngestTextCandidates
  <2> QED  BY <2>1, <2>2, <2>3, LabelsKeep DEF Undone
<1>5. CASE \E rows \in {Rows, Reverse(Rows)} : Undoable(BulkApprove(project, rows))
  <2>1. PICK rows \in {Rows, Reverse(Rows)} : Undoable(BulkApprove(project, rows))  BY <1>5
  <2>2. Len(rows) \in Nat /\ \A k \in 1..Len(rows) : rows[k] \in Ids(project)
    BY RowsForm DEF Rows
  <2>3. \/ ~ BulkApprove(project, rows).ok
        \/ BulkApprove(project, rows) = OneByOne(ApprovePoint, project, rows)
    BY DEF BulkApprove, Raises
  <2> QED  BY <2>1, <2>2, <2>3, ApprovalsKeep DEF Undone
<1>6. CASE Undoable(BulkChangeDescription(project, Rows))
  <2>2. Len(Rows) \in Nat /\ \A k \in 1..Len(Rows) : Rows[k] \in Ids(project)
    BY RowsForm DEF Rows
  <2>3. \/ ~ BulkChangeDescription(project, Rows).ok
        \/ BulkChangeDescription(project, Rows) = OneByOne(Describe, project, Rows)
    BY DEF BulkChangeDescription, Raises
  <2> QED  BY <1>6, <2>2, <2>3, DescriptionsKeep DEF Undone
<1>7. CASE \E ids \in {Ids(project)} \cup {{id} : id \in Ids(project)} :
             Undoable(RenumberPoints(project, ids, 1))
  BY <1>7, RenumberKeeps DEF Undone
<1>8. CASE \E b \in BOOLEAN : \E order \in Orders(project, b) : Undoable(SortPoints(project, order))
  BY <1>8, SortKeeps DEF Undone
<1> QED  BY <1>1, <1>2, <1>3, <1>4, <1>5, <1>6, <1>7, <1>8 DEF Cart

LEMMA ReviewUndone ==
  ASSUME Form(project), Review
  PROVE  \E r : Undone(r)
<1> PICK id \in Ids(project) :
      \/ \E e \in Edits : Undoable(EditPoint(project, id, e))
      \/ Undoable(UseAlternative(project, id))
      \/ Undoable(ApprovePoint(project, id))
      \/ Undoable(RejectPoint(project, id))
      \/ Undoable(MarkReviewRequired(project, id))
      \/ \E other \in Ids(project) \cup {0} : Undoable(MergeDuplicate(project, id, other))
      \/ Undoable(DeleteManualPoint(project, id))
      \/ Undoable(DeleteCartPoint(project, id))
  BY DEF Review
<1>1. CASE \E e \in Edits : Undoable(EditPoint(project, id, e))  BY <1>1, EditKeeps DEF Undone
<1>2. CASE Undoable(UseAlternative(project, id))  BY <1>2, AlternativeKeeps DEF Undone
<1>3. CASE Undoable(ApprovePoint(project, id))  BY <1>3, ApproveKeeps DEF Undone
<1>4. CASE Undoable(RejectPoint(project, id))  BY <1>4, StatusKeeps DEF Undone
<1>5. CASE Undoable(MarkReviewRequired(project, id))  BY <1>5, StatusKeeps DEF Undone
<1>6. CASE \E other \in Ids(project) \cup {0} : Undoable(MergeDuplicate(project, id, other))
  BY <1>6, MergeKeeps DEF Undone
<1>7. CASE Undoable(DeleteManualPoint(project, id))  BY <1>7, WithoutKeeps DEF Undone
<1>8. CASE Undoable(DeleteCartPoint(project, id))  BY <1>8, WithoutKeeps DEF Undone
<1> QED  BY <1>1, <1>2, <1>3, <1>4, <1>5, <1>6, <1>7, <1>8

------------------------------------------------------------------------------
(* Every record that can come back is in form. *)
FormInv ==
  /\ Form(project)
  /\ IsSeq(undo) /\ \A i \in DOMAIN undo : Form(undo[i])
  /\ IsSeq(redo) /\ \A i \in DOMAIN redo : Form(redo[i])
  /\ file # NoFile => Form(file)
  /\ "phase" \in DOMAIN export
  /\ export.phase # "idle" => IsSeq(export.history) /\ export.stale \in BOOLEAN

LEMMA EmptyRecordForm ==
  ASSUME NEW p, Fields \subseteq DOMAIN p, p.calibration \in Nat, p.stale = TRUE,
         p.points = <<>>, p.history = <<>>
  PROVE  Form(p)
<1>1. IsSeq(p.points) /\ IsSeq(p.history)  BY EmptyForm
<1>2. \A i \in DOMAIN p.points : Sited(p, p.points[i])
  <2>1. DOMAIN p.points = {}  BY EmptyForm
  <2> QED  BY <2>1
<1>3. p.stale \in BOOLEAN  OBVIOUS
<1> QED  BY <1>1, <1>2, <1>3 DEF Form

LEMMA InitialForm ==
  ASSUME NEW p \in {NewProject, Opened}
  PROVE  Form(p) /\ p.history = <<>> /\ p.stale = TRUE
<1>1. Form(NewProject) /\ NewProject.history = <<>> /\ NewProject.stale = TRUE
  <2>1. /\ Fields \subseteq DOMAIN NewProject /\ NewProject.calibration \in Nat
        /\ NewProject.stale = TRUE /\ NewProject.points = <<>> /\ NewProject.history = <<>>
    BY DEF NewProject, Fields
  <2> QED  BY <2>1, EmptyRecordForm, Zenon
<1>2. Form(Opened) /\ Opened.history = <<>> /\ Opened.stale = TRUE
  <2> DEFINE o == [NewProject EXCEPT !.calibration = 1, !.geometry = {"boundary"}]
             a == NewPoint(o, "inside", "common", "EXISTING_GROUND", "MANUAL", "APPROVED")
             q == AddPoint(o, a)
             b == [NewPoint(q, "inside", "common", "DESIGN_GRADE", "PDF_TEXT", "AUTO_HIGH_CONFIDENCE")
                     EXCEPT !.alternatives = 1]
  <2>1. /\ Fields \subseteq DOMAIN o /\ o.calibration = 1
        /\ o.stale = TRUE /\ o.points = <<>> /\ o.history = <<>>
    BY DEF NewProject, Fields
  <2>2. Opened = AddPoint(q, b)  BY DEF Opened
  <2> HIDE DEF o
  <2>3. Form(o)
    <3>1. o.calibration \in Nat  BY <2>1
    <3> QED  BY <2>1, <3>1, EmptyRecordForm, Zenon
  <2>4. Sited(o, a)  BY <2>1 DEF Sited, NewPoint, PointFields, Terrain
  <2> HIDE DEF a
  <2>5. Form(q) /\ q.history = <<>> /\ q.stale = TRUE
    <3>1. q.stale = TRUE  BY <2>1 DEF AddPoint, Fields
    <3> QED  BY <2>1, <2>3, <2>4, <3>1, AddPointForm
  <2> HIDE DEF q
  <2>6. Sited(q, b)  BY NewPointSited DEF Approved
  <2> HIDE DEF b
  <2>7. AddPoint(q, b).stale = TRUE  BY <2>5 DEF AddPoint, Form, Fields
  <2> QED  BY <2>2, <2>5, <2>6, <2>7, AddPointForm
<1> QED  BY <1>1, <1>2

(* Two records that differ in history and freshness only. *)
SamePlan(p, q) ==
  /\ DOMAIN q = DOMAIN p /\ q.points = p.points /\ q.calibration = p.calibration
  /\ q.line = p.line /\ q.geometry = p.geometry /\ q.check = p.check
  /\ q.landxml = p.landxml /\ q.disabled = p.disabled

(* What would be in the package is the same. *)
LEMMA Rerecorded ==
  ASSUME NEW p, Form(p), NEW q, SamePlan(p, q), IsSeq(q.history), q.stale \in BOOLEAN
  PROVE  Form(q) /\ \A ids : Content(q, ids) = Content(p, ids)
<1>1. Form(q)  BY DEF Form, Sited, Local, SamePlan
<1>2. \A ids : Rows_(q, ids) = Rows_(p, ids)  BY DEF Rows_, SamePlan
<1>3. \A ids : Content(q, ids) = Content(p, ids)  BY <1>2, Zenon DEF Content, SamePlan
<1> QED  BY <1>1, <1>3

Rerecords(p, q, h, b) == SamePlan(p, q) /\ q.history = h /\ q.stale = b

LEMMA RolledFields ==
  ASSUME NEW p, Form(p), NEW h, NEW b \in BOOLEAN, NEW q,
         q = [[p EXCEPT !.history = h] EXCEPT !.stale = b]
  PROVE  Rerecords(p, q, h, b)
BY DEF Form, Fields, SamePlan, Rerecords

LEMMA BuiltFields ==
  ASSUME NEW p, Form(p), NEW h, NEW q,
         q = [[p EXCEPT !.stale = FALSE] EXCEPT !.history = h]
  PROVE  Rerecords(p, q, h, FALSE)
BY DEF Form, Fields, SamePlan, Rerecords

(* What is taken from one stack and put on the other. *)
LEMMA StackMoved ==
  ASSUME NEW from, NEW to, NEW p, IsSeq(from), IsSeq(to), from # <<>>
  PROVE  /\ IsSeq(Front(from)) /\ IsSeq(Append(to, p)) /\ Len(from) \in DOMAIN from
         /\ Last(from) = from[Len(from)]
         /\ \A i \in DOMAIN Front(from) : i \in DOMAIN from /\ Front(from)[i] = from[i]
         /\ \A i \in DOMAIN Append(to, p) :
              \/ Append(to, p)[i] = p
              \/ i \in DOMAIN to /\ Append(to, p)[i] = to[i]
<1>1. /\ IsSeq(Front(from)) /\ Len(Front(from)) = Len(from) - 1 /\ Len(from) \in 1..Len(from)
      /\ \A i \in 1..Len(Front(from)) : Front(from)[i] = from[i]
      /\ Last(from) = from[Len(from)]
  BY FrontForm
<1>2. /\ DOMAIN from = 1..Len(from) /\ Len(from) \in Nat
      /\ DOMAIN Front(from) = 1..(Len(from) - 1)
  BY <1>1, SeqForm
<1>3. /\ IsSeq(Append(to, p)) /\ Len(Append(to, p)) = Len(to) + 1
      /\ \A i \in 1..Len(to) : Append(to, p)[i] = to[i]
      /\ Append(to, p)[Len(to) + 1] = p
  BY AppendForm
<1>4. DOMAIN to = 1..Len(to) /\ Len(to) \in Nat /\ DOMAIN Append(to, p) = 1..(Len(to) + 1)
  BY <1>3, SeqForm
<1>5. \A i \in DOMAIN Append(to, p) : i \in 1..Len(to) \/ i = Len(to) + 1  BY <1>4
<1> QED  BY <1>1, <1>2, <1>3, <1>4, <1>5

LEMMA EnabledForm ==
  ASSUME Form(project), EnableLandXml
  PROVE  Form(project') /\ project'.history = project.history /\ project'.stale = TRUE
<1> DEFINE q == [project EXCEPT !.landxml = TRUE]
<1>1. Form(q) /\ q.history = project.history  BY FieldForm
<1>2. project' = Stale(q)  BY DEF EnableLandXml
<1> HIDE DEF q
<1> QED  BY <1>1, <1>2, StaleForm

(* A step of the workflow: an undoable method, or an undo, or a redo. *)
LEMMA WorkflowCases ==
  ASSUME Form(project), Workflow
  PROVE  (\E r : Undone(r)) \/ Undo \/ Redo
BY PlanUndone, CartUndone, ReviewUndone DEF Workflow

(* What an export is rolled back to. *)
Rolled(p, e) == [p EXCEPT !.history = e.history, !.stale = e.stale]

LEMMA RolledForm ==
  ASSUME NEW p, Form(p), NEW e, IsSeq(e.history), e.stale \in BOOLEAN
  PROVE  /\ Form(Rolled(p, e)) /\ Rolled(p, e).history = e.history
         /\ Rolled(p, e).stale = e.stale
         /\ \A ids : Content(Rolled(p, e), ids) = Content(p, ids)
<1> DEFINE q == Rolled(p, e)
<1>1. q = [[p EXCEPT !.history = e.history] EXCEPT !.stale = e.stale]
  BY DEF Rolled
<1>2. SamePlan(p, q) /\ q.history = e.history /\ q.stale = e.stale
  <2>1. Rerecords(p, q, e.history, e.stale)
    <3> HIDE DEF q
    <3> QED  BY <1>1, RolledFields, Zenon
  <2> HIDE DEF q
  <2> QED  BY <2>1 DEF Rerecords
<1> HIDE DEF q
<1>3. IsSeq(q.history) /\ q.stale \in BOOLEAN  BY <1>2, Zenon
<1>4. Form(q) /\ \A ids : Content(q, ids) = Content(p, ids)  BY <1>2, <1>3, Rerecorded, Zenon
<1> QED  BY <1>2, <1>4, Zenon DEF q

(* What a build makes of the record. *)
LEMMA BuiltForm ==
  ASSUME FormInv, BuildExport
  PROVE  /\ Form(project') /\ project'.stale = FALSE /\ SamePlan(project, project')
         /\ project'.history =
              Append(project.history, [token |-> export.token, revision |-> project.calibration])
         /\ \A ids : Content(project', ids) = Content(project, ids)
<1> DEFINE h == Append(project.history, [token |-> export.token, revision |-> project.calibration])
<1>1. project' = [project EXCEPT !.stale = FALSE, !.history = h]  BY DEF BuildExport
<1>2. IsSeq(h) /\ Form(project)  BY AppendForm DEF FormInv, Form
<1> HIDE DEF h
<1>3. project' = [[project EXCEPT !.stale = FALSE] EXCEPT !.history = h]  BY <1>1
<1>4. SamePlan(project, project') /\ project'.history = h /\ project'.stale = FALSE
  <2>1. Rerecords(project, project', h, FALSE)  BY <1>2, <1>3, BuiltFields, Zenon
  <2> QED  BY <2>1 DEF Rerecords
<1>5. IsSeq(project'.history) /\ project'.stale \in BOOLEAN  BY <1>2, <1>4
<1>6. Form(project') /\ \A ids : Content(project', ids) = Content(project, ids)
  BY <1>2, <1>4, <1>5, Rerecorded
<1> QED  BY <1>4, <1>6 DEF h

LEMMA FormStep ==
  ASSUME FormInv, [Next]_vars
  PROVE  FormInv'
<1> USE DEF FormInv
<1> DEFINE Rest == UNCHANGED <<file, export>>
<1>1. CASE Estimate
  <2>1. Rest /\ Workflow  BY <1>1 DEF Estimate
  <2>2. ASSUME NEW r, Undone(r) PROVE FormInv'
    <3>1. Form(project')  BY <2>2 DEF Undone, Undoable, Restored, Keeps
    <3>2. IsSeq(redo') /\ DOMAIN redo' = {}  BY <2>2, EmptyForm DEF Undone, Undoable
    <3>3. CASE undo' = undo  BY <2>1, <3>1, <3>2, <3>3
    <3>4. CASE undo' = Append(undo, project)
      <4>1. /\ IsSeq(undo') /\ DOMAIN undo' = 1..(Len(undo) + 1)
            /\ Len(undo) \in Nat /\ DOMAIN undo = 1..Len(undo)
            /\ undo'[Len(undo) + 1] = project /\ \A i \in 1..Len(undo) : undo'[i] = undo[i]
        BY <3>4, AppendForm, SeqForm
      <4>2. \A i \in DOMAIN undo' : i \in 1..Len(undo) \/ i = Len(undo) + 1  BY <4>1
      <4>3. \A i \in DOMAIN undo' : Form(undo'[i])  BY <4>1, <4>2
      <4> QED  BY <2>1, <3>1, <3>2, <4>1, <4>3
    <3> QED  BY <2>2, <3>3, <3>4 DEF Undone, Undoable
  <2>3. CASE Undo
    <3>1. undo # <<>> /\ project' = Last(undo) /\ undo' = Front(undo) /\ redo' = Append(redo, project)
      BY <2>3 DEF Undo
    <3>2. Form(project')  BY <3>1, StackMoved
    <3>3. IsSeq(undo') /\ \A i \in DOMAIN undo' : Form(undo'[i])  BY <3>1, StackMoved
    <3>4. IsSeq(redo') /\ \A i \in DOMAIN redo' : Form(redo'[i])  BY <3>1, StackMoved
    <3> QED  BY <2>1, <3>2, <3>3, <3>4
  <2>4. CASE Redo
    <3>1. redo # <<>> /\ project' = Last(redo) /\ redo' = Front(redo) /\ undo' = Append(undo, project)
      BY <2>4 DEF Redo
    <3>2. Form(project')  BY <3>1, StackMoved
    <3>3. IsSeq(undo') /\ \A i \in DOMAIN undo' : Form(undo'[i])  BY <3>1, StackMoved
    <3>4. IsSeq(redo') /\ \A i \in DOMAIN redo' : Form(redo'[i])  BY <3>1, StackMoved
    <3> QED  BY <2>1, <3>2, <3>3, <3>4
  <2> QED  BY <2>1, <2>2, <2>3, <2>4, WorkflowCases
<1>2. CASE EnableLandXml
  <2>1. UNCHANGED <<undo, redo, file, export>>  BY <1>2 DEF EnableLandXml
  <2> QED  BY <1>2, <2>1, EnabledForm
<1>3. CASE Handoff
  <2>0. PICK token \in Tokens : \E ids : BeginExport(token, ids)  BY <1>3 DEF Handoff
  <2>1. PICK ids : BeginExport(token, ids)  BY <2>0
  <2>2. /\ UNCHANGED <<project, undo, redo, file>>
        /\ export'.history = project.history /\ export'.stale = project.stale
        /\ "phase" \in DOMAIN export'
    BY <2>1 DEF BeginExport
  <2> QED  BY <2>2 DEF Form
<1>4. CASE BuildExport
  <2>1. /\ UNCHANGED <<undo, redo, file>> /\ export.phase # "idle"
        /\ export'.history = export.history /\ export'.stale = export.stale
        /\ DOMAIN export' = DOMAIN export
    BY <1>4 DEF BuildExport
  <2>2. Form(project')  BY <1>4, BuiltForm
  <2> QED  BY <2>1, <2>2
<1>5. CASE FailBuild \/ FailPublish \/ FailFinish
  <2>1. /\ export.phase # "idle" /\ project' = RolledBack /\ export'.phase = "idle"
        /\ "phase" \in DOMAIN export' /\ UNCHANGED <<undo, redo, file>>
    BY <1>5 DEF FailBuild, FailPublish, FailFinish, FailExport, Idle
  <2>2. Form(project')
    <3>1. project' = Rolled(project, export) /\ IsSeq(export.history) /\ export.stale \in BOOLEAN
      BY <2>1 DEF RolledBack, Rolled
    <3> QED  BY <3>1, RolledForm, Zenon
  <2> QED  BY <2>1, <2>2
<1>6. CASE Publish
  <2>1. /\ UNCHANGED <<project, undo, redo, file>> /\ export.phase # "idle"
        /\ export'.history = export.history /\ export'.stale = export.stale
        /\ DOMAIN export' = DOMAIN export
    BY <1>6 DEF Publish
  <2> QED  BY <2>1
<1>7. CASE FinishExport
  <2>1. /\ UNCHANGED <<project, undo, redo>> /\ file' \in {file, NoFile, project}
        /\ export'.phase = "idle" /\ "phase" \in DOMAIN export'
    BY <1>7 DEF FinishExport, Idle
  <2> QED  BY <2>1
<1>8. CASE Save
  <2>1. UNCHANGED <<project, undo, redo, export>> /\ file' = project  BY <1>8 DEF Save
  <2> QED  BY <2>1
<1>9. CASE Reopen
  <2>1. /\ project' = file /\ file # NoFile /\ undo' = <<>> /\ redo' = <<>>
        /\ export'.phase = "idle" /\ "phase" \in DOMAIN export' /\ UNCHANGED file
    BY <1>9 DEF Reopen, Idle
  <2> QED  BY <2>1, EmptyForm
<1>10. CASE UNCHANGED vars  BY <1>10 DEF vars
<1> QED  BY <1>1, <1>2, <1>3, <1>4, <1>5, <1>6, <1>7, <1>8, <1>9, <1>10 DEF Next

------------------------------------------------------------------------------
(* What a history lists is published, and what is not stale is what the last
   package says. *)
Listed(pk, h) ==
  \A k \in DOMAIN h : /\ h[k].token \in Tokens
                      /\ pk[h[k].token] # NoFile /\ pk[h[k].token].revision = h[k].revision
Fresh(pk, p) ==
  ~ p.stale =>
    LET last == pk[Last(p.history).token] IN
    p.history # <<>> /\ last # NoFile /\ last.content = Content(p, last.ids)
Sound(pk, p) == Listed(pk, p.history) /\ Fresh(pk, p)

(* A package is on its way until it is published, and what is rolled back to is
   sound at every step. *)
PackagesInv ==
  /\ DOMAIN packages = Tokens
  /\ \A i \in DOMAIN undo : Sound(packages, undo[i])
  /\ \A i \in DOMAIN redo : Sound(packages, redo[i])
  /\ file # NoFile => Sound(packages, file)
  /\ export.phase # "built" => Sound(packages, project)
  /\ export.phase # "idle" => export.token \in Tokens /\ Sound(packages, Rolled(project, export))
  /\ export.phase \in {"staged", "built"} => packages[export.token] = NoFile
  /\ export.phase = "staged" => project.history = export.history
  /\ export.phase = "built" =>
       project.history =
         Append(export.history, [token |-> export.token, revision |-> project.calibration])

(* No package is the absence of one. *)
NoFileIsNoPackage == \A c, i, r : [content |-> c, ids |-> i, revision |-> r] # NoFile

LEMMA SoundKept ==
  ASSUME NEW pk, NEW p, NEW q, Form(p), Sound(pk, p), Keeps(p, q)
  PROVE  Sound(pk, q)
<1>1. q.history = p.history  BY DEF Keeps
<1>2. CASE q.stale = TRUE  BY <1>1, <1>2 DEF Sound, Fresh
<1>3. CASE q.stale = p.stale /\ \A ids : Content(q, ids) = Content(p, ids)
  BY <1>1, <1>3 DEF Sound, Fresh
<1> QED  BY <1>2, <1>3 DEF Keeps

(* The same history, freshness and content. *)
LEMMA SoundAlike ==
  ASSUME NEW pk, NEW p, NEW q, Sound(pk, p), q.history = p.history, q.stale = p.stale,
         \A ids : Content(q, ids) = Content(p, ids)
  PROVE  Sound(pk, q)
BY DEF Sound, Fresh

(* A record that is sound stays so when a package is published elsewhere. *)
LEMMA SoundPublished ==
  ASSUME NEW pk, DOMAIN pk = Tokens, NEW t \in Tokens, pk[t] = NoFile, NEW x,
         NEW p, IsSeq(p.history), Sound(pk, p)
  PROVE  Sound([pk EXCEPT ![t] = x], p)
<1> DEFINE new == [pk EXCEPT ![t] = x]
<1>1. \A u \in Tokens : pk[u] # NoFile => new[u] = pk[u]  OBVIOUS
<1> HIDE DEF new
<1>2. Listed(new, p.history)  BY <1>1 DEF Sound, Listed
<1>3. ASSUME ~ p.stale, p.history # <<>>
      PROVE  LET n == Last(p.history).token IN n \in Tokens /\ new[n] = pk[n]
  <2>1. Last(p.history) = p.history[Len(p.history)] /\ Len(p.history) \in DOMAIN p.history
    BY <1>3, FrontForm, SeqForm
  <2>2. Last(p.history).token \in Tokens /\ pk[Last(p.history).token] # NoFile
    BY <2>1 DEF Sound, Listed
  <2> QED  BY <1>1, <2>2
<1>4. Fresh(new, p)  BY <1>3 DEF Sound, Fresh
<1> QED  BY <1>2, <1>4 DEF Sound, new

LEMMA SoundStart ==
  ASSUME NEW pk, NEW p, p.history = <<>>, p.stale = TRUE
  PROVE  Sound(pk, p)
BY EmptyForm DEF Sound, Listed, Fresh

(* The stacks after a record is moved or pushed. *)
LEMMA SoundStacks ==
  ASSUME NEW pk, IsSeq(undo), IsSeq(redo), Form(project), Sound(pk, project),
         \A i \in DOMAIN undo : Sound(pk, undo[i]),
         \A i \in DOMAIN redo : Sound(pk, redo[i]),
         (\E r : Undone(r)) \/ Undo \/ Redo
  PROVE  /\ Sound(pk, project')
         /\ \A i \in DOMAIN undo' : Sound(pk, undo'[i])
         /\ \A i \in DOMAIN redo' : Sound(pk, redo'[i])
<1>1. ASSUME NEW r, Undone(r)
      PROVE  /\ Sound(pk, project')
             /\ \A i \in DOMAIN undo' : Sound(pk, undo'[i])
             /\ \A i \in DOMAIN redo' : Sound(pk, redo'[i])
  <2>1. Undoable(r) /\ (r.ok => Keeps(project, r.p))  BY <1>1 DEF Undone
  <2>2. Sound(pk, project')  BY <2>1, SoundKept DEF Undoable, Restored
  <2>3. DOMAIN redo' = {}  BY <2>1, EmptyForm DEF Undoable
  <2>4. undo' = undo \/ undo' = Append(undo, project)  BY <2>1 DEF Undoable
  <2>5. CASE undo' = undo  BY <2>2, <2>3, <2>5
  <2>6. CASE undo' = Append(undo, project)
    <3>1. /\ DOMAIN undo' = 1..(Len(undo) + 1)
          /\ Len(undo) \in Nat /\ DOMAIN undo = 1..Len(undo)
          /\ undo'[Len(undo) + 1] = project /\ \A i \in 1..Len(undo) : undo'[i] = undo[i]
      BY <2>6, AppendForm, SeqForm
    <3>2. \A i \in DOMAIN undo' : i \in 1..Len(undo) \/ i = Len(undo) + 1  BY <3>1
    <3>3. \A i \in DOMAIN undo' : Sound(pk, undo'[i])  BY <3>1, <3>2
    <3> QED  BY <2>2, <2>3, <3>3
  <2> QED  BY <2>4, <2>5, <2>6
<1>2. CASE Undo
  <2>1. undo # <<>> /\ project' = Last(undo) /\ undo' = Front(undo) /\ redo' = Append(redo, project)
    BY <1>2 DEF Undo
  <2>2. Sound(pk, project')  BY <2>1, StackMoved
  <2>3. \A i \in DOMAIN undo' : Sound(pk, undo'[i])  BY <2>1, StackMoved
  <2>4. \A i \in DOMAIN redo' : Sound(pk, redo'[i])  BY <2>1, StackMoved
  <2> QED  BY <2>2, <2>3, <2>4
<1>3. CASE Redo
  <2>1. redo # <<>> /\ project' = Last(redo) /\ redo' = Front(redo) /\ undo' = Append(undo, project)
    BY <1>3 DEF Redo
  <2>2. Sound(pk, project')  BY <2>1, StackMoved
  <2>3. \A i \in DOMAIN undo' : Sound(pk, undo'[i])  BY <2>1, StackMoved
  <2>4. \A i \in DOMAIN redo' : Sound(pk, redo'[i])  BY <2>1, StackMoved
  <2> QED  BY <2>2, <2>3, <2>4
<1> QED  BY <1>1, <1>2, <1>3

(* The package of the export is published: the record that lists it is sound. *)
LEMMA PublishSound ==
  ASSUME NEW pk, NEW h, IsSeq(h), Listed(pk, h), NEW t \in Tokens,
         NEW p, p.history = Append(h, [token |-> t, revision |-> p.calibration]),
         NEW ids, pk[t] # NoFile,
         pk[t] = [content |-> Content(p, ids), ids |-> ids, revision |-> p.calibration]
  PROVE  Sound(pk, p)
<1> DEFINE entry == [token |-> t, revision |-> p.calibration]
<1>1. /\ IsSeq(p.history) /\ Len(p.history) = Len(h) + 1
      /\ \A i \in 1..Len(h) : p.history[i] = h[i]
      /\ p.history[Len(h) + 1] = entry
  BY AppendForm
<1>2. entry.token = t /\ entry.revision = p.calibration  OBVIOUS
<1>3. pk[t].revision = p.calibration /\ pk[t].content = Content(p, pk[t].ids)  OBVIOUS
<1> HIDE DEF entry
<1>4. /\ Len(h) \in Nat /\ DOMAIN h = 1..Len(h)
      /\ DOMAIN p.history = 1..(Len(h) + 1)
  BY <1>1, SeqForm
<1>5. \A k \in DOMAIN p.history : k \in 1..Len(h) \/ k = Len(h) + 1  BY <1>4
<1>6. Listed(pk, p.history)  BY <1>1, <1>2, <1>3, <1>4, <1>5 DEF Listed
<1>7. p.history # <<>>  BY <1>1, <1>4, EmptyForm
<1>8. Last(p.history) = entry  BY <1>1, <1>7, FrontForm
<1>9. Fresh(pk, p)  BY <1>2, <1>3, <1>7, <1>8 DEF Fresh
<1> QED  BY <1>6, <1>9 DEF Sound

LEMMA PackagesStep ==
  ASSUME NoFileIsNoPackage, FormInv, FormInv', PackagesInv, [Next]_vars
  PROVE  PackagesInv'
<1>0. IsSeq(undo) /\ IsSeq(redo) /\ Form(project)  BY DEF FormInv
<1>1. CASE Estimate
  <2>1. /\ export.phase = "idle" /\ Workflow /\ UNCHANGED <<file, packages, export>>
    BY <1>1 DEF Estimate, Idle
  <2>2. (\E r : Undone(r)) \/ Undo \/ Redo  BY <1>0, <2>1, WorkflowCases
  <2>3. Sound(packages, project)  BY <2>1 DEF PackagesInv
  <2>4. /\ Sound(packages, project')
        /\ \A i \in DOMAIN undo' : Sound(packages, undo'[i])
        /\ \A i \in DOMAIN redo' : Sound(packages, redo'[i])
    BY <1>0, <2>2, <2>3, SoundStacks DEF PackagesInv
  <2> QED  BY <2>1, <2>4 DEF PackagesInv
<1>2. CASE EnableLandXml
  <2>1. export.phase = "idle" /\ UNCHANGED <<undo, redo, file, packages, export>>
    BY <1>2 DEF EnableLandXml, Idle
  <2>2. project'.history = project.history /\ project'.stale = TRUE  BY <1>0, <1>2, EnabledForm
  <2>3. Sound(packages, project)  BY <2>1 DEF PackagesInv
  <2>4. Sound(packages, project')  BY <2>2, <2>3 DEF Sound, Fresh
  <2> QED  BY <2>1, <2>4 DEF PackagesInv
<1>3. CASE Handoff
  <2>0. PICK token \in Tokens : \E ids : BeginExport(token, ids)  BY <1>3 DEF Handoff
  <2>1. PICK ids : BeginExport(token, ids)  BY <2>0
  <2>2. /\ UNCHANGED <<project, undo, redo, file, packages>>
        /\ export.phase = "idle" /\ packages[token] = NoFile
        /\ export'.phase = "staged" /\ export'.token = token
        /\ export'.history = project.history /\ export'.stale = project.stale
    BY <2>1 DEF BeginExport, Idle
  <2>3. Sound(packages, project)  BY <2>2 DEF PackagesInv
  <2>4. IsSeq(project.history) /\ project.stale \in BOOLEAN  BY <1>0 DEF Form
  <2>5. Sound(packages, Rolled(project, export'))
    <3>1. /\ Rolled(project, export').history = project.history
          /\ Rolled(project, export').stale = project.stale
          /\ \A i : Content(Rolled(project, export'), i) = Content(project, i)
      BY <1>0, <2>2, <2>4, RolledForm, Zenon
    <3> QED  BY <2>3, <3>1, SoundAlike
  <2> QED  BY <2>2, <2>3, <2>5 DEF PackagesInv
<1>4. CASE BuildExport
  <2>1. /\ UNCHANGED <<undo, redo, file, packages>> /\ export.phase = "staged"
        /\ export'.phase = "built" /\ export'.token = export.token
        /\ export'.history = export.history /\ export'.stale = export.stale
    BY <1>4 DEF BuildExport, FormInv
  <2>2. /\ project'.history =
             Append(export.history, [token |-> export.token, revision |-> project.calibration])
        /\ project'.calibration = project.calibration
    <3>1. project.history = export.history  BY <2>1 DEF PackagesInv
    <3> QED  BY <1>4, <3>1, BuiltForm DEF SamePlan
  <2>3. /\ IsSeq(export.history) /\ export.stale \in BOOLEAN /\ Form(project')
        /\ \A i : Content(project', i) = Content(project, i)
    BY <1>4, <2>1, BuiltForm DEF FormInv
  <2>4. /\ Rolled(project, export).history = export.history
        /\ Rolled(project, export).stale = export.stale
        /\ \A i : Content(Rolled(project, export), i) = Content(project, i)
    BY <1>0, <2>3, RolledForm, Zenon
  <2>5. /\ Rolled(project', export').history = export.history
        /\ Rolled(project', export').stale = export.stale
        /\ \A i : Content(Rolled(project', export'), i) = Content(project', i)
    <3>1. IsSeq(export'.history) /\ export'.stale \in BOOLEAN  BY <2>1, <2>3, Zenon
    <3> QED  BY <2>1, <2>3, <3>1, RolledForm, Zenon
  <2>6. Sound(packages, Rolled(project, export))  BY <2>1 DEF PackagesInv
  <2>7. Sound(packages, Rolled(project', export'))  BY <2>3, <2>4, <2>5, <2>6, SoundAlike
  <2> QED  BY <2>1, <2>2, <2>7 DEF PackagesInv
<1>5. CASE FailBuild \/ FailPublish \/ FailFinish
  <2>1. /\ export.phase # "idle" /\ project' = Rolled(project, export) /\ export'.phase = "idle"
        /\ UNCHANGED <<undo, redo, file, packages>>
    BY <1>5 DEF FailBuild, FailPublish, FailFinish, FailExport, RolledBack, Rolled, Idle
  <2> QED  BY <2>1 DEF PackagesInv
<1>6. CASE Publish
  <2> DEFINE x == [content |-> Content(project, export.ids), ids |-> export.ids,
                   revision |-> project.calibration]
             t == export.token
  <2>1. /\ UNCHANGED <<project, undo, redo, file>> /\ export.phase = "built"
        /\ packages' = [packages EXCEPT ![t] = x]
        /\ export'.phase = "published" /\ export'.token = t
        /\ export'.history = export.history /\ export'.stale = export.stale
    BY <1>6 DEF Publish, FormInv
  <2>2. /\ t \in Tokens /\ packages[t] = NoFile /\ DOMAIN packages = Tokens
        /\ Sound(packages, Rolled(project, export))
        /\ project.history =
             Append(export.history, [token |-> t, revision |-> project.calibration])
    BY <2>1 DEF PackagesInv
  <2>3. x # NoFile  BY DEF NoFileIsNoPackage
  <2>4. /\ x.revision = project.calibration
        /\ x = [content |-> Content(project, export.ids), ids |-> export.ids,
                revision |-> project.calibration]
    OBVIOUS
  <2> HIDE DEF x, t
  <2>5. packages'[t] = x /\ DOMAIN packages' = Tokens  BY <2>1, <2>2
  <2>6. \A p : IsSeq(p.history) /\ Sound(packages, p) => Sound(packages', p)
    BY <2>1, <2>2, SoundPublished
  <2>7. /\ IsSeq(export.history) /\ export.stale \in BOOLEAN
        /\ Form(Rolled(project, export)) /\ Rolled(project, export).history = export.history
    <3>1. IsSeq(export.history) /\ export.stale \in BOOLEAN  BY <2>1 DEF FormInv
    <3> QED  BY <1>0, <3>1, RolledForm, Zenon
  <2>8. Sound(packages', Rolled(project, export))  BY <2>2, <2>6, <2>7
  <2>9. Rolled(project', export') = Rolled(project, export)  BY <2>1 DEF Rolled
  <2>10. Sound(packages', project)
    <3>1. Listed(packages', export.history)  BY <2>7, <2>8 DEF Sound
    <3> QED  BY <2>2, <2>3, <2>4, <2>5, <2>7, <3>1, PublishSound
  <2>11. /\ \A i \in DOMAIN undo : Sound(packages', undo[i])
         /\ \A i \in DOMAIN redo : Sound(packages', redo[i])
         /\ file # NoFile => Sound(packages', file)
    BY <2>6 DEF PackagesInv, FormInv, Form
  <2> QED  BY <2>1, <2>2, <2>5, <2>8, <2>9, <2>10, <2>11 DEF PackagesInv
<1>7. CASE FinishExport
  <2>1. /\ UNCHANGED <<project, undo, redo, packages>> /\ export'.phase = "idle"
        /\ export.phase = "published" /\ file' \in {file, NoFile, project}
    BY <1>7 DEF FinishExport, Idle
  <2> QED  BY <2>1 DEF PackagesInv
<1>8. CASE Save
  <2>1. /\ UNCHANGED <<project, undo, redo, packages, export>>
        /\ export.phase = "idle" /\ file' = project
    BY <1>8 DEF Save, Idle
  <2> QED  BY <2>1 DEF PackagesInv
<1>9. CASE Reopen
  <2>1. /\ project' = file /\ file # NoFile /\ undo' = <<>> /\ redo' = <<>>
        /\ export'.phase = "idle" /\ UNCHANGED <<file, packages>>
    BY <1>9 DEF Reopen, Idle
  <2>2. DOMAIN undo' = {} /\ DOMAIN redo' = {}  BY <2>1, EmptyForm
  <2> QED  BY <2>1, <2>2 DEF PackagesInv
<1>10. CASE UNCHANGED vars  BY <1>10 DEF vars, PackagesInv
<1> QED  BY <1>1, <1>2, <1>3, <1>4, <1>5, <1>6, <1>7, <1>8, <1>9, <1>10 DEF Next

------------------------------------------------------------------------------
LEMMA InitialRecords ==
  ASSUME Init
  PROVE  /\ project \in {NewProject, Opened}
         /\ file # NoFile => file \in {NewProject, Opened}
         /\ undo = <<>> /\ redo = <<>> /\ export = Idle
         /\ packages = [t \in Tokens |-> NoFile]
BY DEF Init

LEMMA FormStart == Init => FormInv
<1> SUFFICES ASSUME Init PROVE FormInv  OBVIOUS
<1>1. Form(project) /\ (file # NoFile => Form(file))
  <2>1. /\ project \in {NewProject, Opened}
        /\ file # NoFile => file \in {NewProject, Opened}
    BY InitialRecords
  <2>2. \A p \in {NewProject, Opened} : Form(p)  BY InitialForm, Zenon
  <2> QED  BY <2>1, <2>2, Zenon
<1>2. export.phase = "idle" /\ "phase" \in DOMAIN export  BY InitialRecords DEF Idle
<1>3. /\ IsSeq(undo) /\ DOMAIN undo = {}
      /\ IsSeq(redo) /\ DOMAIN redo = {}
  BY InitialRecords, EmptyForm
<1> QED  BY <1>1, <1>2, <1>3 DEF FormInv

LEMMA PackagesStart == Init => PackagesInv
<1> SUFFICES ASSUME Init PROVE PackagesInv  OBVIOUS
<1>1. Sound(packages, project) /\ (file # NoFile => Sound(packages, file))
  <2>1. /\ project \in {NewProject, Opened}
        /\ file # NoFile => file \in {NewProject, Opened}
    BY InitialRecords
  <2>2. \A p \in {NewProject, Opened} : Sound(packages, p)
    <3> SUFFICES ASSUME NEW p \in {NewProject, Opened} PROVE Sound(packages, p)  OBVIOUS
    <3>1. p.history = <<>> /\ p.stale = TRUE  BY InitialForm, Zenon
    <3> HIDE DEF Sound
    <3> QED  BY <3>1, SoundStart
  <2> QED  BY <2>1, <2>2, Zenon
<1>2. export.phase = "idle" /\ DOMAIN packages = Tokens  BY InitialRecords DEF Idle
<1>3. DOMAIN undo = {} /\ DOMAIN redo = {}  BY InitialRecords, EmptyForm
<1> QED  BY <1>1, <1>2, <1>3 DEF PackagesInv

(* Every record that can come back has its points where its calibration puts
   them, whatever the estimator does and in whatever order: add, move, edit,
   approve in bulk, renumber, sort, recalibrate, undo, redo and reopen. *)
THEOREM RecordsKeepTheirForm == Spec => []FormInv
<1>1. Init => FormInv  BY FormStart
<1>2. FormInv /\ [Next]_vars => FormInv'  BY FormStep
<1> QED  BY <1>1, <1>2, PTL DEF Spec

(* An approved point is of a terrain class and at its place on the grid of the
   calibration in force. *)
THEOREM ApprovedPointsAreCalibrated == Spec => []ApprovedIsCalibrated
<1>1. FormInv => ApprovedIsCalibrated  BY DEF FormInv, Form, Sited, ApprovedIsCalibrated
<1> QED  BY <1>1, RecordsKeepTheirForm, PTL

(* A refused call leaves the record as it was, however far it had got: what
   changes the record between two exports without a step of the undo stack is
   the acceptance of LandXML and the opening of the file. *)
THEOREM RefusalsChangeNothing == Spec => RefusedChangesNothing
<1> DEFINE Quiet == project' \in {project, Stale([project EXCEPT !.landxml = TRUE]), file}
<1>1. ASSUME FormInv, [Next]_vars, export = Idle, export' = Idle, undo' = undo
      PROVE  Quiet
  <2>0. IsSeq(undo) /\ Form(project) /\ export.phase = "idle" /\ export'.phase = "idle"
    BY <1>1 DEF FormInv, Idle
  <2>1. \A p : Append(undo, p) # undo
    <3>1. ASSUME NEW p PROVE Len(Append(undo, p)) # Len(undo)  BY <2>0, AppendForm, SeqForm
    <3> QED  BY <3>1
  <2>2. CASE Estimate
    <3>1. (\E r : Undone(r)) \/ Undo \/ Redo  BY <2>0, <2>2, WorkflowCases DEF Estimate
    <3>2. ASSUME NEW r, Undone(r) PROVE project' = project
      BY <1>1, <2>1, <3>2 DEF Undone, Undoable, Restored
    <3>3. ~ Undo
      <4>1. ASSUME Undo PROVE Len(Front(undo)) = Len(undo) - 1 /\ Len(undo) \in Nat
        BY <2>0, <4>1, FrontForm, SeqForm DEF Undo
      <4>2. ASSUME Undo PROVE undo = Front(undo)  BY <1>1, <4>2 DEF Undo
      <4>3. ASSUME NEW n \in Nat, n = n - 1 PROVE FALSE  BY <4>3
      <4> QED  BY <4>1, <4>2, <4>3
    <3>4. ~ Redo  BY <1>1, <2>1 DEF Redo
    <3> QED  BY <3>1, <3>2, <3>3, <3>4
  <2>3. CASE EnableLandXml  BY <2>3 DEF EnableLandXml
  <2>4. CASE Handoff
    <3>1. export'.phase = "staged"  BY <2>4 DEF Handoff, BeginExport
    <3> QED  BY <2>0, <3>1
  <2>5. ~ (BuildExport \/ FailBuild \/ Publish \/ FailPublish \/ FinishExport \/ FailFinish)
    BY <2>0 DEF BuildExport, FailBuild, Publish, FailPublish, FinishExport, FailFinish
  <2>6. CASE Save \/ Reopen  BY <2>6 DEF Save, Reopen
  <2>7. CASE UNCHANGED vars  BY <2>7 DEF vars
  <2> QED  BY <1>1, <2>2, <2>3, <2>4, <2>5, <2>6, <2>7 DEF Next
<1>2. FormInv /\ [Next]_vars =>
        [(export = Idle /\ export' = Idle /\ undo' = undo) => Quiet]_vars
  BY <1>1
<1> QED  BY <1>2, RecordsKeepTheirForm, PTL DEF Spec, RefusedChangesNothing

(* Every record that can come back lists only packages that are there, and is
   stale or has its last package as it would be made again. *)
THEOREM RecordsStaySound ==
  ASSUME NoFileIsNoPackage
  PROVE  Spec => []PackagesInv
<1>1. Init => PackagesInv  BY PackagesStart
<1>2. FormInv /\ FormInv' /\ PackagesInv /\ [Next]_vars => PackagesInv'  BY PackagesStep
<1> QED  BY <1>1, <1>2, RecordsKeepTheirForm, PTL DEF Spec

(* While exports_stale is clear, the last package recorded holds what its
   selection would give now. *)
THEOREM FreshExportsMatch ==
  ASSUME NoFileIsNoPackage
  PROVE  Spec => []FreshExportMatches
<1>1. PackagesInv => FreshExportMatches
  <2> SUFFICES ASSUME PackagesInv, export = Idle, ~project.stale
               PROVE  LET last == packages[Last(project.history).token]
                      IN  /\ project.history # <<>> /\ last # NoFile
                          /\ last.content = Content(project, last.ids)
    BY DEF FreshExportMatches
  <2>1. Sound(packages, project)  BY DEF PackagesInv, Idle
  <2> QED  BY <2>1 DEF Sound, Fresh
<1> QED  BY <1>1, RecordsStaySound, PTL

(* The records that are kept: the current one, the stacks, the file. *)
LEMMA ConcatForm ==
  ASSUME NEW s, NEW t, IsSeq(s), IsSeq(t)
  PROVE  /\ IsSeq(s \o t)
         /\ \A n \in DOMAIN (s \o t) :
              \/ n \in DOMAIN s /\ (s \o t)[n] = s[n]
              \/ n > Len(s) /\ \E i \in DOMAIN t : (s \o t)[n] = t[i]
<1>1. PICK S : s \in Seq(S)  BY DEF IsSeq
<1>2. PICK T : t \in Seq(T)  BY DEF IsSeq
<1> DEFINE U == S \cup T
<1>3. s \in Seq(U) /\ t \in Seq(U)  BY <1>1, <1>2, SeqMonotonic
<1> HIDE DEF U
<1>4. s \o t \in Seq(U) /\ Len(s \o t) = Len(s) + Len(t)  BY <1>3
<1>5. \A n \in 1..(Len(s) + Len(t)) :
        (s \o t)[n] = IF n <= Len(s) THEN s[n] ELSE t[n - Len(s)]
  BY <1>3
<1>6. /\ Len(s) \in Nat /\ DOMAIN s = 1..Len(s)
      /\ Len(t) \in Nat /\ DOMAIN t = 1..Len(t)
      /\ DOMAIN (s \o t) = 1..(Len(s) + Len(t))
  BY <1>3, <1>4
<1>7. ASSUME NEW n \in DOMAIN (s \o t)
      PROVE  \/ n \in DOMAIN s /\ (s \o t)[n] = s[n]
             \/ n > Len(s) /\ \E i \in DOMAIN t : (s \o t)[n] = t[i]
  <2>1. CASE n <= Len(s)  BY <1>5, <1>6, <2>1
  <2>2. CASE n > Len(s)
    <3>1. n - Len(s) \in DOMAIN t /\ ~(n <= Len(s))  BY <1>6, <2>2
    <3>2. (s \o t)[n] = t[n - Len(s)]  BY <1>5, <1>6, <3>1
    <3> QED  BY <2>2, <3>1, <3>2
  <2> QED  BY <1>6, <2>1, <2>2
<1>8. IsSeq(s \o t)  BY <1>4 DEF IsSeq
<1> QED  BY <1>7, <1>8

LEMMA SingleForm ==
  ASSUME NEW e
  PROVE  IsSeq(<<e>>) /\ \A i \in DOMAIN <<e>> : i = 1 /\ <<e>>[i] = e
<1>1. <<e>> \in Seq({e})  OBVIOUS
<1>2. IsSeq(<<e>>)  BY <1>1 DEF IsSeq
<1>3. \A i \in DOMAIN <<e>> : i = 1 /\ <<e>>[i] = e  OBVIOUS
<1> QED  BY <1>2, <1>3

LEMMA StoredForm ==
  ASSUME FormInv, NEW n \in DOMAIN Stored
  PROVE  \/ n = 1 /\ Stored[n] = project
         \/ \E i \in DOMAIN undo : Stored[n] = undo[i]
         \/ \E i \in DOMAIN redo : Stored[n] = redo[i]
         \/ file # NoFile /\ Stored[n] = file
<1> DEFINE f == IF file = NoFile THEN <<>> ELSE <<file>>
           a == <<project>>
           b == a \o undo
           c == b \o redo
<1>1. IsSeq(a) /\ \A i \in DOMAIN a : i = 1 /\ a[i] = project  BY SingleForm
<1>2. IsSeq(f) /\ \A i \in DOMAIN f : file # NoFile /\ f[i] = file  BY SingleForm, EmptyForm
<1>3. IsSeq(undo) /\ IsSeq(redo)  BY DEF FormInv
<1>4. Stored = c \o f  BY DEF Stored
<1> HIDE DEF f, a
<1>5. /\ IsSeq(b)
      /\ \A m \in DOMAIN b : (m \in DOMAIN a /\ b[m] = a[m]) \/ \E i \in DOMAIN undo : b[m] = undo[i]
  BY <1>1, <1>3, ConcatForm
<1> HIDE DEF b
<1>6. /\ IsSeq(c)
      /\ \A m \in DOMAIN c : (m \in DOMAIN b /\ c[m] = b[m]) \/ \E i \in DOMAIN redo : c[m] = redo[i]
  <2>1. IsSeq(b) /\ IsSeq(redo)  BY <1>3, <1>5
  <2> QED  BY <2>1, ConcatForm
<1> HIDE DEF c
<1>7. (n \in DOMAIN c /\ Stored[n] = c[n]) \/ \E i \in DOMAIN f : Stored[n] = f[i]
  BY <1>2, <1>4, <1>6, ConcatForm
<1> QED  BY <1>1, <1>2, <1>5, <1>6, <1>7

(* No record that is kept lists a package that was never published. *)
THEOREM HistoriesArePublished ==
  ASSUME NoFileIsNoPackage
  PROVE  Spec => []RecordedIsPublished
<1>1. FormInv /\ PackagesInv => RecordedIsPublished
  <2> SUFFICES ASSUME FormInv, PackagesInv, NEW n \in DOMAIN Stored,
                      NEW k \in DOMAIN Stored[n].history
               PROVE  LET entry   == Stored[n].history[k]
                          package == packages[entry.token]
                      IN  \/ package # NoFile /\ package.revision = entry.revision
                          \/ n = 1 /\ export.phase = "built" /\ entry.token = export.token
    BY DEF RecordedIsPublished
  <2> DEFINE r == Stored[n]
  <2>1. CASE Sound(packages, r)  BY <2>1 DEF Sound, Listed
  <2>2. CASE n = 1 /\ r = project /\ export.phase = "built"
    <3>1. /\ project.history =
               Append(export.history, [token |-> export.token, revision |-> project.calibration])
          /\ Sound(packages, Rolled(project, export))
      BY <2>2 DEF PackagesInv
    <3>2. IsSeq(export.history) /\ export.stale \in BOOLEAN /\ Form(project)
      BY <2>2 DEF FormInv
    <3>3. Rolled(project, export).history = export.history  BY <3>2, RolledForm, Zenon
    <3>4. Listed(packages, export.history)  BY <3>1, <3>3 DEF Sound
    <3>5. /\ IsSeq(project.history) /\ Len(project.history) = Len(export.history) + 1
          /\ \A i \in 1..Len(export.history) : project.history[i] = export.history[i]
          /\ project.history[Len(export.history) + 1].token = export.token
      BY <3>1, <3>2, AppendForm
    <3>6. /\ Len(export.history) \in Nat
          /\ DOMAIN export.history = 1..Len(export.history)
          /\ DOMAIN project.history = 1..(Len(export.history) + 1)
      BY <3>2, <3>5, SeqForm
    <3>7. k \in 1..Len(export.history) \/ k = Len(export.history) + 1  BY <2>2, <3>6
    <3> QED  BY <2>2, <3>4, <3>5, <3>6, <3>7 DEF Listed
  <2>3. Sound(packages, r) \/ (n = 1 /\ r = project /\ export.phase = "built")
    BY StoredForm DEF PackagesInv
  <2> QED  BY <2>1, <2>2, <2>3
<1> QED  BY <1>1, RecordsKeepTheirForm, RecordsStaySound, PTL

=============================================================================
