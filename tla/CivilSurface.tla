----------------------------- MODULE CivilSurface -----------------------------
(***************************************************************************)
(* The preliminary surfaces of a civil project                             *)
(* (src/screen2xyz_civil/surface.py): the Bowyer-Watson triangulation of   *)
(* the approved points of a class, what is filtered out by the reviewed    *)
(* geometry, and the triangles the estimator disables in the preview.      *)
(* Positions are integers, so that every test is exact: points at even     *)
(* places of a small grid and at one far from it, almost on a line with    *)
(* it, and reviewed geometry anywhere.                                     *)
(***************************************************************************)
EXTENDS Integers, Sequences, FiniteSets, SequencesExt

CONSTANTS
  Types,         \* the classes with a surface: existing ground, design grade
  Side,          \* bound: points are at 0, 2, .. 2 * Side on both axes
  Far,           \* bound: and at 2 * Far, 2
  MaxPoints,     \* bound: approved points, of all classes
  MaxDisabled,   \* bound: the largest number of a triangle that is disabled
  WithGeometry   \* bound: whether the estimator draws a boundary, an exclusion or a line

ASSUME SurfaceAssumption ==
  {Side, Far, MaxPoints, MaxDisabled} \subseteq Nat /\ WithGeometry \in BOOLEAN

VARIABLES
  points,     \* the approved points of each class, in the order of their ids
  boundary,   \* the reviewed boundary, <<>> for none
  exclusion,  \* the reviewed exclusion polygon, <<>> for none
  nocross,    \* the reviewed no-cross line or breakline, <<>> for none
  disabled,   \* disabled_triangles
  asked       \* history: the classes in whose preview a triangle was disabled

geometry == <<boundary, exclusion, nocross>>
vars == <<points, geometry, disabled, asked>>

Grid == {<<2 * x, 2 * y>> : x \in 0..Side, y \in 0..Side}
          \cup {<<2 * Far, 2>>}
(* Samples of what is drawn: within a triangle, across several, along edges. *)
Polygons == {<<<<1, 1>>, <<2, 1>>, <<1, 2>>>>, <<<<1, 1>>, <<3, 1>>, <<3, 3>>, <<1, 3>>>>,
             <<<<0, 0>>, <<2, 0>>, <<2, 2>>>>}
Boundaries == {<<<<1, 1>>, <<2, 1>>, <<1, 2>>>>, <<<<-1, -1>>, <<3, -1>>, <<3, 3>>, <<-1, 3>>>>}
Lines    == {<<<<1, -1>>, <<1, 3>>, <<5, 3>>>>}

------------------------------------------------------------------------------
(* Plan geometry.  _area2, orientation *)
Area2(a, b, c) == (b[1] - a[1]) * (c[2] - a[2]) - (b[2] - a[2]) * (c[1] - a[1])
Magnitude(n) == IF n < 0 THEN -n ELSE n

Dot(a, b, p) == (a[1] - p[1]) * (b[1] - p[1]) + (a[2] - p[2]) * (b[2] - p[2])
(* The sign of k * l - m * n, which need not fit in 32 bits. *)
Limb == 2 ^ 14
SignOf(n) == IF n > 0 THEN 1 ELSE IF n < 0 THEN -1 ELSE 0
SignOfDifference(k, l, m, n) ==
  LET hi == [i \in 1..4 |-> <<k, l, m, n>>[i] \div Limb]
      lo == [i \in 1..4 |-> <<k, l, m, n>>[i] % Limb]
      low  == lo[1] * lo[2] - lo[3] * lo[4]
      mid  == hi[1] * lo[2] + lo[1] * hi[2] - hi[3] * lo[4] - lo[3] * hi[4] + low \div Limb
      high == hi[1] * hi[2] - hi[3] * hi[4] + mid \div Limb
  IN  IF high # 0 THEN SignOf(high) ELSE SignOf((mid % Limb) + (low % Limb))
(* Twice the area times the power of p to the circle of a, b and c: it has the
   sign _circumcircle_contains gets from the centre and the radius. *)
Power(a, b, c, p) ==
  LET area == Area2(a, b, c)
  IN  SignOf(area) * SignOfDifference(area, Dot(a, b, p), Dot(a, b, c), Area2(p, a, b))
CircleOpen(a, b, c, p) == Power(a, b, c, p) < 0
(* A point on the circle is in it; a degenerate triangle contains none. *)
InCircle(a, b, c, p) == Area2(a, b, c) # 0 /\ Power(a, b, c, p) <= 0

ClosedEdges(q) == {<<q[i], q[(i % Len(q)) + 1]>> : i \in DOMAIN q}
OpenEdges(q)   == {<<q[i], q[i + 1]>> : i \in 1..(Len(q) - 1)}

(* _point_in_polygon: the edges a ray to the right crosses; the point is given
   as k times its place. *)
InPolygon(p, k, q) ==
  LET Ray(e) ==
        LET a == [i \in 1..2 |-> k * e[1][i]]
            b == [i \in 1..2 |-> k * e[2][i]]
            side == (a[1] - b[1]) * (p[2] - b[2]) - (p[1] - b[1]) * (a[2] - b[2])
        IN  /\ (b[2] > p[2]) # (a[2] > p[2])
            /\ IF a[2] > b[2] THEN side > 0 ELSE side < 0
  IN  Cardinality({e \in ClosedEdges(q) : Ray(e)}) % 2 = 1
InTriangle(p, t) ==
  LET signs == {Area2(t[1], t[2], p), Area2(t[2], t[3], p), Area2(t[3], t[1], p)}
  IN  Area2(t[1], t[2], t[3]) # 0 /\ ((\A s \in signs : s >= 0) \/ (\A s \in signs : s <= 0))

(* _segments_intersect: a proper crossing. *)
Opposite(m, n) == (m < 0 /\ n > 0) \/ (m > 0 /\ n < 0)
Intersect(e, f) ==
  /\ Opposite(Area2(e[1], e[2], f[1]), Area2(e[1], e[2], f[2]))
  /\ Opposite(Area2(f[1], f[2], e[1]), Area2(f[1], f[2], e[2]))
Crosses(t, edges) == \E e \in ClosedEdges(t), f \in edges : Intersect(e, f)

Centroid3(t) == [i \in 1..2 |-> t[1][i] + t[2][i] + t[3][i]]  \* three times it
(* Mutant: a polygon within a triangle is overlooked. *)
MeetsByItsEdges(t, q) ==
  InPolygon(Centroid3(t), 3, q) \/ (\E v \in Range(t) : InPolygon(v, 1, q)) \/ Crosses(t, ClosedEdges(q))
(* The exclusion filter, _triangle_intersects_polygon with it. *)
Meets(t, q) ==
  \/ InPolygon(Centroid3(t), 3, q)
  \/ \E v \in Range(t) : InPolygon(v, 1, q)
  \/ \E v \in Range(q) : InTriangle(v, t)
  \/ Crosses(t, ClosedEdges(q))

------------------------------------------------------------------------------
(* _delaunay.  A triangle is <<i, j, k>> with i < j < k: indices of the three
   super vertices, which come first here, and of the points after them. *)
Extent(vs, axis) ==
  LET at == {v[axis] : v \in Range(vs)}
  IN  <<CHOOSE m \in at : \A n \in at : m <= n, CHOOSE m \in at : \A n \in at : m >= n>>
Work(vs) ==
  LET ex == Extent(vs, 1)
      ey == Extent(vs, 2)
      dx == ex[2] - ex[1]
      dy == ey[2] - ey[1]
      span == IF dx > dy THEN dx ELSE dy
      cx == (ex[1] + ex[2]) \div 2
      cy == (ey[1] + ey[2]) \div 2
  IN  <<<<cx - 20 * span, cy - span>>, <<cx, cy + 20 * span>>, <<cx + 20 * span, cy - span>>>> \o vs

TriangleEdges(t) == {<<t[1], t[2]>>, <<t[2], t[3]>>, <<t[1], t[3]>>}
AllEdges(bad) == UNION {TriangleEdges(t) : t \in bad}  \* mutant: the inner edges too
Hole(bad) ==
  {e \in UNION {TriangleEdges(t) : t \in bad} : Cardinality({t \in bad : e \in TriangleEdges(t)}) = 1}
(* The triangles whose circle has the point are taken out, and the edges of the
   hole, which are in one of them only, are joined to the point. *)
InsertPoint(w, triangles, p) ==
  LET bad == {t \in triangles : InCircle(w[t[1]], w[t[2]], w[t[3]], w[p])}
  IN  (triangles \ bad) \cup {<<e[1], e[2], p>> : e \in Hole(bad)}
Delaunay(vs) ==
  LET w == Work(vs)
      all == FoldLeft(LAMBDA ts, i : InsertPoint(w, ts, i + 3), {<<1, 2, 3>>}, [i \in DOMAIN vs |-> i])
  IN  {[k \in 1..3 |-> t[k] - 3] :
         t \in {u \in all : u[1] > 3 /\ Area2(w[u[1]], w[u[2]], w[u[3]]) # 0}}

At(vs, t) == [k \in 1..3 |-> vs[t[k]]]
KeepTriangle(corners) ==
  /\ boundary = <<>> \/ (InPolygon(Centroid3(corners), 3, boundary) /\ ~Crosses(corners, ClosedEdges(boundary)))
  /\ exclusion = <<>> \/ ~Meets(corners, exclusion)
  /\ ~Crosses(corners, OpenEdges(nocross))
(* build_project_surface: the triangles left, by the number in their id, which
   is the position in the order of their vertices. *)
Left(vs) == {t \in Delaunay(vs) : KeepTriangle(At(vs, t))}
Before(t, u) == \E k \in 1..3 : t[k] < u[k] /\ \A j \in 1..(k - 1) : t[j] = u[j]
Number(t, ts) == 1 + Cardinality({u \in ts : Before(u, t)})
(* None with a SurfaceError: fewer than three positions, or no triangle. *)
Surface(vs) == IF Cardinality(Range(vs)) < 3 THEN {} ELSE Left(vs)
Disabled(vs) == LET ts == Surface(vs) IN {t \in ts : Number(t, ts) \in disabled}

------------------------------------------------------------------------------
Init == /\ points = [t \in Types |-> <<>>] /\ boundary = <<>> /\ exclusion = <<>> /\ nocross = <<>>
        /\ disabled = {} /\ asked = {}

Total == Cardinality(UNION {{type} \X DOMAIN points[type] : type \in Types})

(* What the workflow does, as far as a surface sees it. *)
ApprovePoint(type, place) ==
  /\ Total < MaxPoints
  /\ points' = [points EXCEPT ![type] = Append(@, place)]
  /\ UNCHANGED <<geometry, disabled, asked>>
RejectPoint(type, i) ==
  /\ points' = [points EXCEPT ![type] = RemoveAt(@, i)]
  /\ UNCHANGED <<geometry, disabled, asked>>
Undrawn == WithGeometry /\ geometry = <<<<>>, <<>>, <<>>>>
SetBoundary(q) ==
  /\ Undrawn
  /\ boundary' = q
  /\ UNCHANGED <<points, exclusion, nocross, disabled, asked>>
AddExclusion(q) ==
  /\ Undrawn
  /\ exclusion' = q
  /\ UNCHANGED <<points, boundary, nocross, disabled, asked>>
AddNoCrossLine(q) ==
  /\ Undrawn
  /\ nocross' = q
  /\ UNCHANGED <<points, boundary, exclusion, disabled, asked>>
(* show_surface: a click on a triangle of the preview of one class gives its
   number to disable_triangle. *)
DisableTriangle(type) ==
  /\ LET ts == Surface(points[type]) IN
     \E t \in ts : /\ Number(t, ts) <= MaxDisabled
                 /\ disabled' = disabled \cup {Number(t, ts)}
  /\ asked' = asked \cup {type}
  /\ UNCHANGED <<points, geometry>>

Next ==
  \/ \E type \in Types, place \in Grid : ApprovePoint(type, place)
  \/ \E type \in Types : \E i \in DOMAIN points[type] : RejectPoint(type, i)
  \/ \E q \in Boundaries : SetBoundary(q)
  \/ \E q \in Polygons : AddExclusion(q)
  \/ \E q \in Lines : AddNoCrossLine(q)
  \/ \E type \in Types : DisableTriangle(type)

Spec == Init /\ [][Next]_vars

------------------------------------------------------------------------------
(* Definitions to measure the algorithm by: the area of the convex hull, and
   convex polygons that overlap, which no edge of either separates. *)
OnHull(e, s) == e[1] # e[2] /\ \A p \in s : Area2(e[1], e[2], p) >= 0
HullArea2(s) ==
  LET c == CHOOSE p \in s : TRUE
      hull == {e \in s \X s : OnHull(e, s) /\ ~\E p \in s \ {e[1], e[2]} :
                 Area2(e[1], e[2], p) = 0 /\ (p[1] - e[1][1]) * (p[1] - e[2][1]) + (p[2] - e[1][2]) * (p[2] - e[2][2]) < 0}
  IN  FoldLeft(LAMBDA n, e : n + Area2(c, e[1], e[2]), 0, SetToSeq(hull))
AreaOf(ts, vs) == FoldLeft(LAMBDA n, t : n + Magnitude(Area2(vs[t[1]], vs[t[2]], vs[t[3]])), 0, SetToSeq(ts))

Separates(e, inner, outer) ==
  \/ (\A p \in inner : Area2(e[1], e[2], p) >= 0) /\ (\A p \in outer : Area2(e[1], e[2], p) <= 0)
  \/ (\A p \in inner : Area2(e[1], e[2], p) <= 0) /\ (\A p \in outer : Area2(e[1], e[2], p) >= 0)
Overlap(t, q) ==
  ~\E e \in ClosedEdges(t) \cup ClosedEdges(q) : Separates(e, Range(t), Range(q))

Fills(ts, vs) == Range(vs) = UNION {Range(At(vs, t)) : t \in ts} /\ AreaOf(ts, vs) = HullArea2(Range(vs))
(* A vertex of the super triangle is in a circle through three of the points. *)
Reached(vs) ==
  LET w == Work(vs)
  IN  \E a, b, c \in Range(vs) : \E i \in 1..3 : InCircle(a, b, c, w[i])
Plan(type) == Len(points[type]) >= 3 /\ HullArea2(Range(points[type])) > 0

(* In whatever order points come, on a line, on a circle, at the same place,
   almost on a line: no point is in the circle of a triangle and no two triangles
   cover the same ground.  Unless a circle of theirs reaches the super triangle,
   every place is the corner of a triangle and the triangles fill the hull. *)
SurfaceIsDelaunay ==
  \A type \in Types :
    LET vs == points[type]
        ts == Delaunay(vs)
    IN  Plan(type) =>
          /\ \A t \in ts : \A p \in Range(vs) : ~CircleOpen(vs[t[1]], vs[t[2]], vs[t[3]], p)
          /\ \A t, u \in ts : Before(t, u) => ~Overlap(At(vs, t), At(vs, u))
          /\ Fills(ts, vs) \/ Reached(vs)

(* The triangles fill the hull of the points wherever they are.  The super
   triangle is finite: of points almost on a line it takes the outer triangles
   with it, or all, and then the points are refused as collinear.
   The code does not keep this. *)
SurfaceFillsHull ==
  \A type \in Types : Plan(type) => Fills(Delaunay(points[type]), points[type])

Within(v, q) == \A e \in ClosedEdges(q) : Area2(e[1], e[2], v) >= 0  \* convex, anticlockwise
Apart(t, e)  == ~InTriangle(e[1], t) /\ ~InTriangle(e[2], t)

(* What a triangle that is left says of the reviewed geometry.  It covers no part
   of the exclusion, which may be in it, around it or across it; no side of the
   no-cross line or of the boundary passes through it from end to end; and it is
   within the boundary, unless a corner of the boundary is in the triangle. *)
GeometryHonored ==
  \A type \in Types : \A n \in Surface(points[type]) :
    LET t == At(points[type], n) IN
    /\ exclusion # <<>> => ~Overlap(t, exclusion)
    /\ \A e \in OpenEdges(nocross) \cup ClosedEdges(boundary) : Apart(t, e) => ~Overlap(t, e)
    /\ boundary # <<>> => (\A v \in Range(t) : Within(v, boundary)) \/ (\E v \in Range(boundary) : InTriangle(v, t))

(* A triangle that is left covers no ground outside of the reviewed boundary.
   One around the boundary is kept: only its centroid and its sides are looked at.
   The code does not keep this. *)
BoundaryIsLimit ==
  boundary # <<>> =>
    \A type \in Types : \A n \in Surface(points[type]) :
      \A v \in Range(At(points[type], n)) : Within(v, boundary)

(* The decision record: Existing and Design surfaces stay separate.  A surface
   in whose preview no triangle was disabled has none that is.
   The code does not keep this. *)
SurfacesStaySeparate ==
  \A type \in Types : type \notin asked => Disabled(points[type]) = {}
==============================================================================
