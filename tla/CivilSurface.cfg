SPECIFICATION Spec
CONSTANTS
  Types = {existing}
  Side = 2
  Far = 25
  MaxPoints = 4
  MaxDisabled = 1
  WithGeometry = TRUE
INVARIANTS SurfaceIsDelaunay GeometryHonored
CHECK_DEADLOCK FALSE
