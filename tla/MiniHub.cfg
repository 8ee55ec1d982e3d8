SPECIFICATION Spec
CONSTANTS
  Pages = {p1}
  MaxQueue = 2
INVARIANTS
  TypeOK
  SketchAgrees
PROPERTIES
  ActiveIsEnabled
  ModeEnds
  PagesCatchUp
CHECK_DEADLOCK FALSE
