\* Drags and hit tests; the user may stop for good.
SPECIFICATION FairSpec
CONSTANTS
  p1 = p1
  p2 = p2
  Point = {p1, p2}
  MaxInputs = 5
INVARIANTS
  TypeOK
  AckPendingIsExact
  OneHitTestOutstanding
  DragsAreWellFormed
PROPERTIES
  DragEndIsDelivered
  RestingCursorIsReported
  HitTestCatchesUp
CHECK_DEADLOCK FALSE
