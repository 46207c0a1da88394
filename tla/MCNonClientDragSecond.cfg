\* A drag begun before the end of the last one is acknowledged.
SPECIFICATION Spec
CONSTANTS
  p1 = p1
  p2 = p2
  Point = {p1, p2}
  MaxInputs = 6
INVARIANTS
  SecondDragIsIgnored
CHECK_DEADLOCK FALSE
