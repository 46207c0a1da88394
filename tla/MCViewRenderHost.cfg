\* A view that is destroyed before its page is committed.
SPECIFICATION Spec
CONSTANTS
  v1 = v1
  p1 = p1
  a = a
  b = b
  empty = empty
  t1 = t1
  t2 = t2
  none = none
  rph = rph
  ClientViews = {v1}
  HostViews = {p1}
  RenderHost = rph
  Rects = {empty, a, b}
  EmptyRect = empty
  Texts = {t1, t2}
  NoText = none
  MaxReqId = 2
  MaxCalls = 3
  MaxEvents = 1
INVARIANTS
  RenderHostOutlivesImpls
CHECK_DEADLOCK FALSE
