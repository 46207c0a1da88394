\* Safety and liveness of in-process loads; the requests may simply end.
SPECIFICATION FairSpec
CONSTANTS
  r1 = r1
  r2 = r2
  NoRequest = NoRequest
  Request = {r1, r2}
  MaxData = 2
INVARIANTS
  TypeOK
  RefCountIsBalanced
  CompletionIsFaithful
PROPERTIES
  PeerIsCalledInOrder
  LoaderIsCanceledWhileLoading
  ContextIsDeleted
  RequestCompletes
CHECK_DEADLOCK FALSE
