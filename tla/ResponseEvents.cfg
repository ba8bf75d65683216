SPECIFICATION Spec
CONSTANTS
  Subscribers = {s1, s2}
  s1 = s1
  s2 = s2
  Internal <- MCInternal
  Objects = {o1, o2}
  Suiting = {o1}
  o1 = o1
  o2 = o2
  MaxRequests = 2
  MaxSessions = 2
  ResolveInCallbacks = FALSE
  HoldObservables = FALSE
SYMMETRY Symmetry
INVARIANTS
    RequestsConsistent
    CallersServed
    CacheConsistent
PROPERTIES
    LateResponsesDropped
CHECK_DEADLOCK FALSE
