SPECIFICATION Spec
CONSTANTS
  Sensors = {s1, s2}
  s1 = s1
  s2 = s2
  SameThing = FALSE
  MaxIdentities = 2
  MaxUnderWay = 2
  MaxRequests = 3
  Sampled = {s1, s2}
  MaxDeferred = 1
  MaxLosses = 1
  Options = {}
SYMMETRY Symmetry
INVARIANTS
    ObserverConsistent
    SourcesTracked
    GoneSensorsRemoved
CHECK_DEADLOCK FALSE
