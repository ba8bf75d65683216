SPECIFICATION Spec
CONSTANTS
    Subscribers = {s1, s2, s3, s4}
    MaxItems = 3
    HoldObservables = FALSE
    UnsubscribeOthers = FALSE
INVARIANTS
    ObserversServed
    DeliveredOnce
\* Each subscriber is used once and the number of items is bounded.
CHECK_DEADLOCK FALSE
