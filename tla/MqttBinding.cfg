SPECIFICATION FairSpec
CONSTANTS
    Events <- MCEvents
    JoinEvents <- MCJoinEvents
    UnjoinEvent = "deadvertise"
    Topic <- MCTopic
    BadTopic = {"badTopic"}
    BadPayload = {"bad"}
    Subs <- MCSubs
    BadSubs <- MCBadSubs
    MaxPublish = 2
    MaxLosses = 2
INVARIANTS
    SessionConsistent
    PublicationsInOrder
    JoinEventsFirst
    UnjoinSeenLast
PROPERTIES
    ImplementsLifecycle
    QueueDrains
\* A binding is used once: after unjoining it stops for good.
CHECK_DEADLOCK FALSE
