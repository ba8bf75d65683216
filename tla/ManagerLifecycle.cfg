SPECIFICATION FairAgentSpec
CONSTANTS
    MaxBindings = 4
    MaxDowns = 1
    Patient = TRUE
    Names = {"c1", "c2", "c3"}
    Components <- ComponentNames
    MaxControllers = 4
INVARIANTS
    ManagerConsistent
    ControllersTold
PROPERTIES
    PromisesKept
    RestartCompletes
\* A disposed manager stops for good; the number of bindings is bounded.
CHECK_DEADLOCK FALSE
