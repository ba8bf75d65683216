SPECIFICATION Spec
CONSTANTS
    Agents = {"A", "B"}
    IoNodes <- MCIoNodes
    Contexts = {"c1", "c2"}
    RuleSets <- MCRuleSets
    AnyType = ""
    NoRoute = "none"
    MaxRestarts = 2
    LateWills = FALSE
    MaxEvents = 3
INVARIANTS
    RouterConsistent
    AssociationsEstablished
    NoGhostAssociations
\* The number of events is bounded.
CHECK_DEADLOCK FALSE
