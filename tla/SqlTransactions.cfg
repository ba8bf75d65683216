SPECIFICATION FairSpec
CONSTANTS
    Callers <- TwoCallers
    Adapters = {"postgres", "sqlite"}
    PoolSize = 2
    InitialRows <- RowNumbers
    MaxWrites = 2
    RowsPerCaller = 10
    MaxFailures = 1
    FetchSize = 2
    Options <- QueryOptions
    NoQuery = NoQuery
INVARIANTS
    PoolConsistent
    Atomic
    QueriesYield
PROPERTIES
    CallsEnd
CHECK_DEADLOCK FALSE
