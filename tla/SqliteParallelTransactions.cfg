SPECIFICATION FairSpec
CONSTANTS
    Callers <- TwoCallers
    Adapters = {"sqlite"}
    PoolSize = 1
    InitialRows <- NoRows
    MaxWrites = 2
    RowsPerCaller = 10
    MaxFailures = 0
    FetchSize = 2
    Options <- QueryOptions
    NoQuery = NoQuery
INVARIANTS
    ParallelAtomic
CHECK_DEADLOCK FALSE
