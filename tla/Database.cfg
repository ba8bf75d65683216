SPECIFICATION FairSpec
CONSTANTS
    Undefined = Undefined
    NaN = NaN
    NoConditions = NoConditions
    NoJoin = NoJoin
    Names = {"a"}
    Writes <- WrittenObjects
    Values = {1, Undefined}
    Filters <- QueryFilters
    Joins <- JoinConditions
    QueryJoins <- OneJoin
    Budgets <- ApplicationOrHistorian
    MaxBatch = 2
    Collection = "a"
    Times = {1, 2}
    TimeFrames <- UntilOne
    States = {1, 2}
INVARIANTS
    QueriesAsDocumented
    HistorianFaithful
PROPERTIES
    WritesReported
    JobsEnd
CHECK_DEADLOCK FALSE
