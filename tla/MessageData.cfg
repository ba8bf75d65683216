SPECIFICATION Spec
CONSTANTS
  Collate <- MCCollate
  CodeUnits <- MCCodeUnits
  IsNumeral <- MCIsNumeral
  MaxTopicBytes = 10
  Values <- MCValues
  Scalars <- MCScalars
  Patterns <- MCPatterns
  Texts <- MCTexts
  TopicArgs <- MCTopicArgs
  FilterArgs <- MCFilterArgs
  TopicNames <- MCTopicNames
  TopicFilters <- MCTopicFilters
  Published <- MCPublished
  Subscribed <- MCSubscribed
  UnitSequences <- MCUnitSequences
  SortedSources <- MCSortedSources
  Items <- MCItems
  Conditions <- MCConditions
  DbConditions <- MCDbConditions
  DbObjects <- MCDbObjects
  ObjectTypes <- MCObjectTypes
  Objects <- MCObjects
  EventData <- MCEventData
  Discovers <- MCValidDiscovers
  Queries <- MCValidQueries
INVARIANTS
    ConditionsAsDocumented
    TopicsAsPublished
    SearchIsCorrect
    EventsStayValid
CHECK_DEADLOCK FALSE
