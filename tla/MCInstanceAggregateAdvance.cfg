SPECIFICATION AggregateSpec
CONSTANT MaxRevision = 12
PROPERTY AdvancesOnlyConfirmed
CHECK_DEADLOCK FALSE
