SPECIFICATION AggregateSpec
CONSTANT MaxRevision = 12
INVARIANT AggregateTypeOK
PROPERTY FencedForever
CHECK_DEADLOCK FALSE
