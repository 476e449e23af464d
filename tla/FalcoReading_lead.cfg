CONSTANT MaxBatch = 3
SPECIFICATION ReadingSpec
INVARIANT CleanBodyIsRead
CHECK_DEADLOCK FALSE
