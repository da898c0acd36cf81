CONSTANT MaxOrphans = 2
SPECIFICATION Spec
INVARIANTS TypeOK CloseReturnsClean OneStreamEach
PROPERTY CloseEnds
CHECK_DEADLOCK FALSE
