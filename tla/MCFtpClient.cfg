SPECIFICATION FairSpec
CONSTANT MaxOps = 5
CHECK_DEADLOCK FALSE
INVARIANTS TypeOK InSync
PROPERTIES OperationsReturn SessionFreed
