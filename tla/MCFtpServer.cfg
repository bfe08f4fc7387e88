SPECIFICATION FairSpec
CONSTANTS
    Conns = {c1, c2}
    PoolSize = 1
    MaxClients = 1
CHECK_DEADLOCK FALSE
INVARIANTS TypeOK ActiveAccounts ConnectionsAccounted PoolOutlivesShutdown
PROPERTIES CompleteMeansQuiet QueuedServed CtrlCCompletes
