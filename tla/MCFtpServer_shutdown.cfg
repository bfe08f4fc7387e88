SPECIFICATION FairSpec
CONSTANTS
    Conns = {c1}
    PoolSize = 2
    MaxClients = 1
CHECK_DEADLOCK FALSE
PROPERTY ShutdownCompletes
