SPECIFICATION Spec
CONSTANTS
    a1 = a1
    a2 = a2
    a3 = a3
    b1 = b1
    ipA = ipA
    ipB = ipB
    Sessions <- MCSessions
    Ips <- MCIps
    IpOf <- MCIpOf
    kMaxAttempts = 3
    kBlockSecs = 2
    MaxFailures = 8
PROPERTY BlockServesTerm
