SPECIFICATION Spec
CONSTANTS
    w1 = w1
    w2 = w2
    c1 = c1
    c2 = c2
    t1 = t1
    t2 = t2
    QuotaWorkers = {w1, w2}
    QuotaSetups <- MCQuotaSetups
    BurstWindow = 2
    SustainedWindow = 4
    KeySetups <- MCKeySetups
    MaxKeyTime = 3
    Connections = {c1, c2}
    ApiSetups <- MCApiSetups
    AddressBits = 3
    AuthFailureLimit = 2
    AuthWindow = 2
    ThrottlePeers = 1
    AuditCapacity = 2
    ListenerSetups <- MCListenerSetups
    SourceIdLimit = 2
    SourceDivisor = 2
    MaxSources = 1
    SourceTtl = 2
    QueueCapacity = 2
    QueueMaxBytes = 3
    AuthWorkers = {w1, w2}
    AuthSetups <- MCAuthSetups
    MetadataRefresh = 1
    MetadataTtl = 2
    MetadataCapacity = 1
    TcpConnections = {t1, t2}
    BootRequests = {1, 2}
    BootSetups <- MCBootSetups
    TransportSetups <- MCTransportSetups
    TransportRequests = {1, 2}
INVARIANTS
    
    KeySourcesHold
    ControlApiHolds
    
    ExternalAuthHolds
    
    
SYMMETRY Symmetry
CHECK_DEADLOCK FALSE
