SPECIFICATION FairSpec
CONSTANTS
    s1 = s1
    s2 = s2
    c1 = c1
    Server = {s1, s2}
    Self = s1
    Connection = {c1}
    Port = {1, 2}
    PortRange = {1}
    NoPort = 0
    NoServer = None
    None = None
    MaxRetries = 2
    MaxTunnels = 2
    Byte = {"a", "b"}
    Chunk <- SampleChunks
    MaxBytes = 3
CHECK_DEADLOCK FALSE
INVARIANTS
    FailuresWhole
    LastHopIsTold
    SocksAuthenticated
    PassthroughPaired
PROPERTIES
    PortsAsAsked
    ConnectionsSettle
