SPECIFICATION FairSpec
CONSTANTS
    c1 = c1
    c2 = c2
    c3 = c3
    c4 = c4
    s1 = s1
    s2 = s2
    None = None
    CallSeq <- FourCalls
    SessionSeq <- TwoSessions
    MaxParallel = 2
    Attempts = 2
    Word = {"a", "b"}
    Callback = {"f", "g"}
    RuleParam = {"known"}
    JsonWord = {"a"}
    Boundary = "|"
CHECK_DEADLOCK FALSE
INVARIANTS
    RemoteMeansSame
    RunningIsConnected
    ShutdownStopsOwnSession
PROPERTIES
    CallsEnd
    LossIsHeard
