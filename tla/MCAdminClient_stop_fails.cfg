SPECIFICATION FairSpec
CONSTANTS
    c1 = c1
    c2 = c2
    c3 = c3
    c4 = c4
    s1 = s1
    s2 = s2
    None = None
    CallSeq <- TwoCalls
    SessionSeq <- OneSession
    MaxParallel = 1
    Attempts = 1
    Word = {"a", "b"}
    Callback = {"f", "g"}
    RuleParam = {"known"}
    JsonWord = {"a"}
    Boundary = "|"
CHECK_DEADLOCK FALSE
PROPERTIES
    StoppedIsRestartable
