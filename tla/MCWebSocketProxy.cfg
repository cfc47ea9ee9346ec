SPECIFICATION FairSpec
CONSTANTS
    CloseCode = {1000, 3001}
    BadCode = {1005, 1006}
    MaxMessages = 1
CHECK_DEADLOCK FALSE
INVARIANTS
    OneOutcome
    CodesNotInvented
PROPERTIES
    UpstreamFollowsClient
