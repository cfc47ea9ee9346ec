SPECIFICATION FairSpec
CONSTANTS
    p1 = p1
    p2 = p2
    Session = {1, 2}
    Plugin = {p1, p2}
    Call = {1, 2}
CHECK_DEADLOCK FALSE
INVARIANTS
    RoutedSessionRuns
    StopsAreWhole
PROPERTIES
    StopsSettle
