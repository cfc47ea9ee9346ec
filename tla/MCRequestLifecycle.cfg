SPECIFICATION FairSpec
CONSTANTS
    q1 = q1
    Request = {q1}
    MaxEpoch = 1
    MaxSteps = 3
CHECK_DEADLOCK FALSE
INVARIANTS
    StepsAnswerOnce
    EventsAreTrue
    NothingFromBeforeReset
PROPERTIES
    ClosedGetsOutcome
    ImplementsOutcome
