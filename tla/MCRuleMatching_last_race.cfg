SPECIFICATION Spec
CONSTANTS
    q1 = q1
    q2 = q2
    usual = usual
    once = once
    fallback = fallback
    NoRule = NoRule
    Request = {q1, q2}
    Rule <- ThreeRules
    Priority <- MCPriority
    PriorityUnit = 2
    Kind <- MCKind
    Times <- MCTimes
    MaxCalls = 4
    MaxGen = 0
    MaxBatch = 2
    MaxArrivals = 3
CHECK_DEADLOCK FALSE
INVARIANTS
    UnmatchedWhenComplete
