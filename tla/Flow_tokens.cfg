CONSTANTS
    c1 = c1
    c2 = c2
    h1 = h1
    h2 = h2
    Callers <- MCCallers
    Handlers <- MCHandlers
    Rules <- MCRules
    MaxCalls = 2
    MaxTime = 4
    MaxFaults = 1
SYMMETRY MCSymmetry
SPECIFICATION Spec
INVARIANT GrantsBounded
INVARIANT ThresholdInBounds
CHECK_DEADLOCK FALSE
