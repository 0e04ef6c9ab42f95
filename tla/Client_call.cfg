\* One caller, while the weight rules and the retry rules are replaced once.
CONSTANTS
    Callers = {c1}
    Resource <- MCResource
    Requests <- MCRequests
    Setups <- MCSetups
    NodesOf <- MCNodesOf
    WeightLists <- MCWeightLists
    RetryLists <- MCRetryLists
    StringOrder <- MCStringOrder
    NumberOf <- MCNumberOf
    DefaultWeight = 2
    MaxInt64 = 9
    DefaultTimeout = 2
    MaxLoads = 1
    MaxCalls = 9
SPECIFICATION Spec
INVARIANTS DrainedNodeAvoided AnsweredWithinPolicy
CHECK_DEADLOCK FALSE
