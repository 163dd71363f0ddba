\* Replacement grants, revocations, checks and a small pending queue.
CONSTANTS
    merge1 = merge1
    merge2 = merge2
    merge3 = merge3
    read1 = read1
    stale1 = stale1
    pr1 = pr1
    pr2 = pr2
    main = main
    other = other
    Requests <- MCRequests
    Mutations <- MCMutations
    Misbound = {stale1}
    Resources <- MCResources
    ResourceOf <- MCResourceOf
    Bases <- MCBases
    PlanContents <- MCPlanContents
    SessionEnd = 2
    MaxPending = 1
    MaxGrants = 2
    MaxTime = 2
SPECIFICATION PlansSpec
INVARIANTS
    PlansTypeOK
    CeilingsHold
    ExecutedOnce
PROPERTIES
    ConsumedInForce
    PendingIsImmutable
