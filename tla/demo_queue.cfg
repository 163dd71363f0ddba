\* Three journeys through the queue, under two policies, with timers that fire.
CONSTANTS
    j1 = j1
    j2 = j2
    j3 = j3
    source1 = source1
    source2 = source2
    SourceOf <- MCSourceOf
    CapabilityEnds <- MCCapabilityEnds
    EvidenceLifetime = 3
    DayLength = 2
    Journeys = {j1, j2, j3}
    Policies <- MCPolicies
    UnitPrices = {1}
    LastAsk = 1
    MaxTime = 3
    MaxUsage = 1
    MaxUpdates = 1
    MaxBoots = 1
SPECIFICATION FairDemoSpec
INVARIANTS
    WaitersHoldNothing
PROPERTIES
    BudgetHolds
    WaitersAreAnswered
\* Past MaxTime, with the last process stopped, nothing is left to do.
CHECK_DEADLOCK FALSE
