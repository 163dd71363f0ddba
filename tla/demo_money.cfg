\* A judge pool: two journeys, their usage and its price, new policies and a crash.
CONSTANTS
    j1 = j1
    j2 = j2
    j3 = j3
    source1 = source1
    source2 = source2
    SourceOf <- MCSourceOf
    CapabilityEnds <- MCCapabilityEnds
    EvidenceLifetime = 3
    DayLength = 3
    Journeys = {j1, j2}
    Policies <- MCJudgePolicies
    UnitPrices = {1, 2}
    LastAsk = 3
    MaxTime = 4
    MaxUsage = 2
    MaxUpdates = 1
    MaxBoots = 2
SPECIFICATION DemoSpec
INVARIANTS
    DemoTypeOK
    MeteredIsCharged
    CollectorsFollowLedger
PROPERTIES
    TerminalIsFinal
\* Past MaxTime, with the last process stopped, nothing is left to do.
CHECK_DEADLOCK FALSE
