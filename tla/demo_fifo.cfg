\* ADR-0044's order of admission.
CONSTANTS
    j1 = j1
    j2 = j2
    j3 = j3
    source1 = source1
    source2 = source2
    SourceOf <- MCSourceOf
    CapabilityEnds <- MCCapabilityEnds
    EvidenceLifetime = 3
    DayLength = 2
    Journeys = {j1, j2, j3}
    Policies <- MCPatientPolicy
    UnitPrices = {1}
    LastAsk = 2
    MaxTime = 2
    MaxUsage = 0
    MaxUpdates = 0
    MaxBoots = 1
SPECIFICATION FairDemoSpec
PROPERTIES
    FifoAdmission
CHECK_DEADLOCK FALSE
