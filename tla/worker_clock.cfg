\* ADR-0019's threshold with no condition on the clock.
CONSTANTS
    Sessions = {s1}
    ExecutionIds = {e1}
    Digests = {d1}
    InitialBudgets <- MCPolicyBudgets
    WindowSeconds = 1
    RepeatThreshold = 3
    MaxRequested = 1
    MaxTime = 2
    MaxBoots = 1
    MaxEvents = 4
    MaxAudits = 0
    MaxReservations = 0
SPECIFICATION Spec
INVARIANTS
    ThirdInWindowRevokesOnAnyClock
