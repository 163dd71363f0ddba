\* The two scenes of MCWorkerAuthority.
CONSTANTS
    Sessions = {s1, s2}
    ExecutionIds = {e1, e2}
    Digests = {d1}
    InitialBudgets <- MCBudgets
    WindowSeconds = 1
    RepeatThreshold = 3
    MaxRequested = 2
    MaxTime = 2
    MaxBoots = 2
    MaxEvents = 4
    MaxAudits = 2
    MaxReservations = 1
SYMMETRY Symmetry
SPECIFICATION Spec
INVARIANTS
    TypeOK
    RevokedByLog
    ThirdInWindowRevokes
    AuditIsAccount
    NoSurvivorOfRestart
    BudgetConserved
    ClaimedOnce
PROPERTIES
    EndIsFinal
    ChargedInLifetime
CONSTRAINT Scene
\* The last boot allowed by MaxBoots may crash: nothing runs after it.
CHECK_DEADLOCK FALSE
