\* Two uses of the credential, the commands that write it and both custodies.
CONSTANTS
    Users = {u1, u2}
    MaxPairs = 3
    MaxKeys = 1
    FirstAge = 2
    MaxTime = 2
    AccessLife = 4
    RefreshLife = 4
SPECIFICATION Spec
SYMMETRY UserSymmetry
CONSTRAINT Explored
VIEW StateView
INVARIANTS
    VouchedTokenInForce
PROPERTIES
    TokenInForce
    ReportsAreTrue
CHECK_DEADLOCK FALSE
