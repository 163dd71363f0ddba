\* Two executions race over one approval and a plan, or over two plans.
CONSTANTS
    merge1 = merge1
    read1 = read1
    pr1 = pr1
    moved = moved
    main = main
    other = other
    e1 = e1
    e2 = e2
    approval1 = approval1
    Requests = {merge1, read1}
    Mutations = {merge1}
    Misbound = {}
    OffScope = {}
    Resources = {pr1, moved}
    ResourceOf <- MCResourceOf
    Bases = {main, other}
    PlanContents <- MCPlanContents
    Execs = {e1, e2}
    Approvals = {approval1}
    ApprovedRequest <- MCApprovedRequest
    ApprovalLifetime = 1
    Answers <- MCAnswers
    ToolCalls = 2
    SessionEnd = 2
    MaxPending = 0
    MaxGrants = 2
    MaxTime = 1
SPECIFICATION BrokerSpec
SYMMETRY ExecSymmetry
CONSTRAINT Explored
INVARIANTS
    EffectsAccounted
    DecisionsTruthful
    DefiniteDenial
PROPERTIES
    EffectsAuthorized
    NoPlanSwitch
\* A merged pull request and finished executions leave nothing to do.
CHECK_DEADLOCK FALSE
