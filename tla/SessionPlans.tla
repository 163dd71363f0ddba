----------------------------- MODULE SessionPlans -----------------------------
(***************************************************************************)
(* The plan-bound authority of one session: the session_plans,             *)
(* plan_executions and pending_plan_requests tables and the operations of  *)
(* the SessionPlans class, each run inside the owning store's immediate    *)
(* transaction and so one action here.  Every query of the class selects   *)
(* on session_id, so one session is all there is to model.                 *)
(*                                                                         *)
(* A request is an element of Requests with the attributes the checks read *)
(* (its operation, the exact pull request and head it names, whether its   *)
(* mission, profile and policy versions are the session's).  A plan's      *)
(* content is an element of PlanContents.                                  *)
(***************************************************************************)
EXTENDS Integers, Sequences, FiniteSets

CONSTANTS
    Requests,      \* canonical requests, one per request_id
    Mutations,     \* those whose operation is github.pull_request.merge
    Misbound,      \* those that carry another mission, profile or policy
    Resources,     \* a pull request of a connection at an exact head commit
    ResourceOf,    \* the resource each request names
    Bases,         \* base branches
    PlanContents,  \* the plans an operator may confirm
    SessionEnd,    \* expires_at of the session
    MaxPending,    \* the 32 entries of the pending queue
    MaxGrants,     \* bound: plan versions
    MaxTime        \* bound: last value of the clock

\* An unset optional argument, column or row.
None == "none"

\* A plan's targets give the base branch expected of each operation and
\* resource it names; None where it names no such target.
PlanRecords ==
    [targets: [{"read", "merge"} \X Resources -> Bases \cup {None}],
     maxActions: Nat, maxMutations: Nat, expiresAt: Nat]

ASSUME RequestsAssumption ==
    /\ Mutations \subseteq Requests
    /\ Misbound \subseteq Requests
    /\ ResourceOf \in [Requests -> Resources]
    /\ None \notin Resources
ASSUME PlansAssumption ==
    /\ PlanContents \subseteq PlanRecords
    /\ None \notin Bases
    /\ \A p \in PlanContents : p.expiresAt <= SessionEnd
ASSUME SessionPlansBounds ==
    SessionEnd \in Nat /\ MaxPending \in Nat /\ MaxGrants \in Nat /\ MaxTime \in Nat

BlockReasons == {"binding_mismatch", "revoked", "expired", "out_of_plan",
                 "resource_changed", "replayed", "exhausted"}
\* What the broker may ask to defer.
DeferReasons == {"guardian_step_up", "guardian_denied", "guardian_unavailable",
                 "guardian_confirmation_required", "resource_changed"}
PendingReasons == BlockReasons \cup DeferReasons

GrantRows == [plan: PlanContents, revoked: BOOLEAN, usedActions: Nat, usedMutations: Nat]
ExecutionRows == [request: Requests, version: Nat, key: Resources \cup {None}]

VARIABLES
    clock,           \* the store's clock
    sessionActive,   \* sessions.status = 'active'
    connected,       \* the session's connection is active
    grants,          \* session_plans, in version order: version v is grants[v]
    planExecutions,  \* plan_executions
    pending          \* pending_plan_requests: the reason first recorded, or None

planTables == <<grants, planExecutions, pending>>
planVars == <<clock, sessionActive, connected, planTables>>

PlansInit ==
    /\ clock = 0
    /\ sessionActive = TRUE
    /\ connected = TRUE
    /\ grants = <<>>
    /\ planExecutions = {}
    /\ pending = [r \in Requests |-> None]

-----------------------------------------------------------------------------
Operation(r) == IF r \in Mutations THEN "merge" ELSE "read"
Version == Len(grants)          \* of the latest grant, the only one get reads
Grant == grants[Version]

\* Base branch of the target of the latest plan that matches a request.
TargetBase(r) == Grant.plan.targets[<<Operation(r), ResourceOf[r]>>]

MutationKey(r) == IF r \in Mutations THEN ResourceOf[r] ELSE None

\* Faulty variant: a replacement grant forgets what its predecessors ran.
ReplayedUnderThisGrant(r) ==
    \E e \in planExecutions :
        e.version = Version /\ (e.request = r \/ (e.key # None /\ e.key = MutationKey(r)))

\* A prior execution of the request, or of another request for the same
\* mutation, under any version of the plan.
Replayed(r) ==
    \E e \in planExecutions :
        e.request = r \/ (e.key # None /\ e.key = MutationKey(r))

\* Faulty variant: the ceiling itself may still be passed.
PastCeiling(r) ==
    \/ Grant.usedActions > Grant.plan.maxActions
    \/ r \in Mutations /\ Grant.usedMutations > Grant.plan.maxMutations

Exhausted(r) ==
    \/ Grant.usedActions >= Grant.plan.maxActions
    \/ r \in Mutations /\ Grant.usedMutations >= Grant.plan.maxMutations

\* Faulty variant: the plan's own expiry is left to the session's.
SessionExpired == clock >= SessionEnd

Expired == clock >= Grant.plan.expiresAt \/ clock >= SessionEnd

\* Faulty variant: whichever grant is the latest will do.
AnyGrant(expected) == FALSE

OtherGrant(expected) == expected # 0 /\ expected # Version

\* The verdict of check for the phases inspect and consume: the early returns
\* of the code, in their order.  expected is a grant version or 0 for an
\* absent expectedGrantId, observed a base branch or None.
Verdict(r, phase, expected, observed) ==
    IF Version = 0 THEN "absent"
    ELSE IF \/ ~sessionActive
            \/ r \in Misbound
            \/ OtherGrant(expected) THEN "binding_mismatch"
    ELSE IF Grant.revoked THEN "revoked"
    ELSE IF Expired THEN "expired"
    ELSE IF TargetBase(r) = None THEN "out_of_plan"
    ELSE IF ~connected THEN "binding_mismatch"
    ELSE IF observed # None /\ observed # TargetBase(r) THEN "resource_changed"
    ELSE IF /\ phase = "consume"
            /\ expected = 0 \/ (r \in Mutations /\ observed = None) THEN "binding_mismatch"
    ELSE IF Replayed(r) THEN "replayed"
    ELSE IF Exhausted(r) THEN "exhausted"
    ELSE "allowed"

\* Faulty variants: the status is recorded instead of the reason; a later
\* proposal replaces the first.
BlockedStatus(r, reason) ==
    /\ pending' = [pending EXCEPT ![r] = "blocked"]
    /\ UNCHANGED <<grants, planExecutions>>
LatestReason(r, reason) ==
    /\ pending' = [pending EXCEPT ![r] = reason]
    /\ UNCHANGED <<grants, planExecutions>>

\* block: the first reason recorded for a request stays, and a full queue
\* records nothing more.
Block(r, reason) ==
    /\ pending' = IF /\ Cardinality({q \in Requests : pending[q] # None}) < MaxPending
                     /\ pending[r] = None
                  THEN [pending EXCEPT ![r] = reason]
                  ELSE pending
    /\ UNCHANGED <<grants, planExecutions>>

\* A grant charged with one action, a mutation or not.
Charged(g, r) ==
    [g EXCEPT !.usedActions = g.usedActions + 1,
              !.usedMutations = IF r \in Mutations THEN g.usedMutations + 1
                                                   ELSE g.usedMutations]

\* check with phase inspect or consume: what it writes, given its verdict.
Check(r, phase, expected, observed) ==
    LET verdict == Verdict(r, phase, expected, observed) IN
    \/ /\ verdict \in BlockReasons
       /\ Block(r, verdict)
    \/ /\ verdict = "allowed" /\ phase = "consume"
       /\ planExecutions' = planExecutions \cup
            {[request |-> r, version |-> Version, key |-> MutationKey(r)]}
       /\ grants' = [grants EXCEPT ![Version] = Charged(@, r)]
       /\ pending' = [pending EXCEPT ![r] = None]
    \/ /\ verdict = "absent" \/ (verdict = "allowed" /\ phase = "inspect")
       /\ UNCHANGED planTables

\* check with phase defer.
Defer(r, reason) ==
    \/ Version = 0 /\ UNCHANGED planTables
    \/ Version # 0 /\ Block(r, reason)

-----------------------------------------------------------------------------
\* store: the next version of the plan, for an active session inside the
\* plan's own window.  A development confirmation is at most 30 seconds old:
\* the issuer checked the same, and an age is no state of the store.
Store(plan) ==
    /\ sessionActive
    /\ connected
    /\ clock < plan.expiresAt
    /\ Version < MaxGrants
    /\ grants' = Append(grants,
            [plan |-> plan, revoked |-> FALSE, usedActions |-> 0, usedMutations |-> 0])
    /\ UNCHANGED <<clock, sessionActive, connected, planExecutions, pending>>

\* revoke: by grant id, whether or not it is the latest grant.
Revoke(v) ==
    /\ ~grants[v].revoked
    /\ grants' = [grants EXCEPT ![v] = [@ EXCEPT !.revoked = TRUE]]
    /\ UNCHANGED <<clock, sessionActive, connected, planExecutions, pending>>

CheckStep(r, phase, expected, observed) ==
    /\ Check(r, phase, expected, observed)
    /\ UNCHANGED <<clock, sessionActive, connected>>

DeferStep(r, reason) ==
    /\ Defer(r, reason)
    /\ UNCHANGED <<clock, sessionActive, connected>>

\* Any operation of the store that ends the session, and revokeConnection.
EndSession ==
    /\ sessionActive
    /\ sessionActive' = FALSE
    /\ UNCHANGED <<clock, connected, planTables>>

RevokeConnection ==
    /\ connected
    /\ connected' = FALSE
    /\ UNCHANGED <<clock, sessionActive, planTables>>

PlansTick ==
    /\ clock < MaxTime
    /\ clock' = clock + 1
    /\ UNCHANGED <<sessionActive, connected, planTables>>

PlansNext ==
    \/ \E plan \in PlanContents : Store(plan)
    \/ \E v \in DOMAIN grants : Revoke(v)
    \/ \E r \in Requests, observed \in Bases \cup {None}, expected \in 0..MaxGrants :
            \E phase \in {"inspect", "consume"} : CheckStep(r, phase, expected, observed)
    \/ \E r \in Requests, reason \in DeferReasons : DeferStep(r, reason)
    \/ EndSession
    \/ RevokeConnection
    \/ PlansTick

PlansSpec == PlansInit /\ [][PlansNext]_planVars

-----------------------------------------------------------------------------
(* Properties.                                                             *)

PlansTypeOK ==
    /\ clock \in Nat
    /\ sessionActive \in BOOLEAN
    /\ connected \in BOOLEAN
    /\ grants \in Seq(GrantRows)
    /\ planExecutions \subseteq ExecutionRows
    /\ pending \in [Requests -> PendingReasons \cup {None}]

Under(v) == {e \in planExecutions : e.version = v}

\* The counters of every version, superseded and revoked ones included, agree
\* with its execution rows and never pass the ceilings the operator confirmed.
CeilingsHold ==
    \A v \in DOMAIN grants :
        /\ grants[v].usedActions = Cardinality(Under(v))
        /\ grants[v].usedMutations = Cardinality({e \in Under(v) : e.key # None})
        /\ grants[v].usedActions <= grants[v].plan.maxActions
        /\ grants[v].usedMutations <= grants[v].plan.maxMutations

\* A replacement grant renews the ceilings, never an execution: one row per
\* request and one per pull request and head over all versions (ADR-0048: a
\* second merge is rejected even with a new request ID or replacement grant).
ExecutedOnce ==
    \A e, f \in planExecutions :
        e.request = f.request \/ (e.key # None /\ e.key = f.key) => e = f

\* An execution is consumed only from the latest grant, unrevoked and in
\* force, for a target that grant names, while session and connection are
\* active.
ConsumedInForce ==
    [][\A e \in planExecutions' \ planExecutions :
        /\ e.version = Version
        /\ ~Grant.revoked
        /\ clock < Grant.plan.expiresAt
        /\ sessionActive /\ connected
        /\ e.request \notin Misbound
        /\ TargetBase(e.request) \in Bases]_planVars

\* The pending queue keeps the first proposal of a request: an entry changes
\* only when the request is executed, and the queue never passes its bound.
PendingIsImmutable ==
    [][/\ \A r \in Requests :
            pending[r] # None /\ pending'[r] # pending[r] =>
                /\ pending'[r] = None
                /\ \E e \in planExecutions' \ planExecutions : e.request = r
       /\ Cardinality({r \in Requests : pending'[r] # None}) <= MaxPending]_planVars
=============================================================================
