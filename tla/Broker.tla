-------------------------------- MODULE Broker --------------------------------
(***************************************************************************)
(* GitHubBroker.execute against the authority store, GitHub and a Guardian *)
(* that may answer late: one session's broker runs several executions at   *)
(* once, each split at every await.  Between two awaits of one execution   *)
(* the others advance, plans are stored and revoked, approvals issued, the *)
(* session or its connection ends, the pull request changes and time       *)
(* passes.                                                                 *)
(*                                                                         *)
(* A call to the authority service may be lost before it took effect       *)
(* (CallLost) or lose its reply after it did (replied = FALSE); the client *)
(* makes no retries, so either ends the execution as audit_unavailable.  A *)
(* PUT is a message: the broker's ten-second timeout does not recall it.   *)
(* A broker process that dies is executions that take no further step,     *)
(* which BrokerSpec, without fairness, allows anywhere.                    *)
(***************************************************************************)
EXTENDS SessionPlans, Guardian

CONSTANTS
    Execs,            \* executions of the broker: bound on their number
    Approvals,        \* exact approvals, by approval_id
    ApprovedRequest,  \* the request whose digest each approval carries
    ApprovalLifetime, \* lifetimeSeconds
    OffScope,         \* requests outside the connection's repository and permissions
    ToolCalls         \* the session's tool-call budget

ASSUME BrokerAssumption ==
    /\ ApprovedRequest \in [Approvals -> Requests]
    /\ OffScope \subseteq Requests
    /\ None \notin Execs \cup Approvals \cup Requests \cup Resources
    /\ Approvals \cap Resources = {}
    /\ ToolCalls \in Nat /\ ApprovalLifetime \in Nat
    /\ SessionEnd > 0    \* a session expires after it starts

VARIABLES
    exec,       \* per execution, the local variables of execute
    approvals,  \* the approvals table
    toolCalls,  \* remaining_tool_calls
    attempts,   \* authority_attempts
    decisions,  \* authority_decisions
    pull,       \* the pull request at GitHub
    puts        \* per execution, the PUT it sent

approvalVars == <<approvals, toolCalls>>
recordVars == <<attempts, decisions>>
githubVars == <<pull, puts>>
storeVars == <<planVars, approvalVars, recordVars>>
brokerVars == <<storeVars, exec, githubVars>>

\* BrokerDenialCode; ok stands for an allowed result.
DenialCodes ==
    {"guardian_confirmation_required", "guardian_step_up", "guardian_denied",
     "guardian_unavailable", "not_active", "connection_unavailable", "scope_mismatch", "volume_exhausted",
     "resource_changed", "approval_mismatch", "approval_expired", "approval_replayed",
     "not_mergeable", "audit_unavailable", "provider_failed"}

\* planDenial
PlanDenial(reason) ==
    CASE reason = "expired" -> "approval_expired"
      [] reason = "revoked" -> "not_active"
      [] reason = "exhausted" -> "volume_exhausted"
      [] reason = "replayed" -> "approval_replayed"
      [] reason = "resource_changed" -> "resource_changed"
      [] OTHER -> "scope_mismatch"

InWindow == sessionActive /\ clock < SessionEnd

BrokerInit ==
    /\ PlansInit
    /\ exec = [e \in Execs |->
            [pc |-> "idle", request |-> None, approval |-> None, startedAt |-> 0,
             version |-> 0, guardian |-> "not_assessed", base |-> None, tool |-> FALSE,
             consumed |-> FALSE, code |-> None]]
    /\ approvals = [a \in Approvals |-> [state |-> "unissued", approvedAt |-> 0]]
    /\ toolCalls = ToolCalls
    /\ attempts = {}
    /\ decisions = {}
    /\ pull \in [head: Resources, base: Bases, state: {"open"}]
    /\ puts = [e \in Execs |-> "unsent"]

-----------------------------------------------------------------------------
(* Where an execution goes next.                                           *)

At(e, pc) == exec[e].pc = pc
RequestOf(e) == exec[e].request
Merges(e) == RequestOf(e) \in Mutations

\* deny: a code a plan may defer on is first offered to the pending queue.
Denied(row, code) ==
    [row EXCEPT !.pc = IF row.version # 0 /\ code \in DeferReasons THEN "defer" ELSE "decide",
                !.code = code]
\* The caller sees the code; the locals no property reads are dropped.
Returned(row, code) ==
    [row EXCEPT !.pc = "done", !.code = code,
                !.startedAt = 0, !.guardian = "not_assessed", !.base = None, !.tool = FALSE, !.consumed = FALSE]

Goto(e, pc) == exec' = [exec EXCEPT ![e].pc = pc]
Deny(e, code) == exec' = [exec EXCEPT ![e] = Denied(@, code)]
Return(e, code) == exec' = [exec EXCEPT ![e] = Returned(@, code)]

\* What a call leaves the execution with when its reply arrives or is lost.
Answered(e, replied, row) ==
    exec' = [exec EXCEPT ![e] = IF replied THEN row ELSE Denied(@, "audit_unavailable")]

-----------------------------------------------------------------------------
(* One execution, in program order.                                        *)

\* Up to getSession's answer; startedAt is evaluatedAt.  A caller has the
\* approvals that were issued, and one supplied with a read is not looked at.
Begin(e, r, a) ==
    /\ At(e, "idle")
    /\ a # None => r \in Mutations /\ approvals[a].state # "unissued"
    /\ LET row == [exec[e] EXCEPT !.request = r, !.approval = a, !.startedAt = clock] IN
       \/ exec' = [exec EXCEPT ![e] = Returned(row, "audit_unavailable")]
       \/ exec' = [exec EXCEPT ![e] =
            IF InWindow /\ r \notin Misbound THEN [row EXCEPT !.pc = "attempt"]
            ELSE Returned(row, "not_active")]
    /\ UNCHANGED <<storeVars, githubVars>>

\* Faulty variant: the attempt is appended without awaiting it.
AttemptInBackground(e, replied) ==
    /\ At(e, "attempt")
    /\ attempts' = IF replied THEN attempts \cup {e} ELSE attempts
    /\ Goto(e, "connections")
    /\ UNCHANGED <<planVars, approvalVars, decisions, githubVars>>

\* appendAuthorityAttempt, bound to evaluatedAt and not to the store's clock.
AppendAttempt(e, replied) ==
    /\ At(e, "attempt")
    /\ attempts' = attempts \cup {e}
    /\ IF replied THEN Goto(e, "connections") ELSE Return(e, "audit_unavailable")
    /\ UNCHANGED <<planVars, approvalVars, decisions, githubVars>>

GetConnections(e) ==
    /\ At(e, "connections")
    /\ IF ~connected THEN Deny(e, "connection_unavailable")
       ELSE IF RequestOf(e) \in OffScope THEN Deny(e, "scope_mismatch")
       ELSE Goto(e, "inspect")
    /\ UNCHANGED <<storeVars, githubVars>>

InspectPlan(e, replied) ==
    LET verdict == Verdict(RequestOf(e), "inspect", 0, None) IN
    /\ At(e, "inspect")
    /\ Check(RequestOf(e), "inspect", 0, None)
    /\ Answered(e, replied,
            IF verdict \in BlockReasons THEN Denied(exec[e], PlanDenial(verdict))
            ELSE [exec[e] EXCEPT !.pc = "guardian",
                                 !.version = IF verdict = "allowed" THEN Version ELSE 0])
    /\ UNCHANGED <<clock, sessionActive, connected, approvalVars, recordVars, githubVars>>

Floor(r) == IF r \in Mutations THEN "confirm" ELSE "allow"

\* What evaluate comes back with, per floor.  Every execution has a risk service
\* of its own, that is asked once: in its lifetime, or when that is over.
Turn == [startsAt |-> 0, expiresAt |-> 1, consumed |-> FALSE]
Opinions ==
    [floor \in {Floor(r) : r \in Requests} |->
        {Opinion(floor, Refusal([authorized |-> TRUE, requestedAt |-> 0], Turn, now), answers) :
            now \in 0..1, answers \in Answers \X Answers}]

\* guardianOutcome
OutcomeOf(floor, opinion) ==
    IF opinion.status = "unavailable" THEN "unavailable"
    ELSE IF ~opinion.certain THEN "uncertain"
    ELSE IF opinion.level = floor THEN "preserved" ELSE "escalated"

\* The code an opinion denies with; confirm is the floor of a merge and an
\* escalation of a read.
Objection(r, opinion) ==
    IF opinion.status = "unavailable" THEN "guardian_unavailable"
    ELSE IF opinion.level = "deny" THEN "guardian_denied"
    ELSE IF opinion.level = "step_up" THEN "guardian_step_up"
    ELSE IF opinion.level # Floor(r) THEN "guardian_confirmation_required"
    ELSE "ok"

EvaluateGuardian(e) ==
    LET r == RequestOf(e) IN
    /\ At(e, "guardian")
    /\ \E opinion \in Opinions[Floor(r)] :
        LET row == [exec[e] EXCEPT !.guardian = OutcomeOf(Floor(r), opinion)]
            code == Objection(r, opinion)
        IN exec' = [exec EXCEPT ![e] =
            IF code # "ok" THEN Denied(row, code)
            ELSE [row EXCEPT !.pc = IF Merges(e) /\ exec[e].version = 0
                                    THEN "approval" ELSE "charge"]]
    /\ UNCHANGED <<storeVars, githubVars>>

\* The supplied approval against the stored one, at evaluatedAt.
ApprovalVerdict(e) ==
    LET a == exec[e].approval IN
    IF a = None THEN "approval_mismatch"
    ELSE IF approvals[a].state = "consumed" THEN "approval_replayed"
    ELSE IF ApprovedRequest[a] # RequestOf(e) THEN "approval_mismatch"
    ELSE IF exec[e].startedAt >= approvals[a].approvedAt + ApprovalLifetime THEN "approval_expired"
    ELSE IF exec[e].startedAt < approvals[a].approvedAt THEN "not_active"
    ELSE "ok"

\* getApproval and getApprovalState.  Only the state changes, and only once.
ValidateApproval(e) ==
    /\ At(e, "approval")
    /\ IF ApprovalVerdict(e) = "ok" THEN Goto(e, "charge") ELSE Deny(e, ApprovalVerdict(e))
    /\ UNCHANGED <<storeVars, githubVars>>

Chargeable == toolCalls > 0 /\ InWindow

\* Faulty variant: toolConsumed set before the call is awaited.
MarksBeforeCharging(e, replied) ==
    /\ At(e, "charge")
    /\ toolCalls' = IF Chargeable THEN toolCalls - 1 ELSE toolCalls
    /\ exec' = [exec EXCEPT ![e] =
            LET row == [@ EXCEPT !.tool = TRUE] IN
            IF ~replied THEN Denied(row, "audit_unavailable")
            ELSE IF Chargeable THEN [row EXCEPT !.pc = "validate"]
            ELSE Denied(row, "volume_exhausted")]
    /\ UNCHANGED <<planVars, approvals, recordVars, githubVars>>

ConsumeToolCall(e, replied) ==
    /\ At(e, "charge")
    /\ toolCalls' = IF Chargeable THEN toolCalls - 1 ELSE toolCalls
    /\ Answered(e, replied,
            IF Chargeable THEN [exec[e] EXCEPT !.pc = "validate", !.tool = TRUE]
            ELSE Denied(exec[e], "volume_exhausted"))
    /\ UNCHANGED <<planVars, approvals, recordVars, githubVars>>

\* Faulty variant: the absence of a plan is accepted of any execution.
AnyAuthority(e, verdict) == verdict \in {"absent", "allowed"}

\* The plan inspected first must still be the latest, and no plan none.
SameAuthority(e, verdict) ==
    verdict = IF exec[e].version = 0 THEN "absent" ELSE "allowed"

\* validateExecutionAuthority
ValidateExecutionAuthority(e, replied, consume, observed, next) ==
    LET row == exec[e]
        phase == IF row.version = 0 \/ ~consume THEN "inspect" ELSE "consume"
        verdict == Verdict(row.request, phase, row.version, observed)
    IN
    /\ Check(row.request, phase, row.version, observed)
    /\ Answered(e, replied,
            IF verdict \in BlockReasons THEN Denied(row, PlanDenial(verdict))
            ELSE IF ~SameAuthority(e, verdict) THEN Denied(row, "approval_mismatch")
            ELSE [row EXCEPT !.pc = next,
                             !.consumed = @ \/ (consume /\ row.version # 0 /\ Merges(e))])
    /\ UNCHANGED <<clock, sessionActive, connected, approvalVars, recordVars, githubVars>>

FirstValidation(e, replied) ==
    /\ At(e, "validate")
    /\ ValidateExecutionAuthority(e, replied, ~Merges(e), None, "read")

\* The base branch the plan inspected first expects.
ExpectedBase(e) == grants[exec[e].version].plan.targets[<<Operation(RequestOf(e)), ResourceOf[RequestOf(e)]>>]

ReadPull(e) ==
    /\ At(e, "read")
    /\ IF \/ pull.head # ResourceOf[RequestOf(e)]
          \/ exec[e].version # 0 /\ pull.base # ExpectedBase(e)
       THEN Deny(e, "resource_changed")
       ELSE IF ~Merges(e) THEN Deny(e, "ok")
       ELSE IF pull.state # "open" THEN Deny(e, "not_mergeable")
       ELSE exec' = [exec EXCEPT
            ![e] = [@ EXCEPT !.pc = IF exec[e].version = 0 THEN "consume" ELSE "reinspect",
                             !.base = pull.base]]
    /\ UNCHANGED <<storeVars, githubVars>>

\* The answer of consumeApproval, as the code the broker denies with.
Redemption(a) ==
    IF ~connected THEN "approval_mismatch"
    ELSE IF approvals[a].state = "consumed" THEN "approval_replayed"
    ELSE IF ~sessionActive \/ clock < approvals[a].approvedAt THEN "not_active"
    ELSE IF \/ clock >= approvals[a].approvedAt + ApprovalLifetime
            \/ clock >= SessionEnd THEN "approval_expired"
    ELSE "consumed"

ConsumeApproval(e, replied) ==
    LET a == exec[e].approval
        outcome == Redemption(a)
    IN
    /\ At(e, "consume")
    /\ approvals' = IF outcome = "consumed" THEN [approvals EXCEPT ![a].state = "consumed"]
                    ELSE approvals
    /\ Answered(e, replied,
            IF outcome = "consumed" THEN [exec[e] EXCEPT !.pc = "final", !.consumed = TRUE]
            ELSE Denied(exec[e], outcome))
    /\ UNCHANGED <<planVars, toolCalls, recordVars, githubVars>>

\* A merge under a plan checks the plan and the pull request once more.
Reinspect(e, replied) ==
    /\ At(e, "reinspect")
    /\ ValidateExecutionAuthority(e, replied, FALSE, exec[e].base, "reread")

RereadPull(e) ==
    /\ At(e, "reread")
    /\ IF pull.head # ResourceOf[RequestOf(e)] \/ pull.base # exec[e].base
       THEN Deny(e, "resource_changed")
       ELSE IF pull.state # "open" THEN Deny(e, "not_mergeable")
       ELSE Goto(e, "final")
    /\ UNCHANGED <<storeVars, githubVars>>

\* Faulty variant: the plan is inspected where it should be consumed.
FinalInspection(e, replied) ==
    /\ At(e, "final")
    /\ ValidateExecutionAuthority(e, replied, FALSE, exec[e].base, "send")

FinalValidation(e, replied) ==
    /\ At(e, "final")
    /\ ValidateExecutionAuthority(e, replied, TRUE, exec[e].base, "send")

SendPut(e) ==
    /\ At(e, "send")
    /\ Goto(e, "put")
    /\ puts' = [puts EXCEPT ![e] = "sent"]
    /\ UNCHANGED <<storeVars, pull>>

PutAnswered(e) ==
    /\ At(e, "put")
    /\ \/ puts[e] = "merged" /\ Deny(e, "ok")
       \/ /\ puts[e] = "refused"
          /\ \E code \in {"resource_changed", "not_mergeable", "connection_unavailable",
                          "provider_failed"} : Deny(e, code)
    /\ UNCHANGED <<storeVars, githubVars>>

\* Faulty variant: a timeout taken for an unreachable connection.
TimeoutAsUnavailable(e) ==
    /\ At(e, "put")
    /\ Deny(e, "connection_unavailable")
    /\ UNCHANGED <<storeVars, githubVars>>

\* The request timed out, or the answer was lost or unreadable.
PutUncertain(e) ==
    /\ At(e, "put")
    /\ Deny(e, "provider_failed")
    /\ UNCHANGED <<storeVars, githubVars>>

DeferBlocked(e, replied) ==
    /\ At(e, "defer")
    /\ Defer(RequestOf(e), exec[e].code)
    /\ IF replied THEN Goto(e, "decide") ELSE Return(e, "audit_unavailable")
    /\ UNCHANGED <<clock, sessionActive, connected, approvalVars, recordVars, githubVars>>

\* appendAuthorityDecision.  An allowed result is written as consumed.
AppendDecision(e, replied) ==
    LET allowed == exec[e].code = "ok" IN
    /\ At(e, "decide")
    /\ decisions' = decisions \cup
            {[attempt |-> e, allowed |-> allowed, tool |-> allowed \/ exec[e].tool,
              approval |-> Merges(e) /\ (allowed \/ exec[e].consumed),
              guardian |-> exec[e].guardian]}
    /\ Return(e, IF replied THEN exec[e].code ELSE "audit_unavailable")
    /\ UNCHANGED <<planVars, approvalVars, attempts, githubVars>>

-----------------------------------------------------------------------------
(* What can go wrong under an execution.                                   *)

\* A call to the authority service that had no effect.
CallLost(e) ==
    /\ \/ /\ exec[e].pc \in {"connections", "inspect", "approval", "charge", "validate",
                             "consume", "reinspect", "final"}
          /\ Deny(e, "audit_unavailable")
       \/ /\ exec[e].pc \in {"attempt", "defer", "decide"}
          /\ Return(e, "audit_unavailable")
    /\ UNCHANGED <<storeVars, githubVars>>

\* The credential cannot be resolved for the first or the second use.
CredentialFails(e) ==
    /\ \/ exec[e].pc \in {"validate", "reinspect"}
       \/ At(e, "final") /\ exec[e].version = 0
    /\ Deny(e, "connection_unavailable")
    /\ UNCHANGED <<storeVars, githubVars>>

ReadFails(e) ==
    /\ exec[e].pc \in {"read", "reread"}
    /\ \E code \in {"provider_failed", "connection_unavailable", "resource_changed"} :
            Deny(e, code)
    /\ UNCHANGED <<storeVars, githubVars>>

-----------------------------------------------------------------------------
(* The others: GitHub and the authorization service.                       *)

\* GitHub merges the head the PUT names, or refuses.
ProviderAnswers(e) ==
    /\ puts[e] = "sent"
    /\ \/ /\ pull.state = "open"
          /\ pull.head = ResourceOf[RequestOf(e)]
          /\ pull' = [pull EXCEPT !.state = "merged"]
          /\ puts' = [puts EXCEPT ![e] = "merged"]
       \/ /\ puts' = [puts EXCEPT ![e] = "refused"]
          /\ UNCHANGED pull
    /\ UNCHANGED <<storeVars, exec>>

\* A push, a new base branch, closing or reopening.
ChangePull ==
    /\ pull.state # "merged"
    /\ pull' \in [head: Resources, base: Bases, state: {"open", "closed"}]
    /\ pull' # pull
    /\ UNCHANGED <<storeVars, exec, puts>>

\* issueExactApproval and storeApproval.
IssueApproval(a) ==
    /\ sessionActive
    /\ connected
    /\ approvals[a].state = "unissued"
    /\ approvals' = [approvals EXCEPT ![a] = [state |-> "available", approvedAt |-> clock]]
    /\ UNCHANGED <<planVars, toolCalls, recordVars, exec, githubVars>>

\* The store's other clients and time.
StoreSteps ==
    /\ \/ \E plan \in PlanContents : Store(plan)
       \/ \E v \in DOMAIN grants : Revoke(v)
       \/ EndSession
       \/ RevokeConnection
       \/ PlansTick
    /\ UNCHANGED <<approvalVars, recordVars, exec, githubVars>>

ExecStep(e) ==
    \/ \E r \in Requests, a \in Approvals \cup {None} : Begin(e, r, a)
    \/ GetConnections(e) \/ EvaluateGuardian(e) \/ ValidateApproval(e)
    \/ ReadPull(e) \/ RereadPull(e) \/ SendPut(e) \/ PutAnswered(e) \/ PutUncertain(e)
    \/ \E replied \in BOOLEAN :
        \/ AppendAttempt(e, replied) \/ InspectPlan(e, replied)
        \/ ConsumeToolCall(e, replied) \/ FirstValidation(e, replied)
        \/ ConsumeApproval(e, replied) \/ Reinspect(e, replied)
        \/ FinalValidation(e, replied) \/ DeferBlocked(e, replied)
        \/ AppendDecision(e, replied)
    \/ CallLost(e) \/ CredentialFails(e) \/ ReadFails(e)

BrokerNext ==
    \/ \E e \in Execs : ExecStep(e) \/ ProviderAnswers(e)
    \/ ChangePull
    \/ \E a \in Approvals : IssueApproval(a)
    \/ StoreSteps

BrokerSpec == BrokerInit /\ [][BrokerNext]_brokerVars

-----------------------------------------------------------------------------
(* Properties.                                                             *)

\* The unit of authority an execution's merge spends: its approval, or under
\* a plan the pull request at that head, whatever request or grant names it.
UnitOf(e) == IF exec[e].version = 0 THEN exec[e].approval ELSE ResourceOf[RequestOf(e)]
Sent == {e \in Execs : puts[e] # "unsent"}
SpentUnits ==
    {a \in Approvals : approvals[a].state = "consumed"}
        \cup {x.key : x \in {y \in planExecutions : y.key # None}}

HasAuthority == InWindow /\ connected
EffectsSent == [u \in Approvals \cup Resources |-> Cardinality({e \in Sent : UnitOf(e) = u})]

\* The broker implements AuthorizedEffects: a PUT goes out only after its
\* unit was consumed in force, and no unit pays for a second PUT, whatever
\* executions race, replies are lost or plans are replaced.
Effects == INSTANCE AuthorizedEffects WITH
    Units <- Approvals \cup Resources,
    inForce <- HasAuthority,
    spent <- SpentUnits,
    effects <- EffectsSent
EffectsAuthorized == Effects!EffectsSpec

\* A denial that names a reason is definite: only audit_unavailable and
\* provider_failed may hide a merge, one still in flight included.
DefiniteDenial ==
    \A e \in Execs :
        exec[e].pc = "done" /\ exec[e].code \notin {"ok", "audit_unavailable", "provider_failed"}
            => puts[e] \in {"unsent", "refused"}

\* No PUT without its attempt on record and a tool call charged for it.
EffectsAccounted ==
    /\ Sent \subseteq attempts
    /\ Cardinality(Sent) + toolCalls <= ToolCalls

\* Decisions tell the truth after any interleaving: one that says allowed has
\* its merge done, its authority and tool call consumed and the Guardian's
\* assent, one that records an objection or a silent Guardian stands for
\* nothing sent or consumed, one that says consumed is right, and ok is never
\* returned without an allowed decision.
DecisionsTruthful ==
    /\ \A d \in decisions :
        /\ d.allowed /\ Merges(d.attempt) => puts[d.attempt] = "merged"
        /\ d.approval => UnitOf(d.attempt) \in SpentUnits
        /\ d.guardian # "preserved" =>
            ~d.allowed /\ ~d.tool /\ ~d.approval /\ puts[d.attempt] = "unsent"
    /\ Cardinality({d \in decisions : d.tool}) + toolCalls <= ToolCalls
    /\ \A e \in Execs :
        At(e, "done") /\ exec[e].code = "ok" => \E d \in decisions : d.attempt = e /\ d.allowed

\* The last check before a PUT finds the grant, or the absence of one, that
\* the execution inspected first (ADR-0048: adding a plan during an operation
\* invalidates its earlier no-plan inspection, and an invalid grant cannot
\* fall back to an exact approval), with the grant in force and the pull
\* request last seen on the base branch it names.
NoPlanSwitch ==
    [][\A e \in Execs :
        ~At(e, "send") /\ exec'[e].pc = "send" =>
            /\ exec[e].version = Version
            /\ Version # 0 =>
                /\ ~Grant.revoked /\ clock < Grant.plan.expiresAt /\ InWindow
                /\ exec[e].base = TargetBase(RequestOf(e))]_brokerVars
=============================================================================
