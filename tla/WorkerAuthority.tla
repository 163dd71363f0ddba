--------------------------- MODULE WorkerAuthority ---------------------------
(***************************************************************************)
(* The durable authority of worker sessions: the tables of the SQLite      *)
(* authority store that bound what a worker session may still do, and the  *)
(* operations the authority service runs on them, each one a BEGIN         *)
(* IMMEDIATE transaction and so one action here.                           *)
(*                                                                         *)
(* Modelled: sessions, session_budgets, worker_tool_executions,            *)
(* worker_boundary_events, audit_events, research_reservations and the     *)
(* revoked_at column of the latest session plan; the service process (its  *)
(* crashes, and the restart that interrupts every active session) and the  *)
(* wall clock it reads, which may be set back.                             *)
(*                                                                         *)
(* Left to other modules: approvals, the contents of plans, evidence.      *)
(***************************************************************************)
EXTENDS Integers, Sequences, FiniteSets, Functions

CONSTANTS
    Sessions,         \* session identifiers
    ExecutionIds,     \* execution_id / boundary_id values
    Digests,          \* execution_digest / boundary_digest values
    InitialBudgets,   \* budgets a session may be created with
    WindowSeconds,    \* DEFAULT_WORKER_VIOLATION_POLICY.windowSeconds
    RepeatThreshold,  \* DEFAULT_WORKER_VIOLATION_POLICY.repeatThreshold
    MaxRequested,     \* most results one research call may ask for (3)
    MaxTime,          \* bound: last value of the clock
    MaxBoots,         \* bound: service processes started
    MaxEvents,        \* bound: boundary events per session
    MaxAudits,        \* bound: audit events per session
    MaxReservations   \* bound: research reservations per session

BudgetRecords == [toolCalls: Nat, localCommands: Nat,
                  researchRequests: Nat, researchResults: Nat]

ASSUME BudgetsAssumption == InitialBudgets \subseteq BudgetRecords
ASSUME PolicyAssumption ==
    /\ WindowSeconds \in Nat
    /\ RepeatThreshold \in Nat \ {0}
    /\ MaxRequested \in Nat \ {0}
ASSUME BoundsAssumption ==
    /\ MaxTime \in Nat
    /\ MaxBoots \in Nat
    /\ MaxEvents \in Nat
    /\ MaxAudits \in Nat
    /\ MaxReservations \in Nat

Times == 0..MaxTime

Statuses == {"absent", "active", "completed", "interrupted", "revoked", "expired"}
Tools == {"guardian.session_status", "guardian.local_command", "external"}
OrdinaryCodes == {"tool_not_allowed", "filesystem_not_allowed",
                  "timeout_exceeds_session", "volume_exhausted"}
CriticalCodes == {"execution_replay", "execution_binding_mismatch",
                  "workspace_binding_mismatch", "worker_output_malformed"}
Codes == OrdinaryCodes \cup CriticalCodes

\* The closed code-to-severity mapping of the violation policy.
Severity(code) == IF code \in CriticalCodes THEN "critical" ELSE "ordinary"

Bindings == [id: ExecutionIds, digest: Digests]

SessionRows == [status: Statuses, startsAt: Times, expiresAt: Nat]
ExecutionRows == [session: Sessions, binding: Bindings, tool: Tools]
BoundaryRows == [binding: Bindings,
                 kind: {"violation", "interruption"},
                 severity: {"ordinary", "critical", "failure"},
                 disposition: {"continue", "revoked", "interrupted"},
                 at: Times]
AuditRows == [type: {"worker.step", "worker.completion.returned", "session.terminal"},
              binding: Bindings,
              at: Times]
ReservationRows == [reserved: 1..MaxRequested, accepted: 0..MaxRequested, settled: BOOLEAN]

AbsentSession == [status |-> "absent", startsAt |-> 0, expiresAt |-> 0]
NoBudget == [toolCalls |-> 0, localCommands |-> 0,
             researchRequests |-> 0, researchResults |-> 0]

VARIABLES
    now,           \* the service's wall clock
    up,            \* the service process is running
    boot,          \* history: how many service processes have started
    sessions,      \* sessions table
    budgets,       \* session_budgets table
    plan,          \* latest session plan: "absent", "granted" or "revoked"
    executions,    \* worker_tool_executions table
    boundary,      \* worker_boundary_events table, per session, in rowid order
    audit,         \* audit_events table, per session, in sequence order
    reservations,  \* research_reservations table, per session
    granted,       \* history: the budget the session was created with
    brokerCalls,   \* history: consumeToolCall successes of the session
    bornIn         \* history: the boot that created the session

tables == <<sessions, budgets, plan, executions, boundary, audit, reservations>>
history == <<granted, brokerCalls, bornIn>>
vars == <<now, up, boot, tables, history>>

Init ==
    /\ now = 0
    /\ up = TRUE
    /\ boot = 1
    /\ sessions = [s \in Sessions |-> AbsentSession]
    /\ budgets = [s \in Sessions |-> NoBudget]
    /\ plan = [s \in Sessions |-> "absent"]
    /\ executions = {}
    /\ boundary = [s \in Sessions |-> <<>>]
    /\ audit = [s \in Sessions |-> <<>>]
    /\ reservations = [s \in Sessions |-> <<>>]
    /\ granted = [s \in Sessions |-> NoBudget]
    /\ brokerCalls = [s \in Sessions |-> 0]
    /\ bornIn = [s \in Sessions |-> 0]

-----------------------------------------------------------------------------
(* Guards and transaction bodies the operations share.                     *)

Exists(s) == sessions[s].status # "absent"
Active(s) == sessions[s].status = "active"
\* Faulty variant: expiry left to the operation that marks it.
Started(s) == sessions[s].startsAt <= now

InLifetime(s) == sessions[s].startsAt <= now /\ now < sessions[s].expiresAt

\* Faulty variant: the status of the session is not looked at.
AnyStatus(s) == Exists(s) /\ InLifetime(s)

\* The EXISTS subquery of every budget update, and the tests of
\* interruptWorkerSession, recordWorkerAuditEvent and completeWorkerSession.
Usable(s) == Active(s) /\ InLifetime(s)

SetStatus(s, status) == sessions' = [sessions EXCEPT ![s].status = status]

\* An unavailable session that is still marked active and has reached its
\* expiry is marked expired; nothing else changes.
ExpireIfDue(s) ==
    /\ sessions' = IF Active(s) /\ now >= sessions[s].expiresAt
                   THEN [sessions EXCEPT ![s].status = "expired"]
                   ELSE sessions
    /\ UNCHANGED <<budgets, plan, executions, boundary, audit, reservations>>

\* assertWorkerBoundaryClock: throws when a boundary event of the session is
\* later than the clock.
BoundaryClockOk(s) == \A i \in DOMAIN boundary[s] : boundary[s][i].at <= now

\* Faulty variant: the sequence number alone orders the log.
AnyAuditClock(s) == TRUE

\* The clock test of appendNextAuditEventInTransaction.
AuditClockOk(s) == audit[s] # <<>> => audit[s][Len(audit[s])].at <= now

AuditRow(type, b) == [type |-> type, binding |-> b, at |-> now]

\* The COUNT(*) of recordWorkerViolationInTransaction over the rows log.
OrdinaryInWindow(log, at) ==
    {i \in DOMAIN log :
        /\ log[i].kind = "violation"
        /\ log[i].severity = "ordinary"
        /\ at - WindowSeconds <= log[i].at
        /\ log[i].at <= at}

ViolationRow(b, code, disposition) ==
    [binding |-> b, kind |-> "violation", severity |-> Severity(code),
     disposition |-> disposition, at |-> now]

\* Faulty variant: the window is counted before the event is inserted.
RecordViolationCountedFirst(s, b, code) ==
    LET revoke == \/ Severity(code) = "critical"
                  \/ Cardinality(OrdinaryInWindow(boundary[s], now)) >= RepeatThreshold
    IN  /\ Len(boundary[s]) < MaxEvents
        /\ boundary' = [boundary EXCEPT ![s] =
                Append(@, ViolationRow(b, code, IF revoke THEN "revoked" ELSE "continue"))]
        /\ sessions' = IF revoke THEN [sessions EXCEPT ![s].status = "revoked"]
                                 ELSE sessions
        /\ UNCHANGED <<budgets, plan, executions, audit, reservations>>

\* recordWorkerViolationInTransaction: the event is inserted, counted with
\* those of the window, and revokes the session when it is critical or the
\* threshold is reached.
RecordViolation(s, b, code) ==
    LET inserted == Append(boundary[s], ViolationRow(b, code, "continue"))
        revoke == \/ Severity(code) = "critical"
                  \/ Cardinality(OrdinaryInWindow(inserted, now)) >= RepeatThreshold
    IN  /\ Len(boundary[s]) < MaxEvents
        /\ boundary' = [boundary EXCEPT ![s] =
                Append(@, ViolationRow(b, code, IF revoke THEN "revoked" ELSE "continue"))]
        /\ sessions' = IF revoke THEN [sessions EXCEPT ![s].status = "revoked"]
                                 ELSE sessions
        /\ UNCHANGED <<budgets, plan, executions, audit, reservations>>

\* An operation of the running service leaves the clock, the process and the
\* history alone unless it says otherwise.
Serving == up /\ UNCHANGED <<now, up, boot>>

-----------------------------------------------------------------------------
(* Operations of the store, one action each.                               *)

CreateSession(s, initial, expiresAt) ==
    /\ Serving
    /\ ~Exists(s)
    /\ now < expiresAt
    /\ sessions' = [sessions EXCEPT ![s] =
            [status |-> "active", startsAt |-> now, expiresAt |-> expiresAt]]
    /\ budgets' = [budgets EXCEPT ![s] = initial]
    /\ granted' = [granted EXCEPT ![s] = initial]
    /\ bornIn' = [bornIn EXCEPT ![s] = boot]
    /\ UNCHANGED <<plan, executions, boundary, audit, reservations, brokerCalls>>

\* storeSessionPlan: the next version becomes the session's latest plan.
StoreSessionPlan(s) ==
    /\ Serving
    /\ Usable(s)
    /\ plan' = [plan EXCEPT ![s] = "granted"]
    /\ UNCHANGED <<sessions, budgets, executions, boundary, audit, reservations, history>>

RevokeSessionPlan(s) ==
    /\ Serving
    /\ plan[s] = "granted"
    /\ plan' = [plan EXCEPT ![s] = "revoked"]
    /\ UNCHANGED <<sessions, budgets, executions, boundary, audit, reservations, history>>

\* consumeToolCall, the charge of every brokered GitHub request.
ConsumeToolCall(s) ==
    /\ Serving
    /\ Usable(s)
    /\ budgets[s].toolCalls >= 1
    /\ budgets' = [budgets EXCEPT ![s].toolCalls = @ - 1]
    /\ brokerCalls' = [brokerCalls EXCEPT ![s] = @ + 1]
    /\ UNCHANGED <<sessions, plan, executions, boundary, audit, reservations,
                   granted, bornIn>>

\* Faulty variant: the id is looked for in this session only.
PriorInSession(s, b) ==
    \E e \in executions :
        e.session = s /\ (e.binding.id = b.id \/ e.binding.digest = b.digest)

\* The SELECT that finds a prior use of an execution: its id in any session,
\* or its digest in this one.
PriorExecution(s, b) ==
    \E e \in executions : \/ e.binding.id = b.id
                          \/ e.session = s /\ e.binding.digest = b.digest

\* An external claim needs a remaining tool call but does not spend it: the
\* research or broker service that runs it charges the call.
ToolCallCost(tool) == IF tool = "external" THEN 0 ELSE 1
LocalCommandCost(tool) == IF tool = "guardian.local_command" THEN 1 ELSE 0

\* Faulty variant: only the local commands are checked.
CommandsAffordable(s, tool) == budgets[s].localCommands >= LocalCommandCost(tool)

Affordable(s, tool) ==
    /\ budgets[s].toolCalls >= 1
    /\ budgets[s].localCommands >= LocalCommandCost(tool)

\* consumeWorkerToolCall, consumeLocalCommand and claimExternalExecution.
ClaimExecution(s, b, tool) ==
    /\ Usable(s)
    /\ ~PriorExecution(s, b)
    /\ Affordable(s, tool)
    /\ budgets' = [budgets EXCEPT ![s].toolCalls = @ - ToolCallCost(tool),
                                  ![s].localCommands = @ - LocalCommandCost(tool)]
    /\ executions' = executions \cup {[session |-> s, binding |-> b, tool |-> tool]}
    /\ UNCHANGED <<sessions, plan, boundary, audit, reservations>>

ConsumeWorkerExecution(s, b, tool) ==
    /\ Serving
    /\ Exists(s)
    /\ \/ ~Usable(s) /\ ExpireIfDue(s)
       \/ Usable(s) /\ PriorExecution(s, b) /\ RecordViolation(s, b, "execution_replay")
       \/ /\ Usable(s) /\ ~PriorExecution(s, b) /\ ~Affordable(s, tool)
          /\ RecordViolation(s, b, "volume_exhausted")
       \/ ClaimExecution(s, b, tool)
    /\ UNCHANGED history

RecordWorkerViolation(s, b, code) ==
    /\ Serving
    /\ Exists(s)
    /\ BoundaryClockOk(s)
    /\ \/ ~Usable(s) /\ ExpireIfDue(s)
       \/ Usable(s) /\ RecordViolation(s, b, code)
    /\ UNCHANGED history

InterruptWorkerSession(s, b) ==
    /\ Serving
    /\ Exists(s)
    /\ BoundaryClockOk(s)
    /\ \/ ~Usable(s) /\ ExpireIfDue(s)
       \/ /\ Usable(s)
          /\ Len(boundary[s]) < MaxEvents
          /\ boundary' = [boundary EXCEPT ![s] = Append(@,
                [binding |-> b, kind |-> "interruption", severity |-> "failure",
                 disposition |-> "interrupted", at |-> now])]
          /\ SetStatus(s, "interrupted")
          /\ UNCHANGED <<budgets, plan, executions, audit, reservations>>
    /\ UNCHANGED history

\* The two lookups of recordWorkerAuditEvent.
ClaimedOrDenied(s, b) ==
    \/ \E e \in executions : e.session = s /\ e.binding = b
    \/ \E i \in DOMAIN boundary[s] : boundary[s][i].binding = b

RecordWorkerAuditEvent(s, b) ==
    /\ Serving
    /\ Exists(s)
    /\ BoundaryClockOk(s)
    /\ Usable(s)
    /\ plan[s] # "revoked"
    /\ ClaimedOrDenied(s, b)
    /\ AuditClockOk(s)
    /\ Len(audit[s]) < MaxAudits
    /\ audit' = [audit EXCEPT ![s] = Append(@, AuditRow("worker.step", b))]
    /\ UNCHANGED <<sessions, budgets, plan, executions, boundary, reservations, history>>

CompleteWorkerSession(s, b) ==
    /\ Serving
    /\ Exists(s)
    /\ BoundaryClockOk(s)
    /\ \/ ~(Usable(s) /\ plan[s] # "revoked") /\ ExpireIfDue(s)
       \/ /\ Usable(s)
          /\ plan[s] # "revoked"
          /\ AuditClockOk(s)
          /\ audit' = [audit EXCEPT ![s] = @ \o
                <<AuditRow("worker.completion.returned", b), AuditRow("session.terminal", b)>>]
          /\ SetStatus(s, "completed")
          /\ UNCHANGED <<budgets, plan, executions, boundary, reservations>>
    /\ UNCHANGED history

ReserveResearch(s, requested) ==
    /\ Serving
    /\ Usable(s)
    /\ budgets[s].toolCalls >= 1
    /\ budgets[s].researchRequests >= 1
    /\ budgets[s].researchResults >= requested
    /\ Len(reservations[s]) < MaxReservations
    /\ budgets' = [budgets EXCEPT ![s].toolCalls = @ - 1,
                                  ![s].researchRequests = @ - 1,
                                  ![s].researchResults = @ - requested]
    /\ reservations' = [reservations EXCEPT ![s] = Append(@,
            [reserved |-> requested, accepted |-> 0, settled |-> FALSE])]
    /\ UNCHANGED <<sessions, plan, executions, boundary, audit, history>>

\* Faulty variant: a settled reservation is refunded again.
SettleAgain(s, r, accepted) ==
    /\ Serving
    /\ r \in DOMAIN reservations[s]
    /\ accepted <= reservations[s][r].reserved
    /\ budgets' = [budgets EXCEPT ![s].researchResults =
            @ + (reservations[s][r].reserved - accepted)]
    /\ reservations' = [reservations EXCEPT
            ![s][r] = [@ EXCEPT !.accepted = accepted, !.settled = TRUE]]
    /\ UNCHANGED <<sessions, plan, executions, boundary, audit, history>>

\* settleResearchResults looks at the reservation only: neither the session's
\* status nor its lifetime is tested.
SettleResearchResults(s, r, accepted) ==
    /\ Serving
    /\ r \in DOMAIN reservations[s]
    /\ ~reservations[s][r].settled
    /\ accepted <= reservations[s][r].reserved
    /\ budgets' = [budgets EXCEPT ![s].researchResults =
            @ + (reservations[s][r].reserved - accepted)]
    /\ reservations' = [reservations EXCEPT
            ![s][r] = [@ EXCEPT !.accepted = accepted, !.settled = TRUE]]
    /\ UNCHANGED <<sessions, plan, executions, boundary, audit, history>>

-----------------------------------------------------------------------------
(* The service process and its clock.                                      *)

\* The process dies; every committed transaction is durable.
Crash ==
    /\ up
    /\ up' = FALSE
    /\ UNCHANGED <<now, boot, tables, history>>

\* Faulty variants of the restart: sessions of every status are interrupted,
\* or none is.
RestartInterruptsAll ==
    /\ ~up
    /\ boot < MaxBoots
    /\ up' = TRUE
    /\ boot' = boot + 1
    /\ sessions' = [s \in Sessions |->
            IF Exists(s) THEN [sessions[s] EXCEPT !.status = "interrupted"] ELSE sessions[s]]
    /\ UNCHANGED <<now, budgets, plan, executions, boundary, audit, reservations, history>>
RestartInterruptsNone ==
    /\ ~up
    /\ boot < MaxBoots
    /\ up' = TRUE
    /\ boot' = boot + 1
    /\ UNCHANGED <<now, tables, history>>

\* The constructor of the service: interruptActiveSessions runs before it
\* listens, and throws (no service) when an active session started later than
\* the clock now reads.
Restart ==
    /\ ~up
    /\ boot < MaxBoots
    /\ \A s \in Sessions : Active(s) => sessions[s].startsAt <= now
    /\ up' = TRUE
    /\ boot' = boot + 1
    /\ sessions' = [s \in Sessions |->
            IF Active(s) THEN [sessions[s] EXCEPT !.status = "interrupted"] ELSE sessions[s]]
    /\ UNCHANGED <<now, budgets, plan, executions, boundary, audit, reservations, history>>

Tick ==
    /\ now < MaxTime
    /\ now' = now + 1
    /\ UNCHANGED <<up, boot, tables, history>>

\* The host's clock is set back: the service reads Date, not a monotonic
\* clock, and the code throws where it notices.
StepBack ==
    /\ now > 0
    /\ now' = now - 1
    /\ UNCHANGED <<up, boot, tables, history>>

Next ==
    \/ \E s \in Sessions :
        \/ \E initial \in InitialBudgets, expiresAt \in 1..(MaxTime + 1) :
                CreateSession(s, initial, expiresAt)
        \/ StoreSessionPlan(s)
        \/ RevokeSessionPlan(s)
        \/ ConsumeToolCall(s)
        \/ \E b \in Bindings :
            \/ \E tool \in Tools : ConsumeWorkerExecution(s, b, tool)
            \/ \E code \in Codes : RecordWorkerViolation(s, b, code)
            \/ InterruptWorkerSession(s, b)
            \/ RecordWorkerAuditEvent(s, b)
            \/ CompleteWorkerSession(s, b)
        \/ \E requested \in 1..MaxRequested : ReserveResearch(s, requested)
        \/ \E r \in DOMAIN reservations[s], accepted \in 0..MaxRequested :
                SettleResearchResults(s, r, accepted)
    \/ Crash
    \/ Restart
    \/ Tick
    \/ StepBack

Spec == Init /\ [][Next]_vars

-----------------------------------------------------------------------------
(* Properties.                                                             *)

\* Every table holds rows of its columns' types (the STRICT tables and their
\* CHECK constraints: no budget is ever negative).
TypeOK ==
    /\ now \in Times
    /\ up \in BOOLEAN
    /\ boot \in Nat
    /\ sessions \in [Sessions -> SessionRows]
    /\ budgets \in [Sessions -> BudgetRecords]
    /\ plan \in [Sessions -> {"absent", "granted", "revoked"}]
    /\ executions \subseteq ExecutionRows
    /\ boundary \in [Sessions -> Seq(BoundaryRows)]
    /\ audit \in [Sessions -> Seq(AuditRows)]
    /\ reservations \in [Sessions -> Seq(ReservationRows)]
    /\ granted \in [Sessions -> BudgetRecords]
    /\ brokerCalls \in [Sessions -> Nat]
    /\ bornIn \in [Sessions -> Nat]

\* What a reservation holds back from the session's results: all it reserved
\* until it is settled, then what was accepted.
Held(r) == IF r.settled THEN r.accepted ELSE r.reserved

ExecutionsOf(s, tools) == {e \in executions : e.session = s /\ e.tool \in tools}

\* Conservation: what a session was granted is what remains plus what the rows
\* of the other tables say was spent, through refunds, crashes and races of
\* the broker, the research service and the dispatcher over one budget.
BudgetConserved ==
    \A s \in Sessions :
        /\ granted[s].toolCalls =
                budgets[s].toolCalls + brokerCalls[s] + Len(reservations[s])
                + Cardinality(ExecutionsOf(s, Tools \ {"external"}))
        /\ granted[s].localCommands =
                budgets[s].localCommands
                + Cardinality(ExecutionsOf(s, {"guardian.local_command"}))
        /\ granted[s].researchRequests =
                budgets[s].researchRequests + Len(reservations[s])
        /\ granted[s].researchResults =
                budgets[s].researchResults
                + SumFunction([r \in DOMAIN reservations[s] |-> Held(reservations[s][r])])

\* An execution is claimed once: its id by one session only, across every
\* session and restart, and a digest once per session.
ClaimedOnce ==
    \A e, f \in executions :
        \/ e.binding.id = f.binding.id
        \/ e.session = f.session /\ e.binding.digest = f.binding.digest
        => e = f

\* Event i of a log is one that the policy revokes on.
Triggers(log, i) ==
    /\ log[i].kind = "violation"
    /\ \/ log[i].severity = "critical"
       \/ Cardinality(OrdinaryInWindow(SubSeq(log, 1, i), log[i].at)) >= RepeatThreshold

\* Revocation is a function of the durable log, whichever operation recorded
\* its events and whatever the clock did in between: a session is revoked
\* exactly when its last boundary event is a trigger, and no earlier event is.
RevokedByLog ==
    \A s \in Sessions :
        /\ (sessions[s].status = "revoked") <=>
                \E i \in DOMAIN boundary[s] : Triggers(boundary[s], i)
        /\ \A i \in DOMAIN boundary[s] :
                Triggers(boundary[s], i) => i = Len(boundary[s])

\* The policy as ADR-0019 words it: three ordinary violations inside one
\* inclusive five-minute window revoke.
WindowIsFull(s) ==
    \E at \in Times :
        Cardinality(OrdinaryInWindow(boundary[s], at)) >= RepeatThreshold

Chronological(log) ==
    \A i, j \in DOMAIN log : i <= j => log[i].at <= log[j].at

\* The policy of ADR-0019 holds of every log that was recorded in time order.
ThirdInWindowRevokes ==
    \A s \in Sessions :
        Chronological(boundary[s]) /\ WindowIsFull(s) => sessions[s].status = "revoked"

\* The same policy as ADR-0019 states it, with no condition on the clock.
\* consumeWorkerToolCall and its siblings record volume_exhausted without
\* comparing the clock with the log, so this one does not hold.
ThirdInWindowRevokesOnAnyClock ==
    \A s \in Sessions : WindowIsFull(s) => sessions[s].status = "revoked"

\* The audit log of a session reads in time order although the clock can be
\* set back, and it ends with the two completion events exactly when the
\* session completed.
AuditIsAccount ==
    \A s \in Sessions :
        LET log == audit[s] IN
        /\ Chronological(log)
        /\ \A i \in DOMAIN log :
            /\ log[i].type = "session.terminal" =>
                    i = Len(log) /\ sessions[s].status = "completed"
            /\ log[i].type = "worker.completion.returned" =>
                    i = Len(log) - 1 /\ log[i + 1].binding = log[i].binding
        /\ sessions[s].status = "completed" =>
                log # <<>> /\ log[Len(log)].type = "session.terminal"

\* No session outlives the service process that created it: an active session
\* was created by the process now running or by the one that just died.
NoSurvivorOfRestart ==
    \A s \in Sessions : Active(s) => bornIn[s] = boot

\* The end of a session is final: no status, claim, boundary event, audit
\* event or charge follows it, on any clock; only a research refund can.
EndIsFinal ==
    [][\A s \in Sessions : Exists(s) /\ ~Active(s) =>
        /\ sessions'[s] = sessions[s]
        /\ ExecutionsOf(s, Tools)' = ExecutionsOf(s, Tools)
        /\ boundary'[s] = boundary[s]
        /\ audit'[s] = audit[s]
        /\ Len(reservations'[s]) = Len(reservations[s])
        /\ [budgets'[s] EXCEPT !.researchResults = 0] =
               [budgets[s] EXCEPT !.researchResults = 0]
        /\ budgets'[s].researchResults >= budgets[s].researchResults]_vars

\* Nothing is charged or claimed outside the session's lifetime, though expiry
\* is only noticed lazily: a session whose time has passed may still be
\* marked active.
ChargedInLifetime ==
    [][\A s \in Sessions :
        \/ \E r \in DOMAIN budgets[s] : budgets'[s][r] < budgets[s][r]
        \/ ExecutionsOf(s, Tools)' # ExecutionsOf(s, Tools)
        => sessions[s].startsAt <= now /\ now < sessions[s].expiresAt]_vars
=============================================================================
