----------------------------- MODULE WorkerTurns -----------------------------
(***************************************************************************)
(* The turns of one launched session: the coordinator asks the worker,      *)
(* gives its tool request to the dispatcher under a deadline, and tells the *)
(* next turn what came of it.  The dispatcher, the research service's       *)
(* process and the authority go on when the deadline has ended the wait.    *)
(* The authority is a store behind calls that may be lost or unanswered.    *)
(***************************************************************************)
EXTENDS ResearchService, SupervisedChild

CONSTANTS
  MaxTurns,     \* of a bounded mission; an unbounded one has two
  Granted,      \* the profile's tools
  MaxRequests,  \* the session's research requests
  Requests      \* the research requests the worker may make

External == {"research", "read", "merge"}
Tools == External \cup {"command", "status"}

ASSUME TurnsAssumption ==
  /\ MaxTurns \in Nat \ {0, 1} /\ MaxRequests \in Nat
  /\ Granted \subseteq Tools /\ Requests \subseteq SearchRequests \cup ExtractRequests

Turns == 1..MaxTurns
Nothing == [tool |-> "none", result |-> "none"]

VARIABLES
  bounded,   \* the mission carries a continuation: more turns, external tools
  lapsed,    \* the session's lifetime is over
  aborted,   \* the supervisor's abort signal
  runtime,   \* the bound session runtime's termination
  store,     \* what the authority holds of this session
  loop,      \* the coordinator's loop
  exec,      \* the dispatcher's execution, the last one started
  child,     \* the research service's process
  closing,   \* ...was told to close by its owner
  service,   \* the request it serves
  crossed    \* executions whose provider or adapter was called

vars == <<bounded, lapsed, aborted, runtime, store, loop, exec, child, closing, service, crossed>>

Init ==
  /\ bounded \in BOOLEAN
  /\ lapsed = FALSE /\ aborted = FALSE /\ runtime = "active"
  /\ store = [status |-> "active", planRevoked |-> FALSE, violations |-> 0,
              requests |-> MaxRequests, claimed |-> {}, denied |-> {},
              paid |-> {}, open |-> {}, exposed |-> {}, log |-> [t \in Turns |-> <<>>]]
  /\ loop = [at |-> IF bounded THEN "check" ELSE "turn", turn |-> 1, tools |-> TRUE,
             told |-> [t \in Turns |-> Nothing], reason |-> "none"]
  /\ exec = [state |-> "none", turn |-> 1, tool |-> "status", todo |-> <<>>,
             denied |-> FALSE, revoked |-> FALSE, reason |-> "none", late |-> FALSE]
  /\ child = NoChild /\ closing = FALSE
  /\ service = [at |-> "idle", turn |-> 1, request |-> CHOOSE q \in Requests : TRUE,
                found |-> 0, reply |-> "none"]
  /\ crossed = {}

(***************************************************************************)
(* The session's runtime and its record                                    *)
(***************************************************************************)
Interrupted(r) == IF r # "revoked" THEN "interrupted" ELSE r
RuntimeState == IF runtime = "active" /\ lapsed THEN "expired" ELSE runtime

InForce == store.status = "active" /\ ~lapsed
PlanInForce == InForce /\ ~store.planRevoked

\* A touch of the store after the end of the lifetime expires the record.
Touched == IF store.status = "active" /\ lapsed THEN [store EXCEPT !.status = "expired"] ELSE store
Unavailable == IF store.status = "revoked" THEN "revoked"
               ELSE IF store.status # "active" THEN "not_active" ELSE "expired"

\* An authority call: served and answered, served and not answered, or lost.
Served(effect) == store' = effect
Lost(effect) == store' \in {store, effect}

WithViolation(n, critical) ==
  LET count == store.violations + 1 IN
  [store EXCEPT !.denied = @ \cup {n}, !.violations = count,
                !.status = IF critical \/ count >= 3 THEN "revoked" ELSE @]
WithClaim(n) == [store EXCEPT !.claimed = @ \cup {n}]
WithInterruption == IF InForce THEN [store EXCEPT !.status = "interrupted"] ELSE Touched
WithCompletion == IF PlanInForce THEN [store EXCEPT !.status = "completed"] ELSE Touched
CanAudit(n) == PlanInForce /\ n \in store.claimed \cup store.denied
WithEvent(n, event) == [store EXCEPT !.log[n] = Append(@, event)]

(***************************************************************************)
(* The dispatcher: an execution is the list of what it still has to do.     *)
(***************************************************************************)
ResearchSteps == <<"claim", "proposal.received", "session", "open", "ask", "answer", "plan">>
BrokerSteps == <<"claim", "proposal.received", "session", "target", "broker", "plan">>
SuccessSteps == <<"budget", "policy.decided", "execution.result", "value",
                  "worker.feedback.returned">>
DenialSteps == <<"violation", "value", "policy.decided", "execution.result",
                 "worker.feedback.returned">>
RefusalSteps == <<"violation", "value", "proposal.received", "policy.decided",
                  "execution.result", "worker.feedback.returned">>
AuditEvents == {"proposal.received", "policy.decided", "execution.result",
                "worker.feedback.returned"}
\* While these are to do the abort listener of the external tools is set.
ServiceSteps == {"session", "open", "ask", "answer", "target", "broker", "plan"}

Doing(step) == exec.state = "running" /\ exec.todo # <<>> /\ Head(exec.todo) = step
DoingAny(steps) == \E s \in steps : Doing(s)
Onward(e) == LET rest == Tail(e.todo) IN
  [e EXCEPT !.todo = rest, !.state = IF rest = <<>> THEN "returned" ELSE @]
Continues == exec' = Onward(exec)
Turning(e, steps) == [e EXCEPT !.todo = steps]
Denying(e, steps) == [e EXCEPT !.todo = steps, !.denied = TRUE]

\* The dispatcher's own failures: the runtime at once, the record by a call.
Fails(reason) ==
  /\ exec' = [exec EXCEPT !.todo = <<"interrupt">>, !.reason = reason]
  /\ runtime' = Interrupted(runtime)
Thrown(e, reason) == [e EXCEPT !.todo = <<>>, !.state = "threw", !.reason = reason]

\* execute: what it checks before its first call.
Started(n, tool) ==
  LET e == [state |-> "running", turn |-> n, tool |-> tool, todo |-> <<>>, denied |-> FALSE,
            revoked |-> FALSE, reason |-> "none", late |-> FALSE]
      denials == IF tool \in External THEN Denying(e, RefusalSteps)
                 ELSE Denying(e, <<"violation", "value">>)
  IN  IF RuntimeState # "active"
      THEN {Thrown(e, IF RuntimeState = "expired" THEN "expired" ELSE "not_active")}
      ELSE IF tool \notin Granted THEN {denials}
      ELSE CASE tool = "research"           -> {Turning(e, ResearchSteps)}
             [] tool \in {"read", "merge"}  -> {Turning(e, BrokerSteps)}
             [] tool = "status"             -> {Turning(e, <<"consume", "value">>)}
             \* A command outside the workspace, or longer than the session.
             [] tool = "command"            ->
                  {denials, Turning(e, <<"consume", "command", "value">>)}

\* No execution is claimed twice, and one that is in budget is not denied.
Claim ==
  /\ DoingAny({"claim", "consume"})
  /\ \/ /\ InForce /\ Served(WithClaim(exec.turn))
        /\ Continues /\ UNCHANGED runtime
     \/ /\ ~InForce /\ Served(Touched)
        /\ exec' = Thrown(exec, IF Unavailable = "expired" THEN "expired" ELSE "not_active")
        /\ runtime' = CASE Unavailable = "revoked" -> "revoked"
                        [] Unavailable = "not_active" -> Interrupted(runtime)
                        [] Unavailable = "expired" -> runtime
     \/ /\ Doing("claim") /\ Lost(IF InForce THEN WithClaim(exec.turn) ELSE Touched)
        /\ Fails("authority_unavailable")
     \/ /\ Doing("consume") /\ Lost(IF InForce THEN WithClaim(exec.turn) ELSE Touched)
        /\ exec' = Thrown(exec, "authority_unavailable")
        /\ runtime' = Interrupted(runtime)
  /\ UNCHANGED <<bounded, lapsed, aborted, loop, child, closing, service, crossed>>

\* A mistaken audit that goes on when its event was not recorded.
AuditAnyway ==
  /\ DoingAny(AuditEvents)
  /\ LET event == [type |-> Head(exec.todo), denied |-> exec.denied]
     IN Lost(IF CanAudit(exec.turn) THEN WithEvent(exec.turn, event) ELSE store)
  /\ Continues
  /\ UNCHANGED <<bounded, lapsed, aborted, runtime, loop, child, closing, service, crossed>>
Audit ==
  /\ DoingAny(AuditEvents)
  /\ LET event == [type |-> Head(exec.todo), denied |-> exec.denied]
         n == exec.turn
     IN \/ CanAudit(n) /\ Served(WithEvent(n, event)) /\ Continues /\ UNCHANGED runtime
        \/ /\ Lost(IF CanAudit(n) THEN WithEvent(n, event) ELSE store)
           /\ Fails("authority_unavailable")
  /\ UNCHANGED <<bounded, lapsed, aborted, loop, child, closing, service, crossed>>

RecordViolation ==
  /\ Doing("violation")
  /\ \/ /\ InForce
        /\ Served(WithViolation(exec.turn, FALSE))
        /\ exec' = [Onward(exec) EXCEPT !.revoked = store'.status = "revoked"]
        /\ runtime' = IF store'.status = "revoked" THEN "revoked" ELSE runtime
     \/ /\ ~InForce /\ Served(Touched)
        /\ exec' = Thrown(exec, IF Unavailable = "expired" THEN "expired" ELSE "not_active")
        /\ runtime' = CASE Unavailable = "revoked" -> "revoked"
                        [] Unavailable = "not_active" -> Interrupted(runtime)
                        [] Unavailable = "expired" -> runtime
     \/ /\ Lost(IF InForce THEN WithViolation(exec.turn, FALSE) ELSE Touched)
        /\ exec' = Thrown(exec, "authority_unavailable")
        /\ runtime' = Interrupted(runtime)
  /\ UNCHANGED <<bounded, lapsed, aborted, loop, child, closing, service, crossed>>

Interrupt ==
  /\ Doing("interrupt")
  /\ \/ Served(WithInterruption) /\ exec' = Thrown(exec, exec.reason)
     \/ Lost(WithInterruption) /\ exec' = Thrown(exec, "authority_unavailable")
  /\ UNCHANGED <<bounded, lapsed, aborted, runtime, loop, child, closing, service, crossed>>

\* The budget read after an external result, and the runtime's state with it.
ReadBudget ==
  /\ Doing("budget")
  /\ \/ PlanInForce /\ RuntimeState = "active" /\ Continues /\ UNCHANGED runtime
     \/ PlanInForce /\ RuntimeState # "active" /\ Fails("expired")
     \/ Fails("authority_unavailable")
  /\ UNCHANGED <<bounded, lapsed, aborted, store, loop, child, closing, service, crossed>>

\* createWorkerToolResult: with a plan its remaining actions are read again.
MakeValue ==
  /\ Doing("value")
  /\ \/ Continues /\ UNCHANGED runtime
     \/ bounded /\ Fails("tool_unavailable")
  /\ UNCHANGED <<bounded, lapsed, aborted, store, loop, child, closing, service, crossed>>

\* The workspace command: nobody asks whether the session is still active.
RunCommand ==
  /\ Doing("command")
  /\ \/ Continues /\ UNCHANGED runtime
     \/ Fails("tool_unavailable")
  /\ UNCHANGED <<bounded, lapsed, aborted, store, loop, child, closing, service, crossed>>

(***************************************************************************)
(* External tools: the supervised services                                 *)
(***************************************************************************)
CheckSession ==
  /\ Doing("session")
  /\ \/ InForce /\ RuntimeState = "active" /\ Continues /\ UNCHANGED runtime
     \/ Fails("tool_unavailable")
  /\ UNCHANGED <<bounded, lapsed, aborted, store, loop, child, closing, service, crossed>>

\* getSessionPlan, before a broker request and after every result.
ReadPlan ==
  /\ Doing("plan")
  /\ \/ ~lapsed /\ ~store.planRevoked /\ exec' = Turning(exec, SuccessSteps) /\ UNCHANGED runtime
     \/ Fails("tool_unavailable")
  /\ UNCHANGED <<bounded, lapsed, aborted, store, loop, child, closing, service, crossed>>

FindTarget ==
  /\ Doing("target")
  /\ \/ ~store.planRevoked /\ Continues /\ UNCHANGED runtime
     \/ ~store.planRevoked /\ exec' = Denying(exec, DenialSteps) /\ UNCHANGED runtime
     \/ Fails("tool_unavailable")
  /\ UNCHANGED <<bounded, lapsed, aborted, store, loop, child, closing, service, crossed>>

Cancelled == exec.late \/ aborted

\* The client's timeout, a process that died or an answer for other arguments:
\* whether the broker acted is not known.
BrokerUnheard ==
  /\ Fails("tool_unavailable")
  /\ crossed' \in {crossed, crossed \cup {exec.turn}}

\* The broker of this execution, in a process of its own: scope_mismatch is
\* decided before the adapter, resource_changed after it read the resource.
AskBroker ==
  /\ Doing("broker")
  /\ \/ /\ ~Cancelled /\ Continues /\ UNCHANGED runtime
        /\ crossed' = crossed \cup {exec.turn}
     \/ /\ ~Cancelled /\ exec' = Denying(exec, DenialSteps) /\ UNCHANGED runtime
        /\ crossed' \in {crossed, crossed \cup {exec.turn}}
     \/ BrokerUnheard
  /\ UNCHANGED <<bounded, lapsed, aborted, store, loop, child, closing, service>>

\* One research process for the session; its start is awaited, never retried.
OpenResearch ==
  /\ Doing("open") /\ child = NoChild
  /\ IF Cancelled THEN child' = [proc |-> "gone", start |-> "failing"]
                  ELSE child' \in Spawned
  /\ UNCHANGED <<bounded, lapsed, aborted, runtime, store, loop, exec, closing, service, crossed>>

ResearchOpened ==
  /\ Doing("open")
  /\ \/ child.start = "ready" /\ Continues /\ UNCHANGED runtime
     \/ StartThrew(child) /\ Fails("tool_unavailable")
  /\ UNCHANGED <<bounded, lapsed, aborted, store, loop, child, closing, service, crossed>>

AskResearch ==
  /\ Doing("ask")
  /\ \/ /\ Live(child) /\ Continues /\ UNCHANGED runtime
        /\ \E q \in Requests :
             service' = [at |-> "asked", turn |-> exec.turn, request |-> q,
                         found |-> 0, reply |-> "none"]
     \/ ~Live(child) /\ Fails("tool_unavailable") /\ UNCHANGED service
  /\ UNCHANGED <<bounded, lapsed, aborted, store, loop, child, closing, crossed>>

Answered ==
  /\ Doing("answer") /\ service.at = "replied" /\ Live(child)
  /\ CASE service.reply = "evidence"           -> Continues /\ UNCHANGED runtime
       [] service.reply \in PolicyRefusals     ->
            exec' = Denying(exec, DenialSteps) /\ UNCHANGED runtime
       [] service.reply \notin PolicyRefusals \cup {"evidence"} -> Fails("tool_unavailable")
  /\ UNCHANGED <<bounded, lapsed, aborted, store, loop, child, closing, service, crossed>>

\* The client's own timeout, or the connection that went with the process.
\* A mistaken client that waits for as long as the connection lives.
GivesUpWhenClosed == Doing("answer") /\ ~Live(child)
GivesUp == Doing("answer")
ClientGivesUp ==
  /\ GivesUp /\ Fails("tool_unavailable")
  /\ UNCHANGED <<bounded, lapsed, aborted, store, loop, child, closing, service, crossed>>

(***************************************************************************)
(* The research service's process                                          *)
(***************************************************************************)
Serving(at) == service.at = at /\ Live(child)
Replies(reply) == service' = [service EXCEPT !.at = "replied", !.reply = reply]
Goes(at) == service' = [service EXCEPT !.at = at]
ServiceOnly == UNCHANGED <<bounded, lapsed, aborted, runtime, loop, exec, child, closing>>

GuardRequest ==
  /\ Serving("asked")
  /\ IF lapsed THEN Replies("expired")
     ELSE IF Refusal(service.request) # "none" THEN Replies(Refusal(service.request))
     ELSE Goes("reserve")
  /\ ServiceOnly /\ UNCHANGED <<store, crossed>>

WithReservation == [store EXCEPT !.requests = @ - 1, !.paid = @ \cup {service.turn},
                                 !.open = @ \cup {service.turn}]
CanReserve == InForce /\ store.requests >= 1
Reserve ==
  /\ Serving("reserve")
  /\ \/ CanReserve /\ Served(WithReservation) /\ Goes("provider")
     \/ ~CanReserve /\ Replies("budget_exhausted") /\ UNCHANGED store
     \/ Lost(IF CanReserve THEN WithReservation ELSE store) /\ Replies("service_unavailable")
  /\ ServiceOnly /\ UNCHANGED crossed

CallProvider ==
  /\ Serving("provider")
  /\ \/ \E response \in Responses :
          service' = IF Recorded(service.request, response)
                     THEN [service EXCEPT !.at = "expose", !.found = Len(response)]
                     ELSE [service EXCEPT !.at = "refund"]
     \/ Goes("refund")
  /\ crossed' = crossed \cup {service.turn}
  /\ ServiceOnly /\ UNCHANGED store

WithExposure == [store EXCEPT !.exposed = @ \cup {service.turn}]
\* A mistaken step that settles the results when their exposure failed.
ExposeAnyway ==
  /\ Serving("expose")
  /\ Lost(WithExposure) /\ Goes("settle")
  /\ ServiceOnly /\ UNCHANGED crossed
Expose ==
  /\ Serving("expose")
  /\ \/ ExposureBatch(service.found) /\ Served(WithExposure) /\ Goes("settle")
     \/ Lost(IF ExposureBatch(service.found) THEN WithExposure ELSE store) /\ Goes("refund")
  /\ ServiceOnly /\ UNCHANGED crossed

WithSettlement == [store EXCEPT !.open = @ \ {service.turn}]
Settle ==
  /\ Serving("settle")
  /\ \/ Served(WithSettlement) /\ Replies("evidence")
     \/ Lost(WithSettlement) /\ Replies("service_unavailable")
  /\ ServiceOnly /\ UNCHANGED crossed

\* The request stays charged, its results do not.
Refund ==
  /\ Serving("refund")
  /\ Lost(WithSettlement) /\ Replies("service_unavailable")
  /\ ServiceOnly /\ UNCHANGED crossed

\* A process that ended unasked interrupts the runtime and aborts the session.
ChildBecomes(c) ==
  /\ child' = IF child.start = "waiting" /\ c.start = "ready" /\ Cancelled
              THEN [CloseChild(c) EXCEPT !.start = "failing"] ELSE c
  /\ IF Gone(c) /\ child.start = "ready" /\ ~closing
     THEN runtime' = Interrupted(runtime) /\ aborted' = TRUE
     ELSE UNCHANGED <<runtime, aborted>>
  /\ UNCHANGED <<bounded, lapsed, store, loop, exec, closing, service, crossed>>
ChildTimed == \E c \in TimedMoves(child) : ChildBecomes(c)
ChildMoves == \E c \in OwnMoves(child) : ChildBecomes(c)

\* The session's owner closes what it holds: not a start still awaited.
Closes == IF child.start = "ready"
          THEN child' = CloseChild(child) /\ closing' = TRUE
          ELSE UNCHANGED <<child, closing>>

(***************************************************************************)
(* The coordinator's loop                                                  *)
(***************************************************************************)
Fail(reason) == loop' = [loop EXCEPT !.at = "failing", !.reason = reason]
Ends(how) == loop' = [loop EXCEPT !.at = "over", !.reason = how]

CheckBudget ==
  /\ loop.at = "check"
  /\ \/ PlanInForce /\ loop' = [loop EXCEPT !.at = "turn"]
     \/ Fail("authority_unavailable")
  /\ UNCHANGED <<bounded, lapsed, aborted, runtime, store, exec, child, closing, service, crossed>>

\* What the worker may ask for: its catalog, or in a bounded mission with a
\* catalog any tool, which the dispatcher then denies.
MayAsk(tool) ==
  /\ loop.tools
  /\ bounded \/ (tool \in Granted /\ tool \notin External)
  /\ tool = "research" => store.requests >= 1

WorkerAsks ==
  /\ loop.at = "turn" /\ ~aborted
  /\ \E tool \in Tools :
       /\ MayAsk(tool)
       /\ exec' \in Started(loop.turn, tool)
  /\ loop' = [loop EXCEPT !.at = "tool"]
  /\ UNCHANGED <<bounded, lapsed, aborted, runtime, store, child, closing, service, crossed>>

WorkerIsDone ==
  /\ loop.at = "turn" /\ ~aborted
  /\ IF bounded THEN loop' = [loop EXCEPT !.at = "complete"] ELSE Ends("completed")
  /\ UNCHANGED <<bounded, lapsed, aborted, runtime, store, exec, child, closing, service, crossed>>

\* The service's refusal or timeout, an answer that binds or asks wrongly, a
\* process that did not start or was aborted.
WorkerFails ==
  /\ loop.at = "turn"
  /\ \E reason \in {"provider_unavailable", "provider_malformed", "expired"} : Fail(reason)
  /\ UNCHANGED <<bounded, lapsed, aborted, runtime, store, exec, child, closing, service, crossed>>

Complete ==
  /\ loop.at = "complete"
  /\ \/ PlanInForce /\ Served(WithCompletion) /\ Ends("completed")
     \/ ~PlanInForce /\ Served(WithCompletion) /\ Fail("not_active")
     \/ Lost(WithCompletion) /\ Fail("authority_unavailable")
  /\ UNCHANGED <<bounded, lapsed, aborted, runtime, exec, child, closing, service, crossed>>

\* The tools of the next turn, and what it is told.
ToolReturns ==
  /\ loop.at = "tool" /\ exec.state = "returned"
  /\ LET result == [tool |-> exec.tool,
                    result |-> IF exec.denied THEN "denied" ELSE "succeeded"]
         next == loop.turn + 1
     IN IF exec.revoked
        THEN Ends("revoked") /\ runtime' = "revoked"
        ELSE /\ loop' = [loop EXCEPT !.at = IF bounded THEN "check" ELSE "turn",
                                     !.turn = next, !.told[loop.turn] = result,
                                     !.tools = /\ ~(exec.denied /\ exec.tool = "research")
                                               /\ bounded /\ next < MaxTurns]
             /\ UNCHANGED runtime
  /\ UNCHANGED <<bounded, lapsed, aborted, store, exec, child, closing, service, crossed>>

ToolThrows ==
  /\ loop.at = "tool" /\ exec.state = "threw"
  /\ Fail(exec.reason)
  /\ UNCHANGED <<bounded, lapsed, aborted, runtime, store, exec, child, closing, service, crossed>>

\* The deadline of a turn or an execution: the wait ends, the execution does not.
Deadline ==
  /\ loop.at \in {"turn", "tool"}
  /\ Fail("expired") /\ runtime' = Interrupted(runtime)
  /\ exec' = [exec EXCEPT !.late = loop.at = "tool"]
  /\ IF loop.at = "tool" /\ DoingAny(ServiceSteps) THEN Closes ELSE UNCHANGED <<child, closing>>
  /\ UNCHANGED <<bounded, lapsed, aborted, store, service, crossed>>

\* A malformed turn is a violation, a missing service an interruption.
Violations == {"provider_malformed"}
Interruptions == {"provider_unavailable", "authority_unavailable", "tool_unavailable"}
FailClosed ==
  /\ loop.at = "failing"
  /\ \/ /\ loop.reason \in Violations
        /\ \/ InForce /\ Served([store EXCEPT !.status = "revoked"])
              /\ Ends(loop.reason) /\ runtime' = "revoked"
           \/ ~InForce /\ Served(Touched)
              /\ Ends("authority_unavailable") /\ runtime' = Interrupted(runtime)
           \/ Lost(IF InForce THEN [store EXCEPT !.status = "revoked"] ELSE Touched)
              /\ Ends("authority_unavailable") /\ runtime' = Interrupted(runtime)
     \/ /\ loop.reason \in Interruptions
        /\ \/ Served(WithInterruption) /\ Ends(loop.reason)
           \/ Lost(WithInterruption) /\ Ends("authority_unavailable")
        /\ runtime' = Interrupted(runtime)
     \/ /\ loop.reason \notin Violations \cup Interruptions
        /\ Ends(loop.reason) /\ UNCHANGED <<store, runtime>>
  /\ UNCHANGED <<bounded, lapsed, aborted, exec, child, closing, service, crossed>>

(***************************************************************************)
(* The world around                                                        *)
(***************************************************************************)
Lapse ==
  /\ ~lapsed /\ lapsed' = TRUE
  /\ UNCHANGED <<bounded, aborted, runtime, store, loop, exec, child, closing, service, crossed>>

RevokePlan ==
  /\ bounded /\ ~store.planRevoked
  /\ store' = [store EXCEPT !.planRevoked = TRUE]
  /\ UNCHANGED <<bounded, lapsed, aborted, runtime, loop, exec, child, closing, service, crossed>>

SupervisorCloses ==
  /\ ~aborted /\ aborted' = TRUE /\ Closes
  /\ UNCHANGED <<bounded, lapsed, runtime, store, loop, exec, service, crossed>>

Over == loop.at = "over" /\ exec.state # "running"

\* Bounded calls and their local steps; the waits have steps of their own.
DispatcherStep ==
  \/ Claim \/ Audit \/ RecordViolation \/ Interrupt \/ ReadBudget \/ MakeValue \/ RunCommand
  \/ CheckSession \/ ReadPlan \/ FindTarget \/ AskBroker
  \/ OpenResearch \/ ResearchOpened \/ AskResearch
LoopStep == CheckBudget \/ WorkerFails \/ Complete \/ ToolReturns \/ ToolThrows \/ FailClosed
ServiceStep == GuardRequest \/ Reserve \/ CallProvider \/ Expose \/ Settle \/ Refund

Next ==
  \/ DispatcherStep \/ Answered \/ ClientGivesUp
  \/ ServiceStep \/ ChildTimed \/ ChildMoves
  \/ LoopStep \/ WorkerAsks \/ WorkerIsDone \/ Deadline
  \/ Lapse \/ RevokePlan \/ SupervisorCloses

\* The authority's, the broker's, the worker's and the research client's calls
\* and the start of a process are bounded by timers; nobody need answer.
Fairness ==
  /\ WF_vars(DispatcherStep) /\ WF_vars(LoopStep)
  /\ WF_vars(ClientGivesUp) /\ WF_vars(ChildTimed)

Spec == Init /\ [][Next]_vars /\ Fairness

(***************************************************************************)
(* Properties                                                              *)
(***************************************************************************)

\* No evidence without its accounts: what a worker was told of research had been
\* retrieved, recorded as exposed and settled before, and the provider is called
\* only for a request the session was charged for, whatever call of the service
\* was lost on the way (DurableCredentialHoldingResearchService.search, extract).
Told(t, tools, result) == loop.told[t].tool \in tools /\ loop.told[t].result = result
EvidenceIsAccounted ==
  /\ \A t \in Turns : Told(t, {"research"}, "succeeded") =>
                        t \in (store.exposed \cap crossed) \ store.open
  /\ service.at \in {"expose", "settle", "refund"} => service.turn \in store.paid
  /\ store.exposed \cup store.open \subseteq store.paid

\* An external result the worker is told has its whole audit trail, in order and
\* with that outcome, of an execution that was claimed or denied; and a denied
\* research request never reached the provider, as its trail says
\* (TrustedWorkerToolDispatcher.execute, #auditExternalDenial; the store's
\* recordWorkerAuditEvent).
Types(log) == [i \in DOMAIN log |-> log[i].type]
Trail == <<"proposal.received", "policy.decided", "execution.result", "worker.feedback.returned">>
Audited(t, denied) ==
  /\ Types(store.log[t]) = Trail
  /\ \A i \in 2..4 : store.log[t][i].denied = denied
  /\ t \in store.claimed \cup store.denied
FeedbackIsAudited ==
  \A t \in Turns :
    /\ Told(t, External, "succeeded") => Audited(t, FALSE) /\ t \in store.claimed \cap crossed
    /\ Told(t, External, "denied") => Audited(t, TRUE)
    /\ Told(t, {"research"}, "denied") => t \notin crossed

\* Every session's turns come to an end, and so does the execution its deadline
\* left behind (withinWorkerDeadline, the clients' timeouts).
TurnsEnd == <>[]Over
=============================================================================
