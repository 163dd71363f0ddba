---------------------------- MODULE JudgePortal -----------------------------
(***************************************************************************)
(* The judge's side of Guardian: JudgePortal (drafts, previews, one         *)
(* confirmation each), the coordinator's journeys run by the headless       *)
(* executor, the control API in front of them, and the protected host that  *)
(* starts and closes them beside the budget service's process.  A host      *)
(* serves one of the two routes.  Requests of a caller whose address,       *)
(* bearer credential, source, digest or body is wrong are answered without  *)
(* touching any state and are not steps.                                    *)
(***************************************************************************)
EXTENDS JudgeSession, FiniteSets, Naturals

CONSTANTS Sessions, MaxSessions, NoSession

ASSUME SessionsAssumption ==
  MaxSessions \in Nat \ {0} /\ NoSession \notin Sessions

VARIABLES
  service,   \* the route the host serves
  session,   \* every session's record
  portal,    \* #closed, and whether close() has resolved
  executor,  \* the headless executor's #closed and #running
  host,      \* startProtectedJudgeHost and its memoised close
  secrets,   \* the ingress secrets in memory
  child,     \* the budget service's process
  burned     \* the fixtures reserved on disk

vars == <<service, session, portal, executor, host, secrets, child, burned>>
outside == <<service, portal, executor, host, secrets, child>>

\* The standalone control API serves no judge route at all; the protected host
\* serves the portal, the headless host the coordinator's journeys.
Services == {"portal", "journeys"}

Init ==
  /\ service \in Services
  /\ session = [s \in Sessions |-> NewSession]
  /\ portal = "open"
  /\ executor = [closed |-> FALSE, running |-> NoSession]
  /\ host = "secrets"
  /\ secrets = "none"
  /\ child = "none"
  /\ burned = {}

Put(s, record) == session' = [session EXCEPT ![s] = record]
OnlySession == UNCHANGED <<service, portal, executor, host, secrets, child, burned>>

\* The bearer is verified and the source's fingerprint derived with secrets in
\* memory; wiped ones verify nobody.
Verifies == secrets = "held"

\* A request read before the app closed may be handled after.
Serves(route) == service = route /\ Verifies /\ host \in {"up", "closing"}

(***************************************************************************)
(* Drafting                                                                *)
(***************************************************************************)
Preparing == {"scope", "begin", "prepare", "start", "undo", "unsettle", "drop"}
InUse == {s \in Sessions : session[s].at \in Preparing \cup {"pending", "running"}}

Over(r, answer) == [r EXCEPT !.at = "done", !.told = answer, !.verdict = "none"]

Draft(s) ==
  /\ Serves("portal") /\ session[s].at = "idle"
  /\ Put(s, IF portal # "open" THEN Over(session[s], "unavailable")
            ELSE IF Cardinality(InUse) >= MaxSessions
            THEN Over(session[s], "capacity_unavailable")
            ELSE [session[s] EXCEPT !.at = "scope"])
  /\ OnlySession

\* A mistaken reservation that takes a directory that exists for its own.
ReserveAgain(s, record) ==
  \E fixture \in Fixtures :
    /\ burned' = burned \cup {fixture}
    /\ Put(s, [record EXCEPT !.fixture = fixture])

\* JudgeMutationFixturePool: the first fixture whose directory does not exist
\* yet is burned, even if writing the reservation fails afterwards.
Reserve(s, record) ==
  \E fixture \in Fixtures \ burned :
    /\ burned' = burned \cup {fixture}
    /\ \/ Put(s, [record EXCEPT !.fixture = fixture])
       \/ Put(s, Over(session[s], "unavailable"))

\* The scenario's factory or the piloted scope, and the scenario's target
\* check.  The merge scenario reserves its fixture here.
DraftScope(s) ==
  /\ session[s].at = "scope"
  /\ LET drafted == [session[s] EXCEPT !.at = "begin"]
     IN \/ /\ \/ \E merges \in BOOLEAN : Put(s, [drafted EXCEPT !.merges = merges])
              \/ Put(s, Over(session[s], "unavailable"))
           /\ UNCHANGED burned
        \/ Reserve(s, [drafted EXCEPT !.merges = TRUE])
  /\ UNCHANGED outside

\* budget.begin, then the check of the reporters' binding.
DraftBegin(s) ==
  /\ session[s].at = "begin" /\ service = "portal"
  /\ \/ Put(s, Over(session[s], "unavailable"))
     \/ /\ child = "ready"
        /\ \/ Put(s, [session[s] EXCEPT !.admitted = TRUE, !.at = "prepare"])
           \/ Put(s, [Settle(session[s], "failed") EXCEPT !.admitted = TRUE, !.at = "unsettle"])
  /\ OnlySession

\* A piloted merge reserves its target now; then the runtime's own checks and
\* its private journey directory.
PrepareRuntime(s) ==
  /\ session[s].at = "prepare"
  /\ LET starting == [session[s] EXCEPT !.at = "start", !.supervisor = "starting"]
     IN \/ /\ session[s].merges => session[s].fixture # NoFixture
           /\ Put(s, starting) /\ UNCHANGED burned
        \/ /\ session[s].merges /\ session[s].fixture = NoFixture
           /\ \E fixture \in Fixtures \ burned :
                /\ burned' = burned \cup {fixture}
                /\ Put(s, [starting EXCEPT !.fixture = fixture])
        \/ /\ Put(s, [Settle(session[s], "failed") EXCEPT !.at = "unsettle"])
           /\ burned' \in {burned} \cup (IF session[s].merges /\ session[s].fixture = NoFixture
                                         THEN {burned \cup {f} : f \in Fixtures} ELSE {})
  /\ UNCHANGED outside

\* A mistaken draft that asked whether the portal is closed before it awaited.
PreparedEarlier(r, sameScope) ==
  IF ~sameScope THEN [CloseSession(r) EXCEPT !.at = "drop"]
  ELSE [r EXCEPT !.at = "pending"]

\* What a draft does with a prepared session: one whose scope changed, or that
\* was prepared while the portal closed, is closed again.
Prepared(r, sameScope) ==
  IF ~sameScope \/ portal # "open"
  THEN [CloseSession(r) EXCEPT !.at = "drop"]
  ELSE [r EXCEPT !.at = "pending"]

StartSupervisor(s) ==
  /\ session[s].at = "start" /\ service = "portal"
  /\ \/ Put(s, [Settle(session[s], "failed")
                EXCEPT !.at = "unsettle", !.supervisor = "none"])
     \/ LET r == [session[s] EXCEPT !.supervisor = "up"]
        IN \/ Put(s, [CloseRuntime(r) EXCEPT !.at = "undo"])
           \/ \E sameScope \in BOOLEAN : Put(s, Prepared(r, sameScope))
  /\ OnlySession

DraftFails(s) ==
  /\ \/ /\ session[s].at = "undo" /\ Ended(session[s].shutdown)
        /\ Put(s, [Settle(session[s], "failed") EXCEPT !.at = "unsettle"])
     \/ /\ \/ session[s].at = "unsettle" /\ Answered(session[s])
           \/ session[s].at = "drop" /\ Ended(session[s].closer)
        /\ Put(s, Over(session[s], "unavailable"))
  /\ OnlySession

(***************************************************************************)
(* A preview's end: the 30 second timer, a confirmation, or the portal.     *)
(***************************************************************************)
Discard(r, answer) == [CloseSession(r) EXCEPT !.at = "discard", !.verdict = answer]

PreviewExpires(s) ==
  /\ session[s].at = "pending"
  /\ Put(s, Discard(session[s], "none"))
  /\ OnlySession

\* Consumed before any await; a preview past its time, from before the clock
\* was set back, or whose caller is gone is discarded instead.
Confirm(s) ==
  /\ Serves("portal") /\ portal = "open"
  /\ session[s].at = "pending"
  /\ \/ Put(s, Discard(session[s], "preview_unavailable"))
     \/ Put(s, [ConfirmAndRun(session[s]) EXCEPT !.at = "running"])
  /\ OnlySession

Discarded(s) ==
  /\ session[s].at = "discard" /\ Ended(session[s].closer)
  /\ Put(s, Over(session[s], session[s].verdict))
  /\ OnlySession

\* The caller disconnects, or the 300 seconds pass.
CancelRun(s) ==
  /\ session[s].at = "running" /\ ~session[s].aborted
  /\ Put(s, Cancel(session[s]))
  /\ OnlySession

\* The race of the run and the cancel, and the finally's close.
RunEnds(s) ==
  /\ session[s].at = "running"
  /\ session[s].run \in {"returned", "threw"} \/ session[s].aborted
  /\ LET verdict == IF session[s].run = "returned" /\ ~session[s].aborted
                    THEN session[s].runtime ELSE "unavailable"
     IN Put(s, [CloseSession(session[s]) EXCEPT !.at = "leaving", !.verdict = verdict])
  /\ OnlySession

Leave(s) ==
  /\ session[s].at = "leaving" /\ Ended(session[s].closer)
  /\ Put(s, Over(session[s], IF session[s].closer = "failed" THEN "unavailable"
                            ELSE session[s].verdict))
  /\ OnlySession

(***************************************************************************)
(* A headless journey of the coordinator                                   *)
(***************************************************************************)
Journey(s) ==
  /\ Serves("journeys") /\ session[s].at = "idle"
  /\ Put(s, [session[s] EXCEPT !.at = "begin"])
  /\ OnlySession

\* The listener of the caller's abort and of the executor's close: it closes
\* the supervisor once there is one.
ExecutorAborts(r) == IF r.supervisor = "up" THEN CloseRuntime(r) ELSE r

\* The caller's abort reaches the executor's listener once there is a supervisor.
JourneyAborts(s) ==
  /\ service = "journeys" /\ ~session[s].aborted
  /\ session[s].at \notin {"idle", "settle", "done"}
  /\ LET r == [session[s] EXCEPT !.aborted = TRUE]
     IN Put(s, IF r.at \in {"launch", "journey"} THEN ExecutorAborts(r) ELSE r)
  /\ OnlySession

\* The coordinator's settlement once the executor has returned.
SettleJourney(r) ==
  [Settle(r, IF r.verdict = "completed" /\ ~r.aborted THEN "completed" ELSE "failed")
   EXCEPT !.at = "settle",
          !.verdict = IF r.verdict = "completed" /\ ~r.aborted
                      THEN "completed" ELSE "journey_failed"]

ExecutorRefuses(s) ==
  executor.closed \/ executor.running # NoSession \/ session[s].aborted

JourneyBegin(s) ==
  /\ session[s].at = "begin" /\ service = "journeys"
  /\ \/ \E answer \in {"denied", "service_unavailable"} :
          Put(s, Over(session[s], answer))
        /\ UNCHANGED executor
     \/ /\ child = "ready"
        /\ \/ /\ Put(s, SettleJourney([session[s] EXCEPT !.admitted = TRUE]))
              /\ UNCHANGED executor
           \/ /\ ~ExecutorRefuses(s)
              /\ Put(s, [session[s] EXCEPT !.admitted = TRUE, !.at = "mkdir"])
              /\ executor' = [executor EXCEPT !.running = s]
  /\ UNCHANGED <<service, portal, host, secrets, child, burned>>

\* The executor's finally: close what was started.
Stop(r, verdict) ==
  LET t == [r EXCEPT !.at = "stopping", !.verdict = verdict]
  IN IF t.supervisor = "up" THEN CloseRuntime(t) ELSE t

Halted(s) == session[s].aborted \/ executor.closed

JourneyStarts(s) ==
  /\ \/ /\ session[s].at = "mkdir"
        /\ \/ Put(s, Stop(session[s], "stopped"))
           \/ /\ ~Halted(s)
              /\ Put(s, [session[s] EXCEPT !.at = "start", !.supervisor = "starting"])
     \/ /\ session[s].at = "start" /\ service = "journeys"
        /\ \/ Put(s, Stop([session[s] EXCEPT !.supervisor = "none"], "stopped"))
           \/ LET r == [session[s] EXCEPT !.supervisor = "up"]
              IN Put(s, IF Halted(s) THEN Stop(r, "stopped") ELSE [r EXCEPT !.at = "launch"])
  /\ OnlySession

JourneyRuns(s) ==
  /\ \/ /\ session[s].at = "launch"
        /\ \/ Put(s, Stop(session[s], "stopped"))
           \/ /\ ~Halted(s)
              /\ Put(s, [session[s] EXCEPT !.at = "journey"])
     \/ /\ session[s].at = "journey"
        /\ \/ Put(s, Stop(session[s], "stopped"))
           \/ /\ ~Halted(s)
              /\ Put(s, Stop(session[s], "completed"))
  /\ OnlySession

\* A failing close makes the executor throw; the coordinator then settles.
JourneyStops(s) ==
  /\ session[s].at = "stopping"
  /\ session[s].supervisor = "none" \/ Ended(session[s].shutdown)
  /\ Put(s, SettleJourney(IF session[s].shutdown = "failed"
                          THEN [session[s] EXCEPT !.verdict = "stopped"]
                          ELSE session[s]))
  /\ executor' = [executor EXCEPT !.running = NoSession]
  /\ UNCHANGED <<service, portal, host, secrets, child, burned>>

JourneyEnds(s) ==
  /\ session[s].at = "settle" /\ Answered(session[s])
  /\ Put(s, Over(session[s], IF session[s].settlement = "rejected" THEN "service_unavailable"
                            ELSE session[s].verdict))
  /\ OnlySession

(***************************************************************************)
(* What the session objects and the supervisors do by themselves            *)
(***************************************************************************)
LaunchEnds(s) ==
  /\ session[s].runtime = "launch"
  /\ \E end \in {"completed", "stopped", "threw"} : Put(s, Launched(session[s], end))
  /\ OnlySession

RuntimeReturns(s) ==
  /\ session[s].runtime = "closing" /\ Ended(session[s].shutdown)
  /\ Put(s, RuntimeReturned(session[s]))
  /\ OnlySession

RunSettles(s) ==
  /\ session[s].run = "launch"
  /\ session[s].runtime \in {"completed", "stopped", "threw"}
  /\ Put(s, RunSettled(session[s]))
  /\ OnlySession

RunReturns(s) ==
  /\ session[s].run \in {"settling", "failing"} /\ Answered(session[s])
  /\ Put(s, RunReturned(session[s]))
  /\ OnlySession

CloserSettles(s) ==
  /\ session[s].closer = "waiting" /\ Ended(session[s].shutdown)
  /\ Put(s, CloserSettled(session[s]))
  /\ OnlySession

CloserEnds(s) ==
  /\ session[s].closer = "settling" /\ Answered(session[s])
  /\ Put(s, CloserEnded(session[s]))
  /\ OnlySession

\* supervisor.close ends, cleanly or not, and its processes are gone.
SupervisorCloses(s) ==
  /\ session[s].shutdown = "waiting" /\ session[s].supervisor = "up"
  /\ \E end \in {"done", "failed"} :
       Put(s, [session[s] EXCEPT !.shutdown = end, !.supervisor = "down"])
  /\ OnlySession

\* The budget service answers, or its answer is lost; with its process gone
\* there is no answer.
SettlementAnswers(s) ==
  /\ session[s].settlement = "asked"
  /\ \E reply \in {"settled", "pending", "lost"} :
       /\ child = "ready" \/ reply = "lost"
       /\ Put(s, [session[s] EXCEPT !.settlement = SettlementPromise(session[s], reply)])
  /\ OnlySession

(***************************************************************************)
(* The host: secrets, the budget service's process, the portal and the app; *)
(* its close is memoised and the child's exit calls it.                     *)
(***************************************************************************)
UnchangedHost == UNCHANGED <<service, session, portal, executor, burned>>

\* The child's own close: SIGTERM to a live process, SIGKILL five seconds later.
Terminate == IF child \in {"starting", "ready"} THEN "term" ELSE child

HostSecrets ==
  /\ host = "secrets"
  /\ \/ host' = "budget" /\ secrets' = "held" /\ child' = "starting"
     \/ host' = "closing" /\ UNCHANGED <<secrets, child>>
  /\ UnchangedHost

\* The ready line in time, or anything else: the child is closed first.
BudgetStarts ==
  /\ host = "budget"
  /\ \/ child = "starting" /\ child' = "ready" /\ host' = "listen"
     \/ child = "starting" /\ child' = "term" /\ host' = host
     \/ child = "gone" /\ child' = child /\ host' = "closing"
  /\ UNCHANGED secrets /\ UnchangedHost

Listen ==
  /\ host = "listen"
  /\ \/ host' = "up" /\ child' = child
     \/ host' = "closing" /\ child' = Terminate
  /\ UNCHANGED secrets /\ UnchangedHost

\* SIGINT or SIGTERM, or the budget service's process has exited.
HostClose ==
  /\ host = "up"
  /\ host' = "closing" /\ child' = Terminate
  /\ UNCHANGED secrets /\ UnchangedHost

\* The process exits; unexpected output of a ready child closes it.
ChildExits ==
  /\ child \in {"starting", "ready", "term"}
  /\ child' = "gone"
  /\ UNCHANGED <<host, secrets>> /\ UnchangedHost

ChildClosed ==
  /\ child = "ready" /\ child' = "term"
  /\ UNCHANGED <<host, secrets>> /\ UnchangedHost

\* portal.close in the app's onClose hook: every run is aborted, every preview
\* discarded and every active session closed, in one synchronous step.
PortalClosed(r) ==
  CASE r.at = "pending" -> Discard(r, "none")
    [] r.at = "running" -> Cancel(r)
    [] OTHER -> r

AppCloses ==
  /\ host = "closing" /\ portal = "open"
  /\ portal' = "closing"
  /\ executor' = [executor EXCEPT !.closed = TRUE]
  /\ session' = [s \in Sessions |->
       IF service = "portal" THEN PortalClosed(session[s])
       ELSE IF s = executor.running THEN ExecutorAborts(session[s]) ELSE session[s]]
  /\ UNCHANGED <<service, host, secrets, child, burned>>

\* close() waits for the sessions it closed, then the secrets are wiped.
PortalCloses ==
  /\ portal = "closing"
  /\ \A s \in Sessions : session[s].at = "discard" \/ session[s].aborted =>
       session[s].closer \in {"no", "done", "failed"}
  /\ portal' = "closed" /\ secrets' = "closed"
  /\ UNCHANGED <<service, session, executor, host, child, burned>>

HostCloses ==
  /\ host = "closing" /\ portal = "closed" /\ child \in {"none", "gone"}
  /\ host' = "closed"
  /\ UNCHANGED <<secrets, child>> /\ UnchangedHost

(***************************************************************************)
(* The specification                                                       *)
(***************************************************************************)

\* What the clients, the clock and the supervised work decide.
ClientStep(s) ==
  \/ Draft(s) \/ Confirm(s) \/ Journey(s) \/ JourneyAborts(s) \/ LaunchEnds(s)

\* What a timer or a bounded call makes happen.
PortalStep(s) ==
  \/ DraftScope(s) \/ DraftBegin(s) \/ PrepareRuntime(s) \/ StartSupervisor(s)
  \/ DraftFails(s) \/ PreviewExpires(s) \/ Discarded(s) \/ CancelRun(s)
  \/ RunEnds(s) \/ Leave(s)

JourneyStep(s) ==
  \/ JourneyBegin(s) \/ JourneyStarts(s) \/ JourneyRuns(s) \/ JourneyStops(s)
  \/ JourneyEnds(s)

SessionStep(s) ==
  \/ RuntimeReturns(s) \/ RunSettles(s) \/ RunReturns(s)
  \/ CloserSettles(s) \/ CloserEnds(s)

HostStep ==
  \/ HostSecrets \/ BudgetStarts \/ Listen \/ HostClose \/ ChildExits \/ ChildClosed
  \/ AppCloses \/ PortalCloses \/ HostCloses

Next ==
  \/ \E s \in Sessions :
       \/ ClientStep(s) \/ PortalStep(s) \/ JourneyStep(s) \/ SessionStep(s)
       \/ SupervisorCloses(s) \/ SettlementAnswers(s)
  \/ HostStep

\* The timers fire, the bounded calls return, supervisor.close ends and the
\* budget client's answer or timeout comes; nobody has to confirm, disconnect or
\* finish its work, and the host need not ever close.
Fairness ==
  \A s \in Sessions :
    /\ WF_vars(PortalStep(s)) /\ WF_vars(JourneyStep(s)) /\ WF_vars(SessionStep(s))
    /\ WF_vars(SupervisorCloses(s)) /\ WF_vars(SettlementAnswers(s))

Spec == Init /\ [][Next]_vars /\ Fairness

(***************************************************************************)
(* Properties                                                              *)
(***************************************************************************)

\* A caller is told "completed" only of a journey the budget was asked to settle
\* as completed and did settle, whose run nobody aborted and whose supervisor
\* has been closed: run, cancel, expiry and close race for one settlement.
CompletedIsSettled ==
  \A s \in Sessions : session[s].told = "completed" =>
    /\ session[s].outcome = "completed" /\ session[s].settlement = "settled"
    /\ session[s].supervisor = "down" /\ session[s].shutdown = "done"
    /\ service = "portal" => ~session[s].aborted

\* A pull request provisioned as a fixture is merged by at most one session, and
\* a session whose scope merges is offered for confirmation only with its own.
FixturesUsedOnce ==
  \A s \in Sessions :
    /\ session[s].at \in {"pending", "running"} /\ session[s].merges =>
         session[s].fixture # NoFixture
    /\ session[s].fixture # NoFixture =>
         \A t \in Sessions \ {s} : session[t].fixture # session[s].fixture

\* Once the portal's close has run, no preview is left to confirm and no worker
\* goes on without its supervisor being closed, drafts in flight included.
ClosedPortalRunsNothing ==
  portal # "open" /\ service = "portal" =>
    \A s \in Sessions :
      /\ session[s].at # "pending"
      /\ session[s].runtime = "launch" => session[s].shutdown # "no"

\* Every journey the budget admitted is settled, or the budget's answer is lost,
\* and its supervisor is closed: no refusal, expiry, cancel or close forgets one.
JourneysEnd ==
  \A s \in Sessions :
    session[s].admitted ~> (Answered(session[s]) /\ session[s].supervisor \in {"none", "down"})
=============================================================================
