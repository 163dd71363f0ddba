------------------------------ MODULE DemoBudget ------------------------------
(***************************************************************************)
(* The managed-demo budget service of one deployment: the SQLite ledger of *)
(* journey reservations, the in-memory admission queue in front of it and  *)
(* the in-memory usage collectors beside it, with the journey controllers  *)
(* that call the service over IPC.                                         *)
(*                                                                         *)
(* The service is one thread: an IPC request runs to its reply in one step *)
(* here, unless it waits in the queue.  The queue moves when a settlement, *)
(* a policy update or a waiter's own timer drains it; the ledger forfeits  *)
(* an expired reservation only inside a transaction someone asked for.     *)
(* A crash loses queue and collectors and keeps the ledger.  A controller  *)
(* gives up on a silent service (its IPC timeout is shorter than the time  *)
(* a request may queue), which the service does not see.                   *)
(*                                                                         *)
(* Usage is counted in units of one provider call each; money in micro-USD *)
(* at the unit price of the reservation's own price snapshot.              *)
(***************************************************************************)
EXTENDS Integers, Sequences, FiniteSets, SequencesExt

CONSTANTS
    Journeys,        \* journey identifiers, one per controller request
    SourceOf,        \* the source fingerprint of each journey
    Policies,        \* budget policies an operator may put in force
    UnitPrices,      \* prices of one unit of usage
    CapabilityEnds,  \* when each caller's capability ends
    EvidenceLifetime,\* how long a price snapshot's evidence lasts
    DayLength,       \* of a UTC day
    LastAsk,         \* bound: last time a journey asks for admission
    MaxTime,         \* bound: last value of the clock
    MaxUsage,        \* bound: units of one journey
    MaxUpdates,      \* bound: policy updates, and price updates
    MaxBoots         \* bound: service processes started

PolicyRecords ==
    [enabled: BOOLEAN, judge: BOOLEAN, opensAt: Nat, closesAt: Nat,
     total: Nat, daily: Nat, perJourney: Nat \ {0},
     totalJourneys: Nat, dailyJourneys: Nat, perSource: Nat, concurrent: Nat,
     queueCapacity: Nat, queueTimeout: Nat \ {0}, ttl: Nat \ {0}, cooldown: Nat,
     maxUsage: Nat]

\* ManagedDemoBudgetLimitsSchema, and one pool for the whole deployment.
ASSUME PoliciesAssumption ==
    /\ Policies \subseteq PolicyRecords
    /\ \A p \in Policies :
        /\ p.perJourney <= p.daily /\ p.daily <= p.total
        /\ p.perSource <= p.dailyJourneys /\ p.dailyJourneys <= p.totalJourneys
    /\ \A p, q \in Policies : p.judge = q.judge
\* The callers the service tells apart, and what a role's capability may open.
RoleOperations ==
    [journey_controller |-> {"admission.request", "journey.settle"},
     interaction_service |-> {"usage.record"},
     guardian_service |-> {"usage.record"},
     worker_service |-> {"usage.record"},
     research_service |-> {"usage.record"},
     operator |-> {"budget.snapshot", "policy.update", "prices.update"}]
Roles == DOMAIN RoleOperations

ASSUME CapabilityAssumption == CapabilityEnds \in [Roles -> Nat]
ASSUME DemoBoundsAssumption ==
    /\ UnitPrices \subseteq Nat
    /\ DayLength \in Nat \ {0}
    /\ EvidenceLifetime \in Nat \ {0}
    /\ MaxTime \in Nat /\ LastAsk \in Nat
    /\ MaxUsage \in Nat /\ MaxUpdates \in Nat /\ MaxBoots \in Nat \ {0}

VARIABLES
    clock,       \* the service's clock
    rows,        \* journey_reservations
    policy,      \* policy_json of ledger_configuration
    prices,      \* price_snapshot_json of ledger_configuration
    updates,     \* how many policies and price snapshots were replaced
    up,          \* the service process is running
    boots,       \* history: service processes started
    queue,       \* AdmissionQueue.#pending
    collectors,  \* the service's usage collectors
    controller,  \* per journey, where its controller is
    metered      \* history: units the service acknowledged per journey

ledgerVars == <<rows, policy, prices, updates>>
serviceVars == <<up, boots, queue, collectors>>
demoVars == <<clock, ledgerVars, serviceVars, controller, metered>>

ReservationStates == {"absent", "reserved", "settled", "forfeited"}
LedgerRows == [state: ReservationStates, admittedAt: Nat, expiresAt: Nat,
               preauthorized: Nat, unitPrice: UnitPrices \cup {0}, charged: Nat]
Waiters == [journey: Journeys, deadline: Nat]
ControllerStates == {"idle", "waiting", "running", "refused", "gone", "finished"}

AbsentRow == [state |-> "absent", admittedAt |-> 0, expiresAt |-> 0,
              preauthorized |-> 0, unitPrice |-> 0, charged |-> 0]
NoCollector == [state |-> "none", usage |-> 0]

DemoInit ==
    /\ clock = 0
    /\ rows = [j \in Journeys |-> AbsentRow]
    /\ policy \in Policies
    /\ prices \in [unitPrice: UnitPrices, expiresAt: {EvidenceLifetime}]
    /\ updates = [policy |-> 0, prices |-> 0]
    /\ up = TRUE
    /\ boots = 1
    /\ queue = <<>>
    /\ collectors = [j \in Journeys |-> NoCollector]
    /\ controller = [j \in Journeys |-> "idle"]
    /\ metered = [j \in Journeys |-> 0]

-----------------------------------------------------------------------------
(* The ledger's transactions, on a value of its table.                     *)

Day(time) == time \div DayLength
Admitted(table) == {j \in Journeys : table[j].state # "absent"}
AdmittedOn(table, day) == {j \in Admitted(table) : Day(table[j].admittedAt) = day}
Reserved(table) == {j \in Journeys : table[j].state = "reserved"}

\* What a row commits of the budget: its preauthorization, then its charge.
Committed(row) == IF row.state = "reserved" THEN row.preauthorized ELSE row.charged
CommittedBy(table, set) == SumFunction([j \in set |-> Committed(table[j])])

\* expireInside
Expire(table) ==
    [j \in Journeys |->
        IF table[j].state = "reserved" /\ table[j].expiresAt <= clock
        THEN [table[j] EXCEPT !.state = "forfeited", !.charged = table[j].preauthorized]
        ELSE table[j]]

FromSource(table, j) == {k \in AdmittedOn(table, Day(clock)) : SourceOf[k] = SourceOf[j]}

\* Every denial of admitAt that is not for concurrency, under policy p.
Denies(p, table, j) ==
    \/ ~p.enabled
    \/ clock < p.opensAt \/ clock >= p.closesAt
    \/ clock >= prices.expiresAt
    \/ table[j].state # "absent"
    \/ CommittedBy(table, Admitted(table)) + p.perJourney > p.total
    \/ CommittedBy(table, AdmittedOn(table, Day(clock))) + p.perJourney > p.daily
    \/ Cardinality(Admitted(table)) >= p.totalJourneys
    \/ Cardinality(AdmittedOn(table, Day(clock))) >= p.dailyJourneys
    \/ Cardinality(FromSource(table, j)) >= p.perSource
    \/ \E k \in FromSource(table, j) : clock < table[k].admittedAt + p.cooldown

\* Faulty variant: one journey more than the policy allows at once.
OverCrowded(p, table) == Cardinality(Reserved(table)) > p.concurrent

Crowded(p, table) == Cardinality(Reserved(table)) >= p.concurrent

Reserve(p, table, j) ==
    [table EXCEPT ![j] = [state |-> "reserved", admittedAt |-> clock,
        expiresAt |-> clock + p.ttl, preauthorized |-> p.perJourney,
        unitPrice |-> prices.unitPrice, charged |-> 0]]

-----------------------------------------------------------------------------
(* The queue.                                                              *)

\* Faulty variant: the head is admitted and not taken off the queue.
DrainKeepsHead(p, acc, waiter) ==
    LET table == Expire(acc.rows)
        j == waiter.journey
    IN  IF acc.blocked \/ Crowded(p, table)
        THEN [acc EXCEPT !.blocked = TRUE, !.queue = Append(@, waiter)]
        ELSE IF waiter.deadline <= clock \/ Denies(p, table, j)
             THEN [acc EXCEPT !.rows = table, !.refused = @ \cup {j}]
        ELSE [acc EXCEPT !.rows = Reserve(p, table, j), !.admitted = @ \cup {j},
                         !.blocked = TRUE, !.queue = Append(@, waiter)]

\* One turn of the loop in drain: the head is answered, or blocks the rest.
DrainHead(p, acc, waiter) ==
    LET table == Expire(acc.rows)
        j == waiter.journey
    IN  IF acc.blocked THEN [acc EXCEPT !.queue = Append(@, waiter)]
        ELSE IF waiter.deadline <= clock \/ Denies(p, table, j)
             THEN [acc EXCEPT !.rows = table, !.refused = @ \cup {j}]
        ELSE IF Crowded(p, table)
             THEN [acc EXCEPT !.rows = table, !.blocked = TRUE, !.queue = Append(@, waiter)]
        ELSE [acc EXCEPT !.rows = Reserve(p, table, j), !.admitted = @ \cup {j}]

Undrained(table, pending) ==
    [rows |-> table, queue |-> pending, blocked |-> FALSE, admitted |-> {}, refused |-> {}]

\* drain
Drain(p, table, pending) ==
    LET after[n \in 0..Len(pending)] ==
            IF n = 0 THEN Undrained(table, <<>>) ELSE DrainHead(p, after[n - 1], pending[n])
    IN after[Len(pending)]

\* Faulty variant: the settled collector stays in the map.
SealedCollector(j) == [collectors EXCEPT ![j].state = "sealed"]
\* collectors.delete
WithoutCollector(j) == [collectors EXCEPT ![j] = NoCollector]

\* What a handler leaves behind: the ledger and queue of result, a collector
\* for each journey it admitted and an answer for each controller still there.
Answer(result, kept, callers) ==
    /\ rows' = result.rows
    /\ queue' = result.queue
    /\ collectors' = [j \in Journeys |->
            IF j \in result.admitted THEN [state |-> "open", usage |-> 0] ELSE kept[j]]
    /\ controller' = [j \in Journeys |->
            IF callers[j] # "waiting" THEN callers[j]
            ELSE IF j \in result.admitted THEN "running"
            ELSE IF j \in result.refused THEN "refused"
            ELSE "waiting"]

-----------------------------------------------------------------------------
(* The service's operations.                                               *)

\* #serve: a capability of the role, in force, opens the operation.  Every
\* other request is answered with an error and changes nothing.
Opens(role, operation) ==
    /\ operation \in RoleOperations[role]
    /\ clock < CapabilityEnds[role]

\* usageMatchesRole: the processes whose usage is somebody's to report.
Reporters == {role \in Roles : role \notin {"journey_controller", "operator"}}

\* admission.request: AdmissionQueue.admit.
RequestAdmission(j) ==
    LET table == Expire(rows)
        waiting == [controller EXCEPT ![j] = "waiting"]
        denied(left) == [Undrained(left, queue) EXCEPT !.refused = {j}]
    IN
    /\ up
    /\ controller[j] = "idle"
    /\ clock <= LastAsk
    /\ \/ /\ ~Opens("journey_controller", "admission.request")
          /\ Answer(denied(rows), collectors, waiting)
       \/ /\ Opens("journey_controller", "admission.request")
          /\ Denies(policy, table, j)
          /\ Answer(denied(table), collectors, waiting)
       \/ /\ Opens("journey_controller", "admission.request")
          /\ ~Denies(policy, table, j)
          /\ ~Crowded(policy, table)
          /\ Answer([Undrained(Reserve(policy, table, j), queue) EXCEPT !.admitted = {j}],
                    collectors, waiting)
       \/ /\ Opens("journey_controller", "admission.request")
          /\ ~Denies(policy, table, j)
          /\ Crowded(policy, table)
          /\ IF Len(queue) >= policy.queueCapacity THEN Answer(denied(table), collectors, waiting)
             ELSE Answer(Undrained(table, Append(queue,
                        [journey |-> j, deadline |-> clock + policy.queueTimeout])),
                    collectors, waiting)
    /\ UNCHANGED <<clock, policy, prices, updates, up, boots, metered>>

\* Faulty variant: a waiter that timed out is dropped without an answer.
TimeoutWithoutAnswer(j) ==
    /\ up
    /\ \E i \in DOMAIN queue :
        /\ queue[i].journey = j
        /\ queue[i].deadline <= clock
        /\ Answer(Drain(policy, Expire(rows), RemoveAt(queue, i)), collectors, controller)
    /\ UNCHANGED <<clock, policy, prices, updates, up, boots, metered>>

\* timeout: a waiter's own timer.
QueueTimeout(j) ==
    /\ up
    /\ \E i \in DOMAIN queue :
        /\ queue[i].journey = j
        /\ queue[i].deadline <= clock
        /\ LET drained == Drain(policy, Expire(rows), RemoveAt(queue, i)) IN
           Answer([drained EXCEPT !.refused = @ \cup {j}], collectors, controller)
    /\ UNCHANGED <<clock, policy, prices, updates, up, boots, metered>>

\* Faulty variant: a full collector takes one observation more.
RecordPastFull(j) ==
    /\ up
    /\ \E role \in Reporters : Opens(role, "usage.record")
    /\ controller[j] \in {"running", "finished"}
    /\ collectors[j].state = "open"
    /\ collectors[j].usage <= MaxUsage
    /\ collectors' = [collectors EXCEPT ![j].usage = @ + 1]
    /\ metered' = [metered EXCEPT ![j] = @ + 1]
    /\ UNCHANGED <<clock, ledgerVars, up, boots, queue, controller>>

\* usage.record, from a provider process of a journey that was released.
RecordUsage(j) ==
    /\ up
    /\ \E role \in Reporters : Opens(role, "usage.record")
    /\ controller[j] \in {"running", "finished"}
    /\ collectors[j].state = "open"
    /\ collectors[j].usage < MaxUsage
    /\ collectors' = [collectors EXCEPT ![j].usage = @ + 1]
    /\ metered' = [metered EXCEPT ![j] = @ + 1]
    /\ UNCHANGED <<clock, ledgerVars, up, boots, queue, controller>>

Cost(j) == collectors[j].usage * rows[j].unitPrice

\* settlement: a controller whose capability ended, or a completed journey that
\* reported no usage, is refused, and the collector stays open.
Settleable(j, outcome) ==
    /\ Opens("journey_controller", "journey.settle")
    /\ collectors[j].state = "open"
    /\ outcome = "completed" => collectors[j].usage > 0

\* settleAt on a row still reserved once expired ones are forfeited: usage past
\* a ceiling of the current policy or the preauthorization makes it throw.
SettleFails(j) ==
    /\ Expire(rows)[j].state = "reserved"
    /\ collectors[j].usage > policy.maxUsage \/ Cost(j) > rows[j].preauthorized

\* Faulty variant: a settlement after the forfeiture still counts.
SettleAnyRow(row, outcome, usage) ==
    [row EXCEPT !.state = "settled", !.charged = usage * row.unitPrice]

SettleRow(row, outcome, usage) ==
    IF row.state # "reserved" THEN row
    ELSE IF outcome = "failed" /\ usage = 0
         THEN [row EXCEPT !.state = "forfeited", !.charged = row.preauthorized]
         ELSE [row EXCEPT !.state = "settled", !.charged = usage * row.unitPrice]

\* journey.settle: the collector is sealed before the ledger is asked, and the
\* queue is drained after.  A throw rolls the transaction back, leaves the
\* collector sealed and drains nothing.
SettleJourney(j, outcome) ==
    LET finished == [controller EXCEPT ![j] = "finished"] IN
    /\ up
    /\ controller[j] = "running"
    /\ \/ /\ ~Settleable(j, outcome)
          /\ controller' = finished
          /\ UNCHANGED <<rows, queue, collectors>>
       \/ /\ Settleable(j, outcome) /\ SettleFails(j)
          /\ controller' = finished
          /\ collectors' = [collectors EXCEPT ![j].state = "sealed"]
          /\ UNCHANGED <<rows, queue>>
       \/ /\ Settleable(j, outcome) /\ ~SettleFails(j)
          /\ LET table == [Expire(rows) EXCEPT
                    ![j] = SettleRow(@, outcome, collectors[j].usage)] IN
             Answer(Drain(policy, table, queue), WithoutCollector(j), finished)
    /\ UNCHANGED <<clock, policy, prices, updates, up, boots, metered>>

\* budget.snapshot forfeits what has expired, and drains nothing.
Snapshot ==
    /\ up
    /\ Opens("operator", "budget.snapshot")
    /\ rows' = Expire(rows)
    /\ UNCHANGED <<clock, policy, prices, updates, serviceVars, controller, metered>>

\* An enabled judge pool inside its window keeps its capacity.
Reduces(p) ==
    \/ p.opensAt > policy.opensAt \/ p.closesAt < policy.closesAt
    \/ p.cooldown > policy.cooldown
    \/ \E limit \in {"total", "daily", "perJourney", "totalJourneys", "dailyJourneys",
                     "perSource", "concurrent", "queueCapacity", "queueTimeout", "ttl"} :
            p[limit] < policy[limit]
JudgeWindowOpen ==
    policy.judge /\ policy.enabled /\ policy.opensAt <= clock /\ clock < policy.closesAt

\* policy.update, by its exact next version.
UpdatePolicy(p) ==
    /\ up
    /\ Opens("operator", "policy.update")
    /\ updates.policy < MaxUpdates
    /\ ~(JudgeWindowOpen /\ p.enabled /\ Reduces(p))
    /\ policy' = p
    /\ updates' = [updates EXCEPT !.policy = @ + 1]
    /\ Answer(Drain(p, Expire(rows), queue), collectors, controller)
    /\ UNCHANGED <<clock, prices, up, boots, metered>>

\* prices.update: reservations keep the snapshot they were made with.
UpdatePrices(unitPrice) ==
    /\ up
    /\ Opens("operator", "prices.update")
    /\ updates.prices < MaxUpdates
    /\ prices' = [unitPrice |-> unitPrice, expiresAt |-> clock + EvidenceLifetime]
    /\ updates' = [updates EXCEPT !.prices = @ + 1]
    /\ UNCHANGED <<clock, rows, policy, serviceVars, controller, metered>>

-----------------------------------------------------------------------------
(* Controllers, the process and time.                                      *)

\* A controller hears nothing: its IPC timeout, or no service at all.  One
\* that was waiting never learns; one that was settling settles only once.
GiveUp(j) ==
    /\ \/ controller[j] = "waiting" /\ controller' = [controller EXCEPT ![j] = "gone"]
       \/ controller[j] = "running" /\ controller' = [controller EXCEPT ![j] = "finished"]
    /\ UNCHANGED <<clock, ledgerVars, serviceVars, metered>>

\* The process dies, or closes: waiters are rejected, collectors are lost.
StopService ==
    /\ up
    /\ up' = FALSE
    /\ queue' = <<>>
    /\ collectors' = [j \in Journeys |-> NoCollector]
    /\ controller' = [j \in Journeys |->
            IF controller[j] = "waiting" THEN "gone" ELSE controller[j]]
    /\ UNCHANGED <<clock, ledgerVars, boots, metered>>

\* Faulty variant, the rejected alternative of ADR-0044: missing collectors are
\* recovered for the reservations that are still open.
RecoverCollectors ==
    /\ ~up
    /\ boots < MaxBoots
    /\ up' = TRUE
    /\ boots' = boots + 1
    /\ collectors' = [j \in Journeys |->
            IF rows[j].state = "reserved" THEN [state |-> "open", usage |-> 0] ELSE NoCollector]
    /\ UNCHANGED <<clock, ledgerVars, queue, controller, metered>>

\* initialize, with the configuration the ledger already holds: any other
\* configuration is refused and no service starts.
StartService ==
    /\ ~up
    /\ boots < MaxBoots
    /\ up' = TRUE
    /\ boots' = boots + 1
    /\ UNCHANGED <<clock, ledgerVars, queue, collectors, controller, metered>>

DemoTick ==
    /\ clock < MaxTime
    /\ clock' = clock + 1
    /\ UNCHANGED <<ledgerVars, serviceVars, controller, metered>>

DemoNext ==
    \/ \E j \in Journeys :
        \/ RequestAdmission(j) \/ QueueTimeout(j) \/ RecordUsage(j) \/ GiveUp(j)
        \/ \E outcome \in {"completed", "failed"} : SettleJourney(j, outcome)
    \/ Snapshot
    \/ \E p \in Policies : UpdatePolicy(p)
    \/ \E unitPrice \in UnitPrices : UpdatePrices(unitPrice)
    \/ StopService
    \/ StartService
    \/ DemoTick

DemoSpec == DemoInit /\ [][DemoNext]_demoVars

\* Time passes, and a timer that is due fires while its process runs.
FairDemoSpec ==
    /\ DemoSpec
    /\ WF_demoVars(DemoTick)
    /\ \A j \in Journeys : WF_demoVars(QueueTimeout(j))

-----------------------------------------------------------------------------
(* Properties.                                                             *)

DemoTypeOK ==
    /\ clock \in 0..MaxTime
    /\ rows \in [Journeys -> LedgerRows]
    /\ policy \in Policies
    /\ prices \in [unitPrice: UnitPrices, expiresAt: Nat]
    /\ updates \in [policy: 0..MaxUpdates, prices: 0..MaxUpdates]
    /\ up \in BOOLEAN
    /\ boots \in 1..MaxBoots
    /\ queue \in Seq(Waiters)
    /\ collectors \in [Journeys -> [state: {"none", "open", "sealed"}, usage: 0..MaxUsage]]
    /\ controller \in [Journeys -> ControllerStates]
    /\ metered \in [Journeys -> Nat]

\* The budget grows only by admissions, and every step that admits, several
\* waiters at once included, leaves all the limits of the policy then in force
\* respected: money in total and today, journeys in total, today and per
\* source, the cooldown between them and the journeys running at once.
BudgetHolds ==
    [][LET new == Admitted(rows') \ Admitted(rows)
           today == AdmittedOn(rows', Day(clock)) IN
       /\ new = {} => CommittedBy(rows', Admitted(rows')) <= CommittedBy(rows, Admitted(rows))
       /\ new # {} =>
            /\ policy'.enabled
            /\ CommittedBy(rows', Admitted(rows')) <= policy'.total
            /\ CommittedBy(rows', today) <= policy'.daily
            /\ Cardinality(Admitted(rows')) <= policy'.totalJourneys
            /\ Cardinality(today) <= policy'.dailyJourneys
            /\ Cardinality(Reserved(rows')) <= policy'.concurrent
       /\ \A j \in new :
            /\ Cardinality({k \in today : SourceOf[k] = SourceOf[j]}) <= policy'.perSource
            /\ \A k \in today \ {j} : SourceOf[k] = SourceOf[j] =>
                    clock >= rows'[k].admittedAt + policy'.cooldown]_demoVars

\* ADR-0043: uncertainty is never free.  A reservation that ended is charged
\* for all the usage the service ever acknowledged, at the price it was
\* reserved with, or for the whole preauthorization: whatever was lost in a
\* crash, sealed by a failed settlement or metered after its expiry.
MeteredIsCharged ==
    \A j \in Journeys : rows[j].state \in {"settled", "forfeited"} =>
        /\ rows[j].charged <= rows[j].preauthorized
        /\ \/ rows[j].charged = rows[j].preauthorized
           \/ rows[j].charged >= metered[j] * rows[j].unitPrice

\* A reservation ends once: a settlement that arrives after the forfeiture
\* changes nothing, nor does any later policy or price.
TerminalIsFinal ==
    [][\A j \in Journeys :
        /\ rows[j].state \in {"settled", "forfeited"} => rows'[j] = rows[j]
        /\ rows[j].state # "absent" =>
            /\ rows'[j].preauthorized = rows[j].preauthorized
            /\ rows'[j].unitPrice = rows[j].unitPrice]_demoVars

\* ADR-0044: no queued waiter has started provider work or acquired a
\* reservation.  A waiter is queued once, and a controller that still waits
\* has its place in the queue.
WaitersHoldNothing ==
    /\ \A i \in DOMAIN queue :
        /\ rows[queue[i].journey] = AbsentRow
        /\ collectors[queue[i].journey] = NoCollector
        /\ metered[queue[i].journey] = 0
        /\ \A k \in DOMAIN queue : queue[k].journey = queue[i].journey => k = i
    /\ \A j \in Journeys : controller[j] = "waiting" =>
            up /\ \E i \in DOMAIN queue : queue[i].journey = j

\* The collectors in memory follow the ledger on disk: a settled journey
\* leaves none behind, and one exists only for a reservation that is open or
\* that expired under it.
CollectorsFollowLedger ==
    \A j \in Journeys : collectors[j].state # "none" =>
        /\ rows[j].state \in {"reserved", "forfeited"}
        /\ collectors[j].usage = metered[j]

\* Whoever waits is answered: admitted, refused, timed out or, when the service
\* stops, rejected.
WaitersAreAnswered ==
    \A j \in Journeys : controller[j] = "waiting" ~> controller[j] # "waiting"

\* ADR-0044: "bounded FIFO admission queue".  Nobody is admitted past a waiter
\* still in time that is left in the queue.  A newcomer is: it asks the ledger
\* before it looks at the queue, and its own transaction forfeits the expired
\* reservation the waiters were waiting for.
FifoAdmission ==
    [][\A j \in Admitted(rows') \ Admitted(rows) :
        \A i \in DOMAIN queue :
            queue[i].deadline > clock /\ (\E k \in DOMAIN queue' : queue'[k] = queue[i])
                => \E n \in 1..(i - 1) : queue[n].journey = j]_demoVars
=============================================================================
