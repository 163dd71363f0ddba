# A verification project for Agentic Guardian

Agentic Guardian lets a contained AI worker act for a person: it reads and
merges pull requests, searches the web and runs local commands, and each of
these acts is bounded by an authority that separate local services enforce.
This directory holds TLA+ models of that enforcement, translated from the
TypeScript under `src/`, the TLC configurations that check them, and theorems
proved with TLAPS. `PROJECT.json` lists, for every definition, the source lines
it models.

## The system

Several Node processes on one machine talk over Unix-domain IPC, one JSON line
per request. None retries a call. The parts that decide anything are these.

| Component | State it keeps | Operations | Talks to |
|---|---|---|---|
| Authority store and service (`packages/authority-store`, `apps/authority-service`) | SQLite tables: sessions, budgets, tool executions, boundary events, audit events, research reservations, approvals, attempts, decisions, connections | one `BEGIN IMMEDIATE` transaction each; a restart interrupts every active session | everyone, by IPC |
| Session plans (`authority-store/session-plans.ts`) | grants by version, plan executions, the pending queue | store, revoke, check (inspect, consume, defer) | called inside the store |
| Broker (`packages/broker`, `adapter-github`, `authorization`) | the local variables of each running `execute` | execute a read or a merge | store, Guardian, GitHub |
| GitHub credential (`apps/broker-service/github-credential.ts`) | three keyring records, one rotation in flight | use, rotate, clean up | keyring, GitHub |
| Research (`apps/research-service`, `packages/research`) | a ledger of one journey, one process per session | search, extract | store, provider, demo budget |
| Worker turns and dispatcher (`reference-supervisor/worker-execution.ts`, `worker-deadline.ts`) | the turn in progress | dispatch a tool, record a violation, interrupt, audit, complete | store, executor, broker, research |
| Formation and bootstrap (`packages/session/formation.ts`, `reference-supervisor/bootstrap.ts`) | mission drafts, previews, the launched runtime | compile, preview, confirm and launch | session host, store |
| Session runtime and host (`packages/session/runtime.ts`, `apps/session-host`) | termination, remaining scopes | authorize, revoke, interrupt | supervisor |
| Supervised processes (`reference-supervisor/supervised-process.ts`, attachment, journey) | child state, attachment state | start, close, run | child processes |
| Workspace (`packages/workspace`) | the managed copy of the project | plan, prepare, close | the source project, Git |
| Managed demo budget (`packages/managed-demo-budget`, service, client) | SQLite reservations and configuration; an admission queue and usage collectors in memory | admit, record usage, settle, snapshot, update policy and prices | controllers, provider processes |
| Judge portal, ingress and host (`apps/control-api`, `apps/judge-host-service`) | previews, active runs, a memoised settlement | preview, confirm and run, discard, close | demo budget, supervisor |
| Credential store, verification, CLI setup | operating-system keyring entries | store, verify, restore | keyring, providers |
| Guardian, interaction, worker providers | none that outlives a call (the action-risk service: its one turn) | evaluate, answer | model providers |

What makes each of them correct, and hard to test:

* **Authority store.** Three processes spend one session's budget; expiry is
  noticed lazily; the wall clock may be set back, and only some operations
  notice; a crash leaves sessions marked active. Correct means: revocation
  follows the recorded violations, no budget is lost or spent twice, an
  execution is claimed once for ever, the end of a session is final.
* **Session plans.** A plan may be replaced, revoked or expire between two
  checks. Correct means: ceilings hold per version, an execution happens once
  over all versions, only the latest grant in force is consumed, the pending
  queue keeps the first proposal.
* **Broker.** Every await is a place where other executions, the operator and
  GitHub move; a reply may be lost after the call took effect, and a PUT that
  timed out may still merge. Correct means: no effect without its own unit of
  authority, spent in force and once; denials that sound definite are; the
  records tell the truth.
* **Demo budget.** A single-threaded service with a durable ledger and volatile
  queue and collectors. Correct means: limits hold however many waiters one
  drain admits; uncertainty is charged in full, never free; an ended
  reservation does not change; waiters hold nothing and are answered.
* **GitHub credential and its store.** Two processes, the broker and the command
  line, write the same three keyring records one at a time, and GitHub rotates
  the pair before any of them is written. Correct means: metadata that calls the
  pair fresh vouches for a token that GitHub honours, and what the command line
  reports is what the store holds.
* **Judge portal.** Confirm, discard, expiry, cancel, the journey's own end and
  the host's close race for one session whose settlement is memoised. Correct
  means: nothing is told completed that was not settled as completed, no
  fixture merges twice, a closed portal runs nothing, no admitted journey is
  forgotten.
* **Formation, launch, processes and workspace.** A candidate is consumed before
  the steps that may fail; every service is a process that may hang, exit or
  fail to start; the source project changes between two looks at it. Correct
  means: what runs is what was reviewed and confirmed, on the copy that was
  previewed, and every process ends.
* **Worker turns and research.** The dispatcher and the research service go on
  when a deadline has ended the wait for them, and every call to the authority
  may be lost with or without its effect. Correct means: evidence has its
  accounts, an external result has its audit trail, everything ends.

## The modules

How they compose: `Broker` EXTENDS `SessionPlans` and `Guardian` and implements
`AuthorizedEffects`; `GitHubCredential` EXTENDS `CredentialSetup`, so that both
processes write one store; `JudgePortal` EXTENDS `JudgeSession`; `MissionLaunch`
EXTENDS `MissionFormation`, `SupervisedChild` and `Workspace`; `WorkerTurns`
EXTENDS `ResearchService` and `SupervisedChild`.

### WorkerAuthority

One action per store operation; each runs in one immediate transaction, so it is
one step. The variables are the tables (`sessions`, `budgets`, `executions`,
`boundary`, `audit`, `reservations`, and of `plan` only what these operations
read), the service process (`up`, `boot`) and its clock `now`, which `StepBack`
sets back. Three history variables (`granted`, `brokerCalls`, `bornIn`) are
written and never read by the model. `ConsumeWorkerExecution` stands for the
store's `consumeWorkerToolCall`, `consumeLocalCommand` and
`claimExternalExecution`, which share one body; its four disjuncts are its four
outcomes. An operation that would throw is not enabled, since a transaction
that throws is rolled back. `Restart` is the service constructor: it interrupts
every active session before it listens, and refuses to start on a clock that
precedes one.

Abstractions: identifiers and digests are model values; audit events are the
three types the state machine tells apart (a step, and the two that complete a
session); violation codes keep only the severity, in the row as in the policy.

### SessionPlans

The three tables of one session (every query selects on `session_id`).
`Verdict` lists the early returns of `check` in their order, `Check` writes
what each verdict writes. A plan's content is the base branch expected of each
operation and resource (a pull request at one head), the two ceilings and the
expiry.

### Broker and AuthorizedEffects

`Broker` EXTENDS `SessionPlans` and runs several executions of
`GitHubBroker.execute`, each split where the code awaits; `pc` names the await.
A call to the authority service can be lost before it took effect (`CallLost`)
or lose its reply after it (`replied = FALSE`). The PUT is a message to GitHub:
`PutUncertain` ends the execution, and `ProviderAnswers` may still merge.
A broker process that dies is an execution that takes no further step; without
fairness every prefix is allowed. Plans are stored and revoked, approvals
issued, the session or the connection ends, the pull request changes and time
passes at any point.

The Guardian is the action-risk service of `Guardian`: what the broker hears is
computed from the answers of the two models, and each execution records its
outcome, which `DecisionsTruthful` relates to the effect.

`AuthorizedEffects` is the promise: a unit of authority (an exact approval, or
a plan's permission for one pull request at one head) is spent only in force,
pays for at most one effect, and the effect comes after. The broker implements
it under the mapping in `Broker!Effects`.

### DemoBudget

The service is one thread, so an IPC request runs to its reply in one step
unless it queues. `Expire`, `Denies`, `Crowded`, `Reserve` are the ledger's
transaction on a value of its table; `Drain` folds the loop of `#drain` over
the queue. `Answer` is what a handler leaves behind: a collector for each
admitted journey and an answer for each controller that still waits.
`SettleJourney` has three disjuncts: a settlement refused by the collector, one
refused by the ledger after the collector was sealed, and one that goes through
and drains. `GiveUp` is the client's IPC timeout, which the service does not
see; `StopService` loses queue and collectors and keeps the ledger.

`Opens` is the IPC boundary: what a role's capability may do, and until when. A
controller whose capability ends before its journey does can no longer settle
it, and the reservation is forfeited in full when it expires.

Abstractions: usage is a count of units at one price; the ceilings on models and
searches are one `maxUsage`, and the four provider services report the same
unit; `UpdatePolicy` takes the version checks as met; capabilities are issued at
time 0; the clock of this service is not set back.

### Guardian

How an opinion about an action comes about: the service refuses a call that is
unauthorised, late or not its first; otherwise the primary model answers and,
only if its answer has no shape, the escalation model. `ApplyRecommendation`
raises the deterministic floor and never lowers it; a failed or shapeless advice,
or one that is not certain, is a step-up. Pure operators, without variables.

### CredentialSetup and GitHubCredential

A keyring slot holds the number of a credential, or nothing. A helper process
makes each access; one that fails, or is killed by its timeout, may have taken
effect. `CredentialSetup` is the command line, one command at a time (`cli`):
enrolment of GitHub's pair through the device flow, a research key entered in a
one-time loopback page, review and revocation, each with its snapshot and its
rollback; `Kill` ends it anywhere. `GitHubCredential` is the broker's side: a use
reads the metadata, takes the token or joins the rotation in flight; the
rotation reads the refresh token, posts it, and writes refresh token, access
token and metadata in that order; a failed write starts a cleanup whose
deletions may fail too; the broker may die at any point. Under the managed
custody a use mints an installation token instead.

Two writers share the keyring with no lock. `raced` marks a store both wrote at
once and `unwound` one a rollback has mixed; the properties leave these out, and
say so. The clock's unit is the refresh margin; `Tick` waits for helpers and
GitHub, whose timeouts are shorter.

### JudgeSession and JudgePortal

`JudgeSession` is the record of one judge session and its memoised settlement
(`SettlementPromise`); `JudgePortal` is the portal with its previews, the
coordinator's journeys and the headless executor, the control API in front of
them, the budget service's process and the protected host with its memoised
close. One action per handler, split at each await: a session is drafted,
admitted, provisioned with a fixture, prepared, offered, confirmed or discarded,
run, closed and settled, and any of these may meet the expiry timer, the
client's disconnect or the host's close.

Abstractions: the launch under a session is one action that starts a worker and
one that ends it (`MissionLaunch` has the detail); requests that fail
authentication or parsing change nothing and are not steps.

### MissionFormation, SupervisedChild, Workspace and MissionLaunch

`MissionFormation` is the pre-activation coordinator: each method is a guard,
its checks, and an operator, what it writes. `SupervisedChild` is one child
process: started with a timer, ready, told to stop, killed, gone. `Workspace` is
what `plan` and `prepare` read of the source project; every look and every read
is drawn anew, since the project is the person's and may change in between.

`MissionLaunch` composes them under one reference supervisor from its start to
its close. `confirmAndLaunch` is a sequence of steps per draft (`launch[d]`):
make the session root, look at the source again, copy file by file, the Git
baseline, launch, activate the plan, dialogue and turns; `PrepareFailed` is the
catch that removes what was made. Two launches share the directory but each has
its own place in the loop over the files. The journey runs beside guardian, broker and
research, its attachment hearing of every exit. `BrokerMerges` is the broker's
process, which serves a request to its end even if nobody listens any more.

Abstractions: a mission is a revision number with the facts the confirmation
tests; the content of a file is "planned", "other" or "large"; helper calls
answer, throw or hang; a draft's slot is freed only when it is consumed, as in
the code, so a capacity of one is a capacity of one confirmation at a time.

### ResearchService and WorkerTurns

`WorkerTurns` is one launched session: the coordinator's loop asks the worker,
passes its tool request to the dispatcher under a deadline and tells the next
turn what came of it. The dispatcher is a list of steps (`exec.todo`), one per
await, that a failure replaces by the denial's or drops; the research service
is a process of its own serving one request (`service`): reserve, call the
provider, expose, settle or refund. The authority is a record (`store`) behind
calls that may be refused, lost, or unanswered after their effect. The deadline,
the session's end, the supervisor's abort and the revocation of the plan may come
at any point; what they leave running goes on.

Abstractions: execution ids are fresh, so no claim is a replay
(`WorkerAuthority` has those); the violation window is a count of three; the
tool-call budget is left to `WorkerAuthority`; envelope binding mismatches and
the content of results are left out; external tools exist in bounded (judge)
missions only, as in the code. `BrokerUnheard` is the client's side of a broker
call that was not answered: whether the broker acted is not known.

### MC modules

Each defines the constants of its runs. Some also name the states worth
exploring in a `CONSTRAINT`, where the product of independent parts would add
states and no interaction:

* `MCWorkerAuthority!Scene`: one session under the violation policy on a clock
  that moves both ways, whose log and audit trail are not both at their bounds,
  or two sessions sharing budgets at one instant.
* `MCBroker!Explored`: two merges racing over an approval or a plan, or a merge
  and a read under two plan versions, while the base moves and the session lasts.
* `MCGitHubCredential!Explored`: nothing after a race of two writers; a research
  key is entered at time 0 only. Its `VIEW` forgets what an ended command
  reported, which no step reads; `ReportsAreTrue` is about the steps themselves.
  The proof covers what is not explored here.
* `MCJudgePortal!Explored`: two sessions contend while one is at its beginning or
  at rest; the host's close is explored beside one session in any state.
* `MCMissionLaunch!Explored`: two drafts contend for the capacity, the workspace
  and the one session; the journey runs on one draft. A launch that is under way
  when the supervisor closes has no draft beside it: that case is covered by the
  proof.

Definitions commented *Faulty variant* are deliberate errors, each in front of
the definition it would replace; no specification uses them, they show that the
properties can fail. Modules whose records are made in one place carry no type
invariant of their own; `TypeOK`, `PlansTypeOK` and `DemoTypeOK` are the ones
that say something of numbers that are subtracted, appended to or bounded.

## The runs

All pass unless marked. State counts are those of TLC on these configurations.

| Run | What it asks | Bounds |
|---|---|---|
| `worker_authority` | types; revocation by the log; ADR-0019's threshold on logs in time order; the audit log accounts for completion; no session survives a restart; the end of a session is final; charges fall inside the lifetime; conservation of every budget; executions claimed once | two scenes: one session and one execution, threshold 3 in a window of 1, 4 events, clock 0..2 moving both ways, 2 boots; two sessions, two executions, one reservation each, up to symmetry (520,000 states) |
| `worker_clock` (violation) | ADR-0019's threshold with no condition on the clock | the first scene of `worker_authority`, one boot |
| `session_plans` | types; ceilings; executed once; consumed in force; the pending queue is immutable and bounded | two merges of one head, a merge of another, a read and a misbound read; two plans, the first with ceilings of two actions and one mutation; a queue of one (180,000) |
| `broker` | the broker implements AuthorizedEffects; effects are accounted for; decisions are truthful, the Guardian's included; denials that sound definite are; no switch of plan | two executions, one approval, two plan versions, every outcome of the Guardian, head or base moving, clock 0..1, up to symmetry (1,700,000) |
| `demo_money` | types; what was metered is charged; an ended reservation is final; collectors follow the ledger | two journeys, two units of usage, two prices, three judge policies, one update, a crash, clock 0..4 (1,900,000) |
| `demo_queue` | limits hold through drains; waiters hold nothing; waiters are answered | three journeys of two sources, two policies, clock 0..3 (510,000) |
| `demo_fifo` (violation) | ADR-0044's FIFO admission | three journeys, one policy |
| `credentials` | fresh metadata vouches for a token in force; no use is handed a token past its date; reports are true | two uses, three pairs, one research key, access and refresh tokens of 4 units, clock 0..2, both custodies (4,900,000) |
| `portal` | completed means settled as completed; fixtures are used once; a closed portal runs nothing; every admitted journey ends | two sessions, one fixture, capacity one, both routes (270,000) |
| `launch` | what is launched was reviewed, and its copy is complete; a plan that failed runs nothing; the journey is honest; every process ends | two drafts, two review turns, a manifest of two files, capacity one (690,000) |
| `launch_close` (violation) | the preview's "deleted on close" | as `launch` |
| `turns` | evidence is accounted for; feedback is audited; the turns end | three turns, one research request in budget, seven requests inside and outside the scope (760,000) |

Why the bounds are enough to be interesting: three events make the threshold and
the fourth tests what follows; two sessions and two executions are needed for
an id claimed in another session; two boots for a restart; two executions of
the broker for every race between two merges, and two plan versions for a
replacement; three journeys for a queue of two and for a newcomer that
overtakes, and two sources for the per-source limits. The clock's bounds exceed
every lifetime, window and timeout of the run by at least one unit where the
property is about expiry; in `broker` the clock stands still in the scene of two
plan versions, since the other one covers time. Three pairs are the enrolled
one, the rotated one and one more enrolled or rotated over it; two uses are a
rotation and one that joins or follows it; two files make a copy that stops half
way; two turns are a request and the turn that is told of it, and a third is
asked after a failure.

`CHECK_DEADLOCK FALSE` stands where the bound on boots, or the finished work of
a closed set of executions, leaves nothing to do.

### Disagreements with the documents

* `worker_clock`: `consumeWorkerToolCall` and its siblings record
  `volume_exhausted` without the clock test the other boundary operations make.
  Two violations at 0 and 1 and a third recorded after the clock went back to 0:
  all three lie in one window, and the session is not revoked. ADR-0019 says it
  is. On logs in time order the rule holds, and is proved.
* `demo_fifo`: `admit` asks the ledger before it looks at the queue. When the
  running reservation has expired and nothing has drained the queue, a newcomer
  is admitted past a waiter still in time. ADR-0044 calls the queue FIFO.

* `launch_close`: `prepare` looks at `#closed` only when it begins. A `close` that
  comes while files are copied removes the session root as it is; the copy then
  makes the directory again, and since `close` runs once nobody deletes it. The
  supervisor's close does not wait for a launch in progress.

Noticed while modelling, and not the subject of a run:

* A revocation on the command line while a broker's rotation is in flight: the
  rotation writes the new pair after the deletion (`setup.ts` 397-424 against
  `github-credential.ts` 332-367; ADR-0009:45 speaks of one store, not of two
  writers). The properties leave such races out (`raced`).
* A rotation whose request was sent and whose answer never came throws before
  anything is cleaned up (`github-credential.ts` 305-313), though GitHub may have
  invalidated the pair; ADR-0009:52-55 says the three slots are then deleted. The
  metadata still dates the old pair, which is why `VouchedTokenInForce` is about
  a pair the metadata calls fresh and not about one that is due for rotation.
* `worker-execution.ts` 266-267 audits `adapterBoundary: "not_crossed"` for every
  external denial, though a broker's `resource_changed` denial follows a read the
  broker itself records as `crossed` (`broker/src/index.ts` 306-307, 577-584).
  `FeedbackIsAudited` therefore claims that only of research.
* A confirmed launch that fails in its dialogue leaves an active session behind
  until the supervisor closes; its runtime is then interrupted.
* The attachment's script goes on after its caller has stopped listening;
  `JourneyHonest` says it merges nothing once the journey and the supervisor's
  close have returned.
* A local command started before a deadline may finish after it; what it returns
  is told to nobody.

### Fairness

Four specifications assume some, and each time only of what has a timer or is
bounded by one.

* `FairDemoSpec`: time passes (`WF` of `DemoTick`), and a timer that is due fires
  (`WF` of `QueueTimeout(j)`), which is what `setTimeout` gives while the process
  runs.
* `JudgePortal!Spec`: the portal's, the executor's and a session's own steps are
  taken, `supervisor.close` ends (its children have a kill timer) and the budget
  client's answer or timeout comes.
* `MissionLaunch!Spec`: helper calls end in an answer or their timeout, the steps
  of a launch, the journey and a close follow one another, and the timers of a
  child fire (start-up, stop, kill).
* `WorkerTurns!Spec`: the dispatcher's, the loop's and the timers' steps; the
  research service itself need not answer, its client gives up.

Nothing is assumed of persons, operators, controllers, callers, models, GitHub
or crashes: nobody has to confirm, cancel, run a journey or close, no process has
to exit by itself and no merge has to happen. The safety properties of all
modules hold of every behaviour, fair or not. In the demo budget a waiter's timer does not stop time in the model: `DemoTick` stays
enabled and a timer may fire late, as in the event loop.

## The proofs

`WorkerAuthorityProofs` proves, for every set of sessions, executions and
digests, every window, threshold, budget and bound (the named `ASSUME`s of
`WorkerAuthority` are all it uses):

* `TypeCorrect`: `Spec => []TypeOK`. The cases that need an argument are those
  that subtract from a budget (each guard leaves a natural number) and the two
  that append to a log.
* `RevocationByLog`: `Spec => []RevokedByLog`. `RevokedByLog` is itself
  inductive together with `TypeOK`, because it says two things at once: a
  session is revoked exactly if some event of its log triggers the policy, and
  only the last event can. The second half is what makes the first survive: a
  violation is appended only to a usable, hence active, session, whose log then
  has no trigger, and whether an earlier event triggers does not depend on what
  follows it (`TriggersOfPrefix`). `RecordViolationTriggers` says that the
  session is revoked exactly when the row appended triggers; one step per action
  then shows that every other action leaves log and revocation alone.
* `ThresholdRevokes`: `Spec => []ThirdInWindowRevokes`. In a log in time order
  the last event of a full window (`LargestIndex`) sees the whole window behind
  it, so it triggers, and `RevokedByLog` does the rest.

The same module proves four theorems about the life of a session and its
executions:

* `ClaimsAreUnique`: `Spec => []ClaimedOnce`, inductive by itself, since each
  claim looks for its id in the executions of all sessions.
* `RestartEndsSessions`: `Spec => []NoSurvivorOfRestart`. Only its creation makes
  a session active (`ActiveIsOld`), and a restart leaves none active.
* `EndsAreFinal`: `Spec => EndIsFinal`, and `ChargesInLifetime`:
  `Spec => ChargedInLifetime`. Both rest on the lemma `NextFate`: whatever the
  step, a session's rows are left alone, created, ended, given back a refund, or
  operated on while the session is usable; so neither needs a case per operation.
  `ChargesInLifetime` also needs that a session not yet created has no rows
  (`AbsentIsEmpty`).

and two about its accounts:

* `AuditAccounts`: `Spec => []AuditIsAccount`. The property is not inductive: an
  active session could end its log with a returned completion, and the next
  event would then separate it from the terminal one. `AuditInv` adds that a
  returned completion is followed by the terminal event at once, which is what
  the single transaction of `completeWorkerSession` gives.
* `BudgetIsConserved`: `Spec => []BudgetConserved`. `BudgetInv` adds that the
  table of executions is finite, so that its rows can be counted, and that
  nothing is granted to a session not yet created. A refund is the hard case:
  `HeldBack` sums a column of the reservations, and settling one row changes the
  sum by exactly what goes back into the budget (`SumDiffers`).

`BrokerProofs` has three parts, since `Broker` is built from the modules of the
first two. The first proves all five properties of `SessionPlans`, for any
requests, plans, queue capacity and bounds. `StepCases` reduces every step to a
consumption in force, one recorded proposal, a store, a revocation or no change.

* `PlansTypeCorrect`, `PlansExecuteOnce` and `PlansConsumeInForce` follow from
  the conditions `check` passed on its way to `allowed` (`InForce`).
* `PlansKeepCeilings`: `CeilingsHold` is not inductive alone, as a new version
  could inherit execution rows. `CeilingsInv` adds that the execution table is
  finite and names only versions that exist; a consumption adds exactly one row
  to the latest version and one to its counters (`ConsumptionAdds`).
* `PlansKeepProposals` needs the invariant `PendingBounded`: finitely many
  proposals, no more than the capacity.

The second proves of `Guardian`, for every set of answers, what the broker relies on
(the roadmap's "may preserve or increase, but never lower"): `AdviceOnlyRaises`,
the level applied is at least the floor and at least what was asked for, and
`GuardianNeverLowers`, an opinion keeps the floor of a read or a merge only if
the call was taken and a model recommended so with certainty.

The third proves every safety property of `Broker`, for any executions,
approvals, requests, plans and tool calls. Beside the constants' types it assumes
`SessionEnd > 0` (a session ends after it began).

* `BrokerInvariant`: the types, what the locals of an execution say of each other
  and of its PUT at every await (`RowOK`), and that no two executions hold one
  unit of authority (`OwnersPay`). The second is needed because a guard passed
  before an await is used after it, the third because authority is consumed in
  one step and spent in a later one.
* `BrokerKeepsPlans`: `BrokerSpec => PlansSpec`; what the broker does to the
  plans' tables are operations of `SessionPlans`, so the theorems of
  `SessionPlans` hold inside it.
* `BrokerAuthorizesEffects`: the refinement `EffectsAuthorized`. Initial states
  map to initial states; consuming an approval or a grant maps to spending a unit
  in force, sending a PUT to an effect of a unit already spent, and every other
  step to a stutter.
* `BrokerKeepsItsPlan`: the action property `NoPlanSwitch`. `OthersStep` and
  `ExecStepPlace` leave the final check as the only step that lets an execution
  send, and `FinalCheckHolds` says what it found.
* `BrokerDeniesDefinitely` follows from `RowOK`. `BrokerRecords` strengthens the
  invariant to `RecordsInv`, which adds the attempts, the decisions and the calls
  on record; `BrokerAccountsEffects` and `BrokerDecidesTruthfully` follow. The
  count of charged calls is over the executions that have paid, which needs that
  the charge of one execution is not counted for another (`CallsCharged`).

`DemoBudgetProofs` proves the type invariant and every safety property of
`DemoBudget`, for any journeys, sources, policies, price lists and bounds.

* `DemoInvariant` proves `DemoInv`: the row, the collector, the controller and the
  acknowledged usage of each journey agree (`JourneyOK`), each queued journey is
  absent from the ledger, and a controller that waits has its waiter
  (`Coherent`). `DemoTypes`, `DemoChargesUsage`, `DemoKeepsCollectors` and
  `DemoQueueHoldsNothing` follow.
* `DemoEndsOnce` and `DemoKeepsBudget` are action properties. Each step is shown
  to be a `LedgerStep`: it admits a set of journeys within the policy it leaves
  in force and may end other reservations (`RowEnds`).
* One call of `#drain` may admit several waiters. `Drain` is a recursive function
  of the number of waiters looked at, and `DrainSoFar` is its invariant: what the
  ledger, the rest of the queue and the set admitted look like after each. The
  induction is over that number (`DrainRun`).

`FiniteSums` holds the lemmas that both need: induction over the naturals and
over finite sets, stated with a set instead of an operator so that the provers
can use it, and what `SumFunction` yields when a row is added, changed or left
out, when a domain is split, and in whichever order the sum is taken.

`JudgePortalProofs` proves the three invariants of `JudgePortal`, for any
sessions, fixtures and capacity. `PortalInv` says of one session's record
(`Good`) what portal, wrapper, runtime and executor know of each other: a closed
wrapper has closed its runtime (`ClosingOf`), the outcome is fixed with the
settlement (`SettlingOf`), each place of the open call knows what cannot have
happened yet (`PhaseOf`: before the run nothing is settled, an abort closes),
and an answer "completed" stays true after the call (`ToldOf`). None of the three
properties is inductive: `CompletedIsSettled` depends on `verdict` being carried
over two awaits, `ClosedPortalRunsNothing` on the draft that finds the portal
closed when its supervisor has started. The proof has two layers: one lemma per
way a step changes a record, and `MovesKeep`, `TakesKeep` and `OffersKeep` for
what writing one record means for the other sessions. `CompletedSettles`,
`FixturesAreUsedOnce` and `CloseLeavesNothing` follow.

`MissionLaunchProofs` proves every safety property of `MissionLaunch`, for any
drafts, manifest, capacity and number of review turns. `LaunchInv` has one part
for each thing a confirmation rests on, and most steps disturb one of them only:

* `DraftOK`: what a draft's state says of the revisions that were judged,
  assessed and compiled. One lemma per method of the coordinator shows that the
  record it writes is again one (`Follows`).
* `LaunchesOK`: a launch has consumed its draft, and the session is of the launch
  that made it.
* `WorkspaceOK`: until somebody closes the supervisor one draft holds the
  directory, and what its loop has passed is copied as planned. Once a close is
  under way a second confirmed draft may make the directory again beside a copy
  that goes on, and nothing is claimed: `LaunchedAsReviewed` therefore claims the
  complete copy, and that no second launch is about to begin the session, for a
  supervisor nobody has closed, and the rest always.
* `JourneyOK`: a journey past its authorization has an active session whose launch
  is over, an attachment that runs has all three services, and a journey that is
  over has none of them unless close still waits.

`LaunchesAreReviewed` and `FailedPlansRunNothing` follow. `JourneysAreHonest` is
an action property: only `JourneyEnds` tells a result and only `BrokerMerges`
merges (`OtherStepsTellNothing`), and the invariant says of the places where they
can that the services ran, or that close has not returned.

`GitHubCredentialProofs` proves every safety property of `GitHubCredential`, for
any uses, bounds and custody. `StoreIsSound` is the inductive invariant; it has
two layers.

* `ShapeInv` says what each phase of a command, of the rotation and of a use
  knows of the others: which slots a snapshot holds, what a rollback has still to
  put back, and that a command and a rotation which write at once are a race
  (`Alone`). It holds of every store, also one that two writers share.
* `SoundInv` says what may be concluded of a store nobody raced for: what an
  enrolment has written and a clean rollback has put back (`RewritesOK`), and, if
  no rollback mixed it (`Sound`), that pairs are numbered and dated in the order
  of their issue, that what is about to be written is the newest pair and not
  spent (`EnrollmentOK`, `RotationSound`), that the metadata is never newer than
  the access token beside it and, while it is fresh, that the token is not spent
  (`MarkerOK`), and that every token a read under way may still find outlives it
  (`TokensOK`). The property alone is not inductive: it depends on the metadata
  being written last, on a request that spends a pair being made only from stale
  metadata, and on a helper call lasting at most one unit of the clock.

`VouchedInForce` follows from `MarkerOK`, `HandedInForce` from `TokensOK` with the
clock's bounds, `ReportsTrue` from `ShapeInv` and `RewritesOK`. Each command's
step, each of the rotation's and each of a use's has a lemma of its own; most are
shown to be quiet (`QuietKeeps`: no new pair, none spent, nothing vouched for that
was not), and the few that write or spend a pair are argued one by one
(`AuthorizeSound`, `EnrollWriteSound`, `AnsweredSound`, `RotateWriteSound`).

`WorkerTurnsProofs` proves both safety properties of `WorkerTurns`, for any tools,
turns, requests and bounds. `TurnsInOrder` is the inductive invariant `TurnsInv`:

* `ExecOK`: an execution that has not failed stands at a place of one of eight
  scripts (`StepsOf`), with as much of its trail in the store as is behind that
  place (`Written`), and knows what those steps found: a claim, a denial, a
  provider called or never called (`Known`).
* `ServiceOK`: while the research service is busy it works for the last execution
  and its turn, whether or not that execution still waits; where it stands says
  what is charged, retrieved and exposed.
* `LoopOK`: nothing of a turn is recorded or called before its worker is asked,
  and the next turn is not begun while an execution runs. This is why an
  execution or a service that a deadline left behind cannot make false what an
  earlier turn was told.

Neither property is inductive: what a turn is told depends on steps taken several
awaits before, in three processes. The proof has one lemma for what a step of an
execution keeps of the rest (`RunKeeps`), one for the service's (`AnswerableKeeps`)
and one for the loop's and the world's (`LoopMoves`); every action is shown to be
of one of these forms. `TurnsAccounted` and `TurnsAudited` follow.

With these every safety and every action property of the passing runs is a
theorem. Only model-checked are the liveness properties (`WaitersAreAnswered`,
`JourneysEnd`, `ChildrenEnd`, `TurnsEnd`), which like `ENABLED` are beyond the
prover, and the three expected violations, which are counterexamples. What a
recursive definition computes was in reach where an induction over a set could be
stated (`FiniteSums`, `DrainRun`).

## The plan

Every component whose own logic decides something now has a module. What would
come next:

1. `WorkerTurns` over `WorkerAuthority` itself instead of the abstract `store`,
   as a refinement: each call of the dispatcher maps to an operation of the
   store or to none.
2. A specification of one demo-budget reservation (open, then ended once) that
   `DemoBudget` implements and `JudgePortal` uses for its settlement.
3. Several research requests of one session in flight at once, with the
   sequencer that numbers the exposures of search and extraction together.

## Not modelled

* Schemas, canonical encoding and digests: pure functions, taken as injective
  through model values. The modules take enumerations and bounds from them.
* Peer identity and the secrets of capabilities: kernel calls and comparisons.
  Their lifetimes and roles are modelled in `DemoBudget`.
* Prompts and the parsing of models' answers: an answer is a recommendation,
  shapeless or failed.
* The platform back ends of the keyring: one store written record by record.
* The executor's sandbox, process arguments and configuration files.
* The session host's server, the HTTP layer of the ingress, the web front end.
* Connections, evidence exposures and schema migration of the authority store.
* Scripts, tests and spikes.
