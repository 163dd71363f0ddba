--------------------------- MODULE MissionLaunch ---------------------------
(***************************************************************************)
(* A reference supervisor from its start to its close: drafts are reviewed, *)
(* assessed and confirmed, one confirmation prepares the workspace copy,    *)
(* launches the session, activates its plan and runs the worker's turns;    *)
(* the controlled journey runs beside its three services; close ends all.   *)
(* Every service is a child process of its own, started for a call and      *)
(* closed after it.  The handlers may be called in any order: the guards    *)
(* are the code's.                                                          *)
(***************************************************************************)
EXTENDS MissionFormation, SupervisedChild, Workspace

CONSTANTS Drafts, NoDraft, Capacity

ASSUME DraftsAssumption == NoDraft \notin Drafts /\ Capacity \in Nat \ {0}

VARIABLES
  phase,      \* the supervisor: planning, starting, open, closing, closed
  draft,      \* the coordinator's records
  call,       \* the open calls into helper services
  launch,     \* confirmAndLaunch of every draft
  workspace,  \* the managed copy: the directory and what its object believes
  session,    \* the activated session, its runtime and its durable record
  journey,    \* runCompetitionJourney and its attachment
  child       \* every service process

vars == <<phase, draft, call, launch, workspace, session, journey, child>>

Authority == <<"authority", NoDraft>>
Guardian  == <<"guardian", NoDraft>>
Broker    == <<"broker", NoDraft>>
Research  == <<"research", NoDraft>>
JourneyServices == {Guardian, Broker, Research}
Helpers  == {"reviewer", "assessor", "interaction", "worker"} \X Drafts
Children == JourneyServices \cup Helpers \cup {Authority}

Init ==
  /\ phase = "planning"
  /\ draft = [d \in Drafts |-> NoDraftRecord]
  /\ call = [x \in Helpers |-> [at |-> "no", answer |-> "threw"]]
  /\ launch = [d \in Drafts |-> "no"]
  /\ \E immutable \in BOOLEAN :
       workspace = [exists |-> FALSE, owns |-> FALSE, prepared |-> FALSE, closed |-> FALSE,
                    removing |-> FALSE, immutable |-> immutable, copy |-> NoCopy,
                    next |-> [d \in Drafts |-> 1]]
  /\ session = [of |-> NoDraft, runtime |-> "none", durable |-> "none", plan |-> FALSE]
  /\ journey = [state |-> "idle", at |-> "no", attached |-> "none", script |-> "none",
                effect |-> "no", told |-> "none", waits |-> FALSE]
  /\ child = [c \in Children |-> NoChild]

\* A service that was told to end may still answer.
AuthorityUp == child[Authority].start = "ready" /\ Live(child[Authority])

(***************************************************************************)
(* The supervisor's own start                                              *)
(***************************************************************************)
\* ManagedSessionWorkspace.plan, before anything is spawned: every file is read.
PlanWorkspace ==
  /\ phase = "planning"
  /\ \/ /\ TRUE \in Verdicts[workspace.immutable] /\ "planned" \in Found
        /\ phase' = "starting"
        /\ \E authority \in Spawned : child' = [child EXCEPT ![Authority] = authority]
     \/ /\ FALSE \in Verdicts[workspace.immutable] \/ Found # {"planned"}
        /\ phase' = "closed" /\ UNCHANGED child
  /\ UNCHANGED <<draft, call, launch, workspace, session, journey>>

Open ==
  /\ phase = "starting" /\ child[Authority].start = "ready"
  /\ phase' = "open"
  /\ UNCHANGED <<draft, call, launch, workspace, session, journey, child>>

StartFails ==
  /\ phase = "starting" /\ StartThrew(child[Authority])
  /\ phase' = "closed"
  /\ workspace' = [workspace EXCEPT !.closed = TRUE]
  /\ UNCHANGED <<draft, call, launch, session, journey, child>>

(***************************************************************************)
(* One call into a helper service: start its process, ask it once, close it *)
(* whatever it answered, and only then go on with the answer.               *)
(***************************************************************************)
Ask(x) ==
  /\ call' = [call EXCEPT ![x] = [at |-> "start", answer |-> "threw"]]
  /\ \E c \in Spawned : child' = [child EXCEPT ![x] = c]

\* The session's abort reaches the worker's turns only.
Aborted(x) == x[1] = "worker" /\ phase \in {"closing", "closed"}

CallStarts(x) ==
  /\ call[x].at = "start" /\ child[x].start = "ready"
  /\ IF Aborted(x)
     THEN /\ call' = [call EXCEPT ![x] = [at |-> "close", answer |-> "threw"]]
          /\ child' = [child EXCEPT ![x] = CloseChild(child[x])]
     ELSE call' = [call EXCEPT ![x].at = "ask"] /\ UNCHANGED child
  /\ UNCHANGED <<phase, draft, launch, workspace, session, journey>>

\* What the four single-use servers answer their one accepted request.
ReviewAnswers == {"ready", "needs_clarification"}
RiskAnswers   == {"confirm", "step_up", "deny"}
TalkAnswers   == {"done"}
TurnAnswers   == {"more", "last"}
AnswersOf(x) ==
  CASE x[1] = "reviewer"    -> ReviewAnswers
    [] x[1] = "assessor"    -> RiskAnswers
    [] x[1] = "interaction" -> TalkAnswers
    [] x[1] = "worker"      -> TurnAnswers

\* The answer, or the timeout, the refusal or the closed pipe of the call.
CallAnswers(x) ==
  /\ call[x].at = "ask"
  /\ \E answer \in AnswersOf(x) \cup {"threw"} :
       /\ answer = "threw" \/ Live(child[x])
       /\ call' = [call EXCEPT ![x] = [at |-> "close", answer |-> answer]]
  /\ child' = [child EXCEPT ![x] = CloseChild(child[x])]
  /\ UNCHANGED <<phase, draft, launch, workspace, session, journey>>

Returned(x) ==
  \/ call[x].at = "close" /\ Gone(child[x])
  \/ call[x].at = "start" /\ StartThrew(child[x])
\* The call's end drops its process's handle.
CallOver(x) ==
  /\ Returned(x)
  /\ call' = [call EXCEPT ![x] = [at |-> "no", answer |-> "threw"]]
  /\ child' = [child EXCEPT ![x] = NoChild]

(***************************************************************************)
(* Formation                                                               *)
(***************************************************************************)
Put(d, record) == draft' = [draft EXCEPT ![d] = record]

PendingDrafts == {d \in Drafts : PendingDraft(draft[d])}

\* createDraft compiles at once, from the configured mission; an assisted draft
\* is the caller's and may lack fields or ask for too much.
CreateDraft(d) ==
  /\ phase \notin {"planning", "starting"} /\ draft[d].state = "none"
  /\ Cardinality(PendingDrafts) < Capacity
  /\ \/ Put(d, CompileCandidate(NewDraft("structured", TRUE, TRUE)))
     \/ \E complete, within \in BOOLEAN : Put(d, NewDraft("qwen_assisted", complete, within))
  /\ UNCHANGED <<phase, call, launch, workspace, session, journey, child>>

DraftExpires(d) ==
  /\ Active(draft[d])
  /\ Put(d, [draft[d] EXCEPT !.expired = TRUE])
  /\ UNCHANGED <<phase, call, launch, workspace, session, journey, child>>

ReviewDraft(d) ==
  /\ CanReview(draft[d])
  /\ Put(d, BeginReview(draft[d]))
  /\ Ask(<<"reviewer", d>>)
  /\ UNCHANGED <<phase, launch, workspace, session, journey>>

\* A failed call, a stale draft or an answer that contradicts the mechanical
\* check leaves the draft under review.
DraftReviewed(d) ==
  LET x == <<"reviewer", d>>
      answer == call[x].answer
  IN /\ CallOver(x)
     /\ \/ TakesReview(draft[d], answer) /\ Put(d, CompleteReview(draft[d], answer))
        \/ ~(answer = "ready" /\ TakesReview(draft[d], answer)) /\ UNCHANGED draft
     /\ UNCHANGED <<phase, launch, workspace, session, journey>>

Revise(d) ==
  /\ CanRevise(draft[d])
  /\ \E complete, within \in BOOLEAN : Put(d, ReviseDraft(draft[d], complete, within))
  /\ UNCHANGED <<phase, call, launch, workspace, session, journey, child>>

\* compileAssistedDraft and compileAssistedFallback.
AssessDraft(d) ==
  /\ \E effective \in {"qwen_assisted", "deterministic_fallback"} :
       /\ CanAssess(draft[d], effective)
       /\ Put(d, BeginSetupRisk(draft[d], effective))
  /\ Ask(<<"assessor", d>>)
  /\ UNCHANGED <<phase, launch, workspace, session, journey>>

DraftAssessed(d) ==
  LET x == <<"assessor", d>>
      floor == call[x].answer
  IN /\ CallOver(x)
     /\ Put(d, IF floor # "threw" /\ TakesSetupRisk(draft[d])
               THEN CompileAssessed(CompleteSetupRisk(draft[d], floor))
               ELSE draft[d])
     /\ UNCHANGED <<phase, launch, workspace, session, journey>>

(***************************************************************************)
(* confirmAndLaunch: the candidate is consumed before anything is awaited;  *)
(* whatever fails after that fails the launch, never gives the draft back.  *)
(***************************************************************************)
Go(d, at) == launch' = [launch EXCEPT ![d] = at]

\* prepare() asks at once whether the workspace is closed or already prepared.
Confirm(d) ==
  /\ CanConfirm(draft[d]) /\ launch[d] = "no"
  /\ Put(d, ConsumeCandidate(draft[d]))
  /\ Go(d, IF workspace.closed \/ workspace.prepared THEN "threw" ELSE "mkdir")
  /\ UNCHANGED <<phase, call, workspace, session, journey, child>>

\* Exclusive: of two launches one makes the session's directory.
MakeRoot(d) ==
  /\ launch[d] = "mkdir"
  /\ \/ /\ ~workspace.exists
        /\ workspace' = [workspace EXCEPT !.exists = TRUE, !.owns = TRUE]
        /\ Go(d, "paths")
     \/ Go(d, "threw") /\ UNCHANGED workspace
  /\ UNCHANGED <<phase, draft, call, session, journey, child>>

\* The source root is the directory it was, its paths are the planned ones, and
\* the copy's directory is made in the session's, or prepare gives up.
CheckSource(d) ==
  /\ launch[d] = "paths"
  /\ \/ TRUE \in Verdicts[workspace.immutable] /\ workspace.exists /\ Go(d, "copy")
     \/ Go(d, "clean")
  /\ UNCHANGED <<phase, draft, call, workspace, session, journey, child>>

\* The copy goes on under a close that removes what it has written so far: the
\* directories are made again.
CopyFile(d) ==
  /\ launch[d] = "copy"
  /\ \/ \E found \in Found :
          /\ found = "planned"
          /\ workspace' = [workspace EXCEPT !.exists = TRUE, !.next[d] = @ + 1,
                                            !.copy[workspace.next[d]] = found]
          /\ Go(d, IF workspace.next[d] = Len(Manifest) THEN "baseline" ELSE "copy")
     \/ Go(d, "clean") /\ UNCHANGED workspace
  /\ UNCHANGED <<phase, draft, call, session, journey, child>>

\* The sanitized Git repository, in a directory Git would make once more.
Baseline(d) ==
  /\ launch[d] = "baseline"
  /\ \/ /\ workspace' = [workspace EXCEPT !.exists = TRUE, !.prepared = TRUE]
        /\ Go(d, "session")
     \/ Go(d, "clean") /\ UNCHANGED workspace
  /\ UNCHANGED <<phase, draft, call, session, journey, child>>

PrepareFailed(d) ==
  /\ launch[d] = "clean"
  /\ workspace' = [workspace EXCEPT !.exists = FALSE, !.owns = FALSE, !.copy = NoCopy,
                                    !.next[d] = 1]
  /\ Go(d, "threw")
  /\ UNCHANGED <<phase, draft, call, session, journey, child>>

\* launchSession: refused, failed before or after the durable record was made
\* (its answer may be lost and the research budget is checked last), or done.
LaunchSession(d) ==
  /\ launch[d] = "session"
  /\ \/ Go(d, "threw") /\ UNCHANGED session
     \/ /\ session.of = NoDraft /\ AuthorityUp
        /\ \/ Go(d, "threw") /\ session' = [session EXCEPT !.durable = "active"]
           \/ /\ session' = [session EXCEPT !.of = d, !.runtime = "active",
                                            !.durable = "active"]
              /\ \E next \in {"plan", "talk", "threw"} : Go(d, next)
  /\ UNCHANGED <<phase, draft, call, workspace, journey, child>>

\* The session plan's activation; a failure may come after the grant, ends the
\* runtime and, if the authority answers, the durable session.
ActivatePlan(d) ==
  /\ launch[d] = "plan"
  /\ \/ /\ AuthorityUp
        /\ session' = [session EXCEPT !.plan = TRUE] /\ Go(d, "talk")
     \/ /\ \E granted \in {session.plan, AuthorityUp} :
           \E durable \in {"active"} \cup (IF AuthorityUp THEN {"ended"} ELSE {}) :
             session' = [session EXCEPT !.runtime = "interrupted", !.plan = granted,
                                        !.durable = durable]
        /\ Go(d, "threw")
  /\ UNCHANGED <<phase, draft, call, workspace, journey, child>>

\* The interaction's first turn, when one is attached.  Its failure throws.
Talk(d) ==
  /\ launch[d] = "talk"
  /\ \/ Ask(<<"interaction", d>>) /\ Go(d, "talking")
     \/ Go(d, "turns") /\ UNCHANGED <<call, child>>
  /\ UNCHANGED <<phase, draft, workspace, session, journey>>

Talked(d) ==
  LET x == <<"interaction", d>>
  IN /\ launch[d] = "talking" /\ CallOver(x)
     /\ Go(d, IF call[x].answer = "threw" THEN "threw" ELSE "turns")
     /\ UNCHANGED <<phase, draft, workspace, session, journey>>

\* The loop's failure: revoked, interrupted or, for an expired or inactive
\* session, left as it is; the launch still returns.
EndTurns(d) ==
  /\ Go(d, "returned")
  /\ \E runtime \in {"revoked", "interrupted", session.runtime} :
       session' = [session EXCEPT !.runtime = runtime]

\* A turn's worker is not even spawned once the supervisor closes.
StartTurn(d) ==
  /\ launch[d] = "turns"
  /\ \/ /\ ~Aborted(<<"worker", d>>)
        /\ Ask(<<"worker", d>>) /\ Go(d, "turn") /\ UNCHANGED session
     \/ EndTurns(d) /\ UNCHANGED <<call, child>>
  /\ UNCHANGED <<phase, draft, workspace, journey>>

Turned(d) ==
  LET x == <<"worker", d>>
  IN /\ launch[d] = "turn" /\ CallOver(x)
     /\ CASE call[x].answer = "more"  -> Go(d, "turns") /\ UNCHANGED session
          [] call[x].answer = "last"  -> Go(d, "returned") /\ UNCHANGED session
          [] call[x].answer = "threw" -> EndTurns(d)
     /\ UNCHANGED <<phase, draft, workspace, journey>>

LaunchOver(d) == launch[d] \in {"returned", "threw"}

(***************************************************************************)
(* The controlled journey                                                  *)
(***************************************************************************)
Step(at) == journey' = [journey EXCEPT !.at = at]
ServicesGone == \A c \in JourneyServices : Gone(child[c])

\* A failing start gives the attempt back, a started journey never does.
JourneyThrows == journey' = [journey EXCEPT !.at = "no", !.state = "idle"]

\* Its caller awaits the launch before; an earlier attempt may have failed.
RunJourney ==
  /\ session.of # NoDraft /\ journey.state = "idle"
  /\ LaunchOver(session.of)
  /\ journey' = [journey EXCEPT !.at = "authorize", !.state = "starting"]
  /\ UNCHANGED <<phase, draft, call, launch, workspace, session, child>>

\* A mistaken assembly of the services that asks the durable record only.
AnyRuntime == session.durable = "active" /\ AuthorityUp

\* The plan or the exact approval, then buildActivatedCompetitionJourneyServices:
\* the runtime and the durable session must be active.
ServicesAllowed ==
  session.runtime = "active" /\ session.durable = "active" /\ AuthorityUp

AuthorizeJourney ==
  /\ journey.at = "authorize"
  /\ \/ JourneyThrows /\ UNCHANGED child
     \/ /\ ServicesAllowed
        /\ Step("guardian")
        /\ \E c \in Spawned : child' = [child EXCEPT ![Guardian] = c]
  /\ UNCHANGED <<phase, draft, call, launch, workspace, session>>

\* The three services are started one after the other.
Following(at) == IF at = "guardian" THEN Broker ELSE Research
StartingService == CASE journey.at = "guardian" -> Guardian
                     [] journey.at = "broker"   -> Broker
                     [] journey.at = "research" -> Research

\* A mistaken failure path that closes nothing it had started.
LeaveServices == child

CloseServices ==
  [c \in Children |-> IF c \in JourneyServices THEN CloseChild(child[c]) ELSE child[c]]

ServiceStarted ==
  /\ journey.at \in {"guardian", "broker", "research"}
  /\ \/ /\ StartThrew(child[StartingService])
        /\ Step("undo") /\ child' = CloseServices
     \/ /\ journey.at # "research" /\ child[StartingService].start = "ready"
        /\ Step(IF journey.at = "guardian" THEN "broker" ELSE "research")
        /\ \E c \in Spawned : child' = [child EXCEPT ![Following(journey.at)] = c]
     \/ \* attached, the state "started", and run() at once
        /\ journey.at = "research" /\ child[Research].start = "ready"
        /\ LET up == \A c \in JourneyServices : ~Gone(child[c])
           IN journey' = [journey EXCEPT !.state = "started",
                !.at = "run", !.attached = IF up THEN "running" ELSE "interrupted",
                !.script = IF up THEN "search" ELSE "none"]
        /\ UNCHANGED child
  /\ UNCHANGED <<phase, draft, call, launch, workspace, session>>

JourneyUndone ==
  /\ journey.at = "undo" /\ ServicesGone
  /\ JourneyThrows
  /\ UNCHANGED <<phase, draft, call, launch, workspace, session, child>>

\* ControlledCompetitionJourney.run: it goes on by itself whatever its caller
\* does, and an unsafe attempt that is not denied as expected ends it.
Script ==
  /\ \/ /\ journey.script = "search"
        /\ \/ Live(child[Research]) /\ journey' = [journey EXCEPT !.script = "unsafe"]
           \/ journey' = [journey EXCEPT !.script = "stopped"]
     \/ /\ journey.script = "unsafe"
        /\ \/ /\ Live(child[Broker]) /\ Live(child[Guardian])
              /\ journey' = [journey EXCEPT !.script = "legitimate"]
           \/ journey' = [journey EXCEPT !.script = "stopped"]
     \/ /\ journey.script = "legitimate"
        /\ \/ Live(child[Broker]) /\ journey.effect = "merged"
              /\ journey' = [journey EXCEPT !.script = "done"]
           \/ journey' = [journey EXCEPT !.script = "stopped"]
  /\ UNCHANGED <<phase, draft, call, launch, workspace, session, child>>

\* The broker claims the merge at the authority, for an active session, and
\* then merges: a claimed merge needs the broker's process only.
BrokerMerges ==
  /\ journey.script = "legitimate" /\ Live(child[Broker])
  /\ \/ /\ journey.effect = "no" /\ session.durable = "active" /\ AuthorityUp
        /\ journey' = [journey EXCEPT !.effect = "claimed"]
     \/ /\ journey.effect = "claimed"
        /\ journey' = [journey EXCEPT !.effect = "merged"]
  /\ UNCHANGED <<phase, draft, call, launch, workspace, session, child>>

\* A mistaken race that believes the script's result after a service exited.
BelieveResult(j) == IF j.script = "done" THEN "completed" ELSE "stopped"

\* The race of the script and the first exit: an interrupted or closed
\* attachment stops the journey whatever its script says.
JourneyResult(j) ==
  IF j.script = "done" /\ j.attached = "running" THEN "completed" ELSE "stopped"

\* The first close awaits the services; one that finds the attachment closed
\* returns at once.
FirstClose(j) == j.attached # "closed"

\* run()'s outcome, and the finally's close of the attachment.
JourneyEnds ==
  /\ journey.at = "run"
  /\ journey.script \in {"done", "stopped"} \/ journey.attached \in {"interrupted", "closed"}
  /\ journey' = [journey EXCEPT !.told = JourneyResult(journey), !.attached = "closed",
                   !.at = IF FirstClose(journey) THEN "leave" ELSE "over"]
  /\ child' = CloseServices
  /\ UNCHANGED <<phase, draft, call, launch, workspace, session>>

JourneyReturns ==
  /\ journey.at = "leave" /\ ServicesGone
  /\ Step("over")
  /\ UNCHANGED <<phase, draft, call, launch, workspace, session, child>>

(***************************************************************************)
(* close: the abort, then the attachment, the workspace and the authority,  *)
(* all awaited.                                                             *)
(***************************************************************************)
Attached == journey.attached \notin {"none", "closed"}

Close ==
  /\ phase = "open"
  /\ phase' = "closing"
  /\ journey' = IF Attached THEN [journey EXCEPT !.attached = "closed",
                                                 !.waits = FirstClose(journey)]
                            ELSE journey
  /\ workspace' = [workspace EXCEPT !.closed = TRUE, !.removing = workspace.owns,
                     !.prepared = workspace.prepared /\ workspace.owns]
  /\ child' = [c \in Children |->
       IF \/ c = Authority
          \/ c \in JourneyServices /\ Attached
          \/ c[1] = "worker" /\ call[c].at = "ask"
       THEN CloseChild(child[c]) ELSE child[c]]
  /\ UNCHANGED <<draft, call, launch, session>>

WorkspaceRemoved ==
  /\ workspace.removing
  /\ workspace' = [workspace EXCEPT !.removing = FALSE, !.exists = FALSE, !.owns = FALSE,
                                    !.prepared = FALSE, !.copy = NoCopy]
  /\ UNCHANGED <<phase, draft, call, launch, session, journey, child>>

Closed ==
  /\ phase = "closing"
  /\ Gone(child[Authority]) /\ ~workspace.removing /\ (journey.waits => ServicesGone)
  /\ phase' = "closed"
  /\ UNCHANGED <<draft, call, launch, workspace, session, journey, child>>

(***************************************************************************)
(* The processes                                                           *)
(***************************************************************************)

\* The attachment hears of an exit while it is running.
Heard(c, after) ==
  IF c \in JourneyServices /\ Gone(after) /\ journey.attached = "running"
  THEN [journey EXCEPT !.attached = "interrupted"] ELSE journey

Move(c, moves) ==
  \E after \in moves :
    /\ child' = [child EXCEPT ![c] = after]
    /\ journey' = Heard(c, after)
    /\ UNCHANGED <<phase, draft, call, launch, workspace, session>>

ChildTimer(c) == Move(c, TimedMoves(child[c]))
ChildMoves(c) == Move(c, OwnMoves(child[c]))

(***************************************************************************)
(* The specification                                                       *)
(***************************************************************************)

\* What the person, the caller and the clock decide.
CallerStep ==
  \/ \E d \in Drafts :
       \/ CreateDraft(d) \/ DraftExpires(d) \/ ReviewDraft(d) \/ Revise(d)
       \/ AssessDraft(d) \/ Confirm(d)
  \/ RunJourney \/ Close

HelperStep(x) == CallStarts(x) \/ CallAnswers(x)

LaunchStep(d) ==
  \/ DraftReviewed(d) \/ DraftAssessed(d)
  \/ MakeRoot(d) \/ CheckSource(d) \/ CopyFile(d) \/ Baseline(d) \/ PrepareFailed(d)
  \/ LaunchSession(d) \/ ActivatePlan(d)
  \/ Talk(d) \/ Talked(d) \/ StartTurn(d) \/ Turned(d)

JourneyStep ==
  \/ AuthorizeJourney \/ ServiceStarted \/ JourneyUndone \/ JourneyEnds \/ JourneyReturns

SupervisorStep == PlanWorkspace \/ Open \/ StartFails \/ WorkspaceRemoved \/ Closed

Next ==
  \/ CallerStep
  \/ \E x \in Helpers : HelperStep(x)
  \/ \E d \in Drafts : LaunchStep(d)
  \/ JourneyStep \/ Script \/ BrokerMerges
  \/ SupervisorStep
  \/ \E c \in Children : ChildTimer(c) \/ ChildMoves(c)

\* Starts and closes have timers, every call into a service has a timeout, and
\* a killed process ends.  Nobody has to confirm, to run a journey or to close,
\* no process has to exit by itself, and no merge has to happen.
Fairness ==
  /\ \A x \in Helpers : WF_vars(HelperStep(x))
  /\ \A d \in Drafts : WF_vars(LaunchStep(d))
  /\ WF_vars(JourneyStep) /\ WF_vars(Script) /\ WF_vars(SupervisorStep)
  /\ \A c \in Children : WF_vars(ChildTimer(c))

Spec == Init /\ [][Next]_vars /\ Fairness

(***************************************************************************)
(* Properties                                                              *)
(***************************************************************************)

\* A session runs only for the revision its person confirmed: compiled from the
\* draft as it stood, complete and below the ceiling, and on the assisted route
\* assessed at that revision to need no more than a confirmation and, without
\* the fallback, found ready at that revision; no second launch shares it; and
\* as long as nobody closes the supervisor, no second launch is about to begin it
\* and its copy of the project is complete and what the preview's digest stands
\* for, however the source changed meanwhile.
LaunchedAsReviewed ==
  session.of # NoDraft =>
    LET r == draft[session.of]
    IN /\ r.state = "consumed" /\ r.compiled = r.revision /\ r.complete /\ r.within
       /\ r.requested = "qwen_assisted" =>
            /\ r.floor = "confirm" /\ r.assessed = r.revision
            /\ r.effective = "deterministic_fallback" \/ r.judged = r.revision
       /\ \A d \in Drafts \ {session.of} :
            launch[d] \notin {"plan", "talk", "talking", "turns", "turn"}
       /\ \/ phase \in {"closing", "closed"}
          \/ /\ CopyComplete(workspace.copy)
             /\ \A d \in Drafts \ {session.of} : launch[d] # "session"

\* When a session plan fails to activate, perhaps after its grant became durable,
\* no journey ever runs on the session it left behind.
FailedPlanRunsNothing ==
  session.of # NoDraft /\ launch[session.of] = "threw" /\ session.runtime = "interrupted"
    => journey.script = "none"

\* The caller hears "completed" only of a script that ended with its merge while
\* all three services ran; and the script, which goes on after its caller has
\* stopped listening, merges nothing once the journey and close have returned.
JourneyHonest ==
  [][/\ journey'.told = "completed" /\ journey.told # "completed" =>
          /\ journey.script = "done" /\ journey.effect = "merged"
          /\ \A c \in JourneyServices : ~Gone(child[c])
     /\ journey'.effect # journey.effect =>
          journey.at \in {"run", "leave"} \/ phase = "closing"]_vars

\* Every process that was started for a call, a turn or the journey ends, whether
\* it answers, fails to start, hangs or is closed, and so does close: again and
\* again there is a time when none is left.
ChildrenEnd ==
  []<>(phase # "closing" /\ \A c \in Children \ {Authority} : Gone(child[c]))

\* The preview's promise: the copy of the project is deleted on close.
WorkspaceDeleted ==
  phase = "closed" /\ (\A d \in Drafts : launch[d] \in {"no", "returned", "threw"})
    => ~workspace.exists
=============================================================================
