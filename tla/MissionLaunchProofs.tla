------------------------ MODULE MissionLaunchProofs ------------------------
(***************************************************************************)
(* Theorems about MissionLaunch, for every set of drafts, every capacity,   *)
(* every manifest and any number of review turns.  The inductive invariant  *)
(* has one part for each thing a confirmation rests on: what a draft's      *)
(* state says of its reviews, which launch the session is of, whose the     *)
(* workspace's directory is and how far its copy has come, and what the     *)
(* journey's place says of its session, its services and its close.         *)
(***************************************************************************)
EXTENDS MissionLaunch, TLAPS

-----------------------------------------------------------------------------
(* The inductive invariant.                                                 *)

Preparing == {"paths", "copy", "clean", "baseline", "session"}
Activated == {"plan", "talk", "talking", "turns", "turn", "returned"}
LaunchPlaces == {"no", "mkdir", "threw"} \cup Preparing \cup Activated
Attachments == {"none", "running", "interrupted", "closed"}
Scripts == {"none", "search", "unsafe", "legitimate", "done", "stopped"}
Unattached == {"no", "authorize", "guardian", "broker", "research", "undo"}
Running == {"run", "leave", "over"}
Ending == {"closing", "closed"}

CallRecord == [at : {"no", "start", "ask", "close"},
               answer : ReviewAnswers \cup RiskAnswers \cup TalkAnswers \cup TurnAnswers
                          \cup {"threw"}]
Copies == [1..Len(Manifest) -> {"none", "planned"}]
WorkspaceRecord ==
    [exists : BOOLEAN, owns : BOOLEAN, prepared : BOOLEAN, closed : BOOLEAN,
     removing : BOOLEAN, immutable : BOOLEAN, copy : Copies, next : [Drafts -> Nat]]
SessionRecord ==
    [of : Drafts \cup {NoDraft}, runtime : {"none", "active", "interrupted", "revoked"},
     durable : {"none", "active", "ended"}, plan : BOOLEAN]
JourneyRecord ==
    [state : {"idle", "starting", "started"}, at : Unattached \cup Running,
     attached : Attachments, script : Scripts, effect : {"no", "claimed", "merged"},
     told : {"none", "completed", "stopped"}, waits : BOOLEAN]

CallsOK ==
    /\ call \in [Helpers -> CallRecord]
    /\ \A x \in Helpers : call[x].answer \in AnswersOf(x) \cup {"threw"}

TypeOK ==
    /\ phase \in {"planning", "starting", "open"} \cup Ending
    /\ draft \in [Drafts -> DraftRecord]
    /\ CallsOK
    /\ launch \in [Drafts -> LaunchPlaces]
    /\ workspace \in WorkspaceRecord
    /\ session \in SessionRecord
    /\ journey \in JourneyRecord
    /\ child \in [Children -> ChildRecord]

\* A draft that was reviewed is judged, assessed and compiled as it stands.
JudgedOrFallback(r) == r.effective = "deterministic_fallback" \/ r.judged = r.revision
DraftOK(r) ==
    /\ r \in DraftRecord
    /\ r.state = "ready_for_compilation" => r.judged = r.revision
    /\ r.state \in {"setup_risk_in_progress", "setup_risk_complete"} =>
        /\ r.requested = "qwen_assisted"
        /\ r.complete /\ r.within
        /\ r.assessed = r.revision /\ JudgedOrFallback(r)
    /\ r.state \in {"awaiting_confirmation", "consumed"} =>
        /\ r.compiled = r.revision /\ r.complete /\ r.within
        /\ r.requested = "qwen_assisted" =>
            /\ r.floor = "confirm" /\ r.assessed = r.revision /\ JudgedOrFallback(r)

\* A launch has consumed its draft, and the session is of the launch that made it.
LaunchesOK ==
    /\ \A d \in Drafts :
        /\ launch[d] # "no" => draft[d].state = "consumed"
        /\ launch[d] \in Activated => session.of = d
    /\ session.of # NoDraft => launch[session.of] \in Activated \cup {"threw"}

\* Until somebody closes the supervisor the directory belongs to one draft, and
\* what its launch has not yet copied lies ahead of its loop.
Holds(d) == launch[d] \in Preparing \/ session.of = d
CopiedSoFar(d) ==
    /\ launch[d] = "copy" =>
        \A i \in 1..Len(Manifest) : i < workspace.next[d] => workspace.copy[i] = "planned"
    /\ launch[d] \in {"baseline", "session"} \/ session.of = d => CopyComplete(workspace.copy)
WorkspaceOK ==
    /\ workspace.removing => phase \in Ending
    /\ \A d \in Drafts :
        /\ launch[d] \in {"no", "mkdir", "paths"} => workspace.next[d] = 1
        /\ launch[d] = "copy" => workspace.next[d] \in 1..Len(Manifest)
    /\ phase \notin Ending =>
        \A d \in Drafts :
            /\ Holds(d) => workspace.exists /\ \A e \in Drafts \ {d} : ~Holds(e)
            /\ CopiedSoFar(d)

\* A journey runs for a session that is active and whose launch is over; its
\* services are gone when its caller has returned, unless close waits for them.
JourneyOK ==
    /\ journey.at = "no" <=> journey.state = "idle"
    /\ journey.at # "no" => session.of # NoDraft /\ LaunchOver(session.of)
    /\ journey.at \notin {"no", "authorize"} => session.runtime = "active"
    /\ journey.at \notin Running =>
        journey.script = "none" /\ journey.attached = "none" /\ ~journey.waits
    /\ journey.script = "done" => journey.effect = "merged"
    /\ journey.attached = "running" =>
        journey.at = "run" /\ \A c \in JourneyServices : ~Gone(child[c])
    /\ journey.waits => phase \in Ending
    /\ journey.waits /\ phase = "closed" => ServicesGone
    /\ journey.at = "run" /\ journey.attached = "closed" => journey.waits
    /\ journey.at = "over" => ServicesGone \/ journey.waits

LaunchInv ==
    /\ TypeOK
    /\ \A d \in Drafts : DraftOK(draft[d])
    /\ LaunchesOK /\ WorkspaceOK /\ JourneyOK
-----------------------------------------------------------------------------
(* The processes.                                                           *)

LEMMA HelperIsNoService ==
    \A x \in Helpers : x \in Children /\ x \notin JourneyServices /\ x # Authority
<1>1. ASSUME NEW x \in Helpers PROVE x[2] # NoDraft
  BY DraftsAssumption DEF Helpers
<1>. QED BY <1>1 DEF Helpers, Children, JourneyServices, Authority, Guardian, Broker, Research

LEMMA ServicesAreChildren ==
    /\ Guardian \in Children /\ Broker \in Children /\ Research \in Children
    /\ Authority \in Children /\ Authority \notin JourneyServices
    /\ \A c \in JourneyServices : c \in Children
    /\ Guardian \in JourneyServices /\ Broker \in JourneyServices
    /\ Research \in JourneyServices
BY DEF Children, JourneyServices, Authority, Guardian, Broker, Research

\* Closing a process neither ends nor revives it.
LEMMA CloseChildIs ==
    ASSUME NEW c \in ChildRecord
    PROVE  CloseChild(c) \in ChildRecord /\ (Gone(CloseChild(c)) <=> Gone(c))
BY DEF CloseChild, ChildRecord, Gone

\* An ended process stays ended.
LEMMA MovesAre ==
    ASSUME NEW c \in ChildRecord, NEW t \in TimedMoves(c) \cup OwnMoves(c)
    PROVE  t \in ChildRecord /\ (Gone(c) => Gone(t))
<1>1. CASE t \in StartResolves(c)
  BY <1>1, CloseChildIs DEF StartResolves, CloseChild, ChildRecord, Gone
<1>2. CASE t \in ShutdownMoves(c)
  <2>1. CASE c.proc = "term"
    BY <1>2, <2>1 DEF ShutdownMoves, ChildRecord, Gone
  <2>2. CASE c.proc = "kill"
    BY <1>2, <2>2 DEF ShutdownMoves, Exited, ChildRecord, Gone
  <2>. QED BY <1>2, <2>1, <2>2 DEF ShutdownMoves
<1>3. CASE t \in OwnMoves(c)
  BY <1>3, CloseChildIs DEF OwnMoves, Live, Exited, ChildRecord, Gone
<1>. QED BY <1>1, <1>2, <1>3 DEF TimedMoves

LEMMA SpawnedAre ==
    NoChild \in ChildRecord /\ \A c \in Spawned : c \in ChildRecord
BY DEF NoChild, Spawned, ChildRecord

-----------------------------------------------------------------------------
(* The calls into the helper services leave the journey's services alone.   *)

ServicesKept ==
    /\ child' \in [Children -> ChildRecord]
    /\ \A c \in JourneyServices : child'[c] = child[c]

LEMMA HelperChildKept ==
    ASSUME TypeOK, NEW x \in Helpers, NEW c \in ChildRecord, child' = [child EXCEPT ![x] = c]
    PROVE  ServicesKept
<1>1. child \in [Children -> ChildRecord] /\ x \in Children /\ x \notin JourneyServices
  BY HelperIsNoService DEF TypeOK
<1>2. \A y \in JourneyServices : y \in Children
  BY ServicesAreChildren
<1>. QED BY <1>1, <1>2 DEF ServicesKept

LEMMA CallWritten ==
    ASSUME CallsOK, NEW x \in Helpers, NEW r \in CallRecord,
           r.answer \in AnswersOf(x) \cup {"threw"}, call' = [call EXCEPT ![x] = r]
    PROVE  CallsOK'
<1>1. call' \in [Helpers -> CallRecord]
  BY DEF CallsOK
<1>2. ASSUME NEW y \in Helpers PROVE call'[y].answer \in AnswersOf(y) \cup {"threw"}
  BY DEF CallsOK
<1>3. \A y \in Helpers : AnswersOf(y)' = AnswersOf(y)
  BY DEF AnswersOf, ReviewAnswers, RiskAnswers, TalkAnswers, TurnAnswers
<1>. QED BY <1>1, <1>2, <1>3 DEF CallsOK

LEMMA AskKeeps ==
    ASSUME TypeOK, NEW x \in Helpers, Ask(x)
    PROVE  CallsOK' /\ ServicesKept
<1>1. [at |-> "start", answer |-> "threw"] \in CallRecord
  BY DEF CallRecord
<1>2. CallsOK'
  BY <1>1, CallWritten DEF Ask, TypeOK
<1>. QED BY <1>2, SpawnedAre, HelperChildKept DEF Ask

LEMMA CallOverKeeps ==
    ASSUME TypeOK, NEW x \in Helpers, CallOver(x)
    PROVE  CallsOK' /\ ServicesKept
<1>1. [at |-> "no", answer |-> "threw"] \in CallRecord
  BY DEF CallRecord
<1>2. CallsOK'
  BY <1>1, CallWritten DEF CallOver, TypeOK
<1>. QED BY <1>2, SpawnedAre, HelperChildKept DEF CallOver

LEMMA HelperStepKeeps ==
    ASSUME TypeOK, NEW x \in Helpers, HelperStep(x)
    PROVE  /\ CallsOK' /\ ServicesKept
           /\ UNCHANGED <<phase, draft, launch, workspace, session, journey>>
<1>0. call[x] \in CallRecord /\ call[x].answer \in AnswersOf(x) \cup {"threw"}
  BY DEF TypeOK, CallsOK
<1>1. child[x] \in ChildRecord /\ CloseChild(child[x]) \in ChildRecord
  BY HelperIsNoService, CloseChildIs DEF TypeOK
<1>2. CASE CallStarts(x)
  <2>1. CASE Aborted(x)
    <3>1. [at |-> "close", answer |-> "threw"] \in CallRecord
      BY DEF CallRecord
    <3>2. /\ call' = [call EXCEPT ![x] = [at |-> "close", answer |-> "threw"]]
          /\ child' = [child EXCEPT ![x] = CloseChild(child[x])]
      BY <1>2, <2>1 DEF CallStarts
    <3>. QED BY <1>1, <1>2, <3>1, <3>2, CallWritten, HelperChildKept DEF CallStarts, TypeOK
  <2>2. CASE ~Aborted(x)
    <3> DEFINE r == [call[x] EXCEPT !.at = "ask"]
    <3>1. r \in CallRecord /\ r.answer = call[x].answer
      BY <1>0 DEF CallRecord
    <3>2. call' = [call EXCEPT ![x] = r] /\ UNCHANGED child
      BY <1>2, <2>2 DEF CallStarts
    <3>3. CallsOK'
      <4> HIDE DEF r
      <4>. QED BY <1>0, <3>1, <3>2, CallWritten DEF TypeOK
    <3>. QED BY <1>2, <3>2, <3>3 DEF CallStarts, ServicesKept, TypeOK
  <2>. QED BY <2>1, <2>2
<1>3. CASE CallAnswers(x)
  <2>1. PICK answer \in AnswersOf(x) \cup {"threw"} :
            call' = [call EXCEPT ![x] = [at |-> "close", answer |-> answer]]
    BY <1>3 DEF CallAnswers
  <2>2. x[1] \in {"reviewer", "assessor", "interaction", "worker"}
    BY DEF Helpers
  <2>3. AnswersOf(x) \subseteq ReviewAnswers \cup RiskAnswers \cup TalkAnswers \cup TurnAnswers
    BY <2>2 DEF AnswersOf
  <2>4. [at |-> "close", answer |-> answer] \in CallRecord
    BY <2>3 DEF CallRecord
  <2>5. CallsOK'
    BY <2>1, <2>4, CallWritten DEF TypeOK
  <2>. QED BY <1>1, <1>3, <2>5, HelperChildKept DEF CallAnswers
<1>. QED BY <1>2, <1>3 DEF HelperStep
-----------------------------------------------------------------------------
(* Formation: what each method of the coordinator does to a draft.          *)

\* A record that the coordinator may put in a draft's place.
Follows(r, t) == DraftOK(t) /\ (r.state = "consumed" => t.state = "consumed")

LEMMA NewDraftIs ==
    ASSUME NEW route \in {"structured", "qwen_assisted"}, NEW c \in BOOLEAN, NEW w \in BOOLEAN,
           NEW t, t = NewDraft(route, c, w)
    PROVE  /\ t \in DraftRecord /\ t.state = "awaiting_review" /\ t.requested = route
           /\ t.complete = c /\ t.within = w
<1>1. NoDraftRecord \in DraftRecord
  BY DEF NoDraftRecord, DraftRecord, DraftStates, Routes, Floors
<1>. QED BY <1>1 DEF NewDraft, DraftRecord, DraftStates, Routes

LEMMA NewDraftFollows ==
    ASSUME NEW r, r.state = "none", NEW complete \in BOOLEAN, NEW within \in BOOLEAN
    PROVE  /\ Follows(r, CompileCandidate(NewDraft("structured", TRUE, TRUE)))
           /\ Follows(r, NewDraft("qwen_assisted", complete, within))
<1>1. DraftOK(NewDraft("qwen_assisted", complete, within))
  <2>1. PICK t : t = NewDraft("qwen_assisted", complete, within)
    OBVIOUS
  <2>2. t \in DraftRecord /\ t.state = "awaiting_review" /\ t.requested = "qwen_assisted"
    BY <2>1, NewDraftIs
  <2>. QED BY <2>1, <2>2 DEF DraftOK
<1>2. PICK t : t = NewDraft("structured", TRUE, TRUE)
  OBVIOUS
<1>3. PICK u : u = CompileCandidate(t)
  OBVIOUS
<1>4. t \in DraftRecord /\ t.requested = "structured" /\ t.complete /\ t.within
  <2>1. NoDraftRecord \in DraftRecord
    BY DEF NoDraftRecord, DraftRecord, DraftStates, Routes, Floors
  <2>. QED BY <1>2, <2>1 DEF NewDraft, DraftRecord, DraftStates, Routes
<1>5. u = [t EXCEPT !.state = "awaiting_confirmation", !.compiled = t.revision,
                    !.preview = "offered", !.effective = "structured"]
  BY <1>3, <1>4 DEF CompileCandidate
<1>6. /\ u \in DraftRecord /\ u.state = "awaiting_confirmation" /\ u.requested = "structured"
      /\ u.complete /\ u.within /\ u.compiled = u.revision
  BY <1>4, <1>5 DEF DraftRecord, DraftStates, Routes
<1>7. DraftOK(u)
  BY <1>6 DEF DraftOK
<1>. QED BY <1>1, <1>2, <1>3, <1>7 DEF Follows

LEMMA ExpiryFollows ==
    ASSUME NEW r, DraftOK(r)
    PROVE  Follows(r, [r EXCEPT !.expired = TRUE])
BY DEF Follows, DraftOK, DraftRecord, JudgedOrFallback

LEMMA ReviewFollows ==
    ASSUME NEW r, DraftOK(r)
    PROVE  /\ CanReview(r) => Follows(r, BeginReview(r))
           /\ \A answer : TakesReview(r, answer) => Follows(r, CompleteReview(r, answer))
<1>1. ASSUME CanReview(r) PROVE Follows(r, BeginReview(r))
  <2>1. r.state = "awaiting_review" /\ r \in DraftRecord
    BY <1>1 DEF CanReview, DraftOK
  <2>2. PICK n : n = r.turn + 1
    OBVIOUS
  <2>3. PICK t : t = [r EXCEPT !.turn = n, !.state = "review_in_progress"]
    OBVIOUS
  <2>4. r.turn \in Nat
    BY <2>1 DEF DraftRecord
  <2>5. n \in Nat
    BY <2>2, <2>4
  <2>6. t \in DraftRecord /\ t.state = "review_in_progress"
    BY <2>1, <2>3, <2>5 DEF DraftRecord, DraftStates
  <2>7. BeginReview(r) = t
    BY <2>2, <2>3 DEF BeginReview
  <2>. QED BY <2>1, <2>6, <2>7 DEF Follows, DraftOK
<1>2. ASSUME NEW answer, TakesReview(r, answer)
      PROVE  Follows(r, CompleteReview(r, answer))
  <2>1. r.state = "review_in_progress" /\ r \in DraftRecord
    BY <1>2 DEF TakesReview, DraftOK
  <2>2. PICK t : t = CompleteReview(r, answer)
    OBVIOUS
  <2>3. CASE answer = "ready"
    <3>1. t = [r EXCEPT !.state = "ready_for_compilation", !.judged = r.revision]
      BY <2>2, <2>3 DEF CompleteReview
    <3>2. /\ t \in DraftRecord /\ t.state = "ready_for_compilation"
          /\ t.judged = t.revision
      BY <2>1, <3>1 DEF DraftRecord, DraftStates
    <3>. QED BY <2>1, <2>2, <3>2 DEF Follows, DraftOK
  <2>4. CASE answer # "ready"
    <3>1. t = [r EXCEPT !.state = "needs_clarification"]
      BY <2>2, <2>4 DEF CompleteReview
    <3>2. t \in DraftRecord /\ t.state = "needs_clarification"
      BY <2>1, <3>1 DEF DraftRecord, DraftStates
    <3>. QED BY <2>1, <2>2, <3>2 DEF Follows, DraftOK
  <2>. QED BY <2>3, <2>4
<1>. QED BY <1>1, <1>2

LEMMA RevisionFollows ==
    ASSUME NEW r, DraftOK(r), CanRevise(r), NEW complete \in BOOLEAN, NEW within \in BOOLEAN
    PROVE  Follows(r, ReviseDraft(r, complete, within))
<1>1. r.state = "needs_clarification" /\ r \in DraftRecord
  BY DEF CanRevise, DraftOK
<1>2. PICK n : n = r.revision + 1
  OBVIOUS
<1>3. PICK t : t = [r EXCEPT !.revision = n, !.state = "awaiting_review",
                             !.complete = complete, !.within = within]
  OBVIOUS
<1>4. r.revision \in Nat
  BY <1>1 DEF DraftRecord
<1>5. n \in Nat
  BY <1>2, <1>4
<1>6. t \in DraftRecord /\ t.state = "awaiting_review"
  BY <1>1, <1>3, <1>5 DEF DraftRecord, DraftStates
<1>7. ReviseDraft(r, complete, within) = t
  BY <1>2, <1>3 DEF ReviseDraft
<1>. QED BY <1>1, <1>6, <1>7 DEF Follows, DraftOK

\* The revision that is assessed is the one a review found ready, or the fallback's.
LEMMA AssessmentFollows ==
    ASSUME NEW r, DraftOK(r), NEW effective \in {"qwen_assisted", "deterministic_fallback"},
           CanAssess(r, effective)
    PROVE  Follows(r, BeginSetupRisk(r, effective))
<1>1. /\ r \in DraftRecord /\ r.requested = "qwen_assisted" /\ r.complete /\ r.within
      /\ r.state = IF effective = "qwen_assisted" THEN "ready_for_compilation"
                                                  ELSE "review_in_progress"
  BY DEF CanAssess, DraftOK
<1>2. effective = "qwen_assisted" => r.judged = r.revision
  BY <1>1 DEF DraftOK
<1>3. PICK t : t = BeginSetupRisk(r, effective)
  OBVIOUS
<1>4. /\ t \in DraftRecord /\ t.state = "setup_risk_in_progress"
      /\ t.requested = "qwen_assisted" /\ t.complete /\ t.within
      /\ t.assessed = t.revision /\ t.effective = effective
      /\ t.judged = r.judged /\ t.revision = r.revision
  BY <1>1, <1>3 DEF BeginSetupRisk, DraftRecord, DraftStates, Routes
<1>5. JudgedOrFallback(t)
  BY <1>2, <1>4 DEF JudgedOrFallback
<1>6. DraftOK(t)
  BY <1>4, <1>5 DEF DraftOK
<1>7. r.state # "consumed"
  BY <1>1
<1>. QED BY <1>3, <1>6, <1>7 DEF Follows

\* Only "confirm" is compiled, at the revision that was assessed.
LEMMA CompilationFollows ==
    ASSUME NEW r, DraftOK(r), NEW floor \in RiskAnswers, TakesSetupRisk(r)
    PROVE  Follows(r, CompileAssessed(CompleteSetupRisk(r, floor)))
<1>1. /\ r \in DraftRecord /\ r.state = "setup_risk_in_progress"
      /\ r.requested = "qwen_assisted" /\ r.complete /\ r.within
      /\ r.assessed = r.revision /\ JudgedOrFallback(r)
  BY DEF TakesSetupRisk, DraftOK
<1>2. PICK t : t = CompleteSetupRisk(r, floor)
  OBVIOUS
<1>3. /\ t \in DraftRecord /\ t.state = "setup_risk_complete"
      /\ t.requested = "qwen_assisted" /\ t.complete /\ t.within
      /\ t.assessed = t.revision /\ t.floor = floor
      /\ t.effective = r.effective /\ t.judged = r.judged /\ t.revision = r.revision
  BY <1>1, <1>2 DEF CompleteSetupRisk, DraftRecord, DraftStates, Floors, RiskAnswers
<1>4. JudgedOrFallback(t)
  BY <1>1, <1>3 DEF JudgedOrFallback
<1>5. DraftOK(t)
  BY <1>3, <1>4 DEF DraftOK
<1>6. PICK u : u = CompileAssessed(t)
  OBVIOUS
<1>7. CASE floor = "confirm" /\ CanCompile(t)
  <2>1. u = [t EXCEPT !.state = "awaiting_confirmation", !.compiled = t.revision,
                      !.preview = "offered", !.effective = t.effective]
    BY <1>3, <1>6, <1>7 DEF CompileAssessed, CompileCandidate
  <2>2. /\ u \in DraftRecord /\ u.state = "awaiting_confirmation"
        /\ u.complete /\ u.within /\ u.compiled = u.revision
        /\ u.assessed = u.revision /\ u.floor = "confirm"
        /\ u.effective = t.effective /\ u.judged = t.judged /\ u.revision = t.revision
    BY <1>3, <1>7, <2>1 DEF DraftRecord, DraftStates
  <2>3. JudgedOrFallback(u)
    BY <1>4, <2>2 DEF JudgedOrFallback
  <2>4. DraftOK(u)
    BY <2>2, <2>3 DEF DraftOK
  <2>. QED BY <1>1, <1>2, <1>6, <2>4 DEF Follows
<1>8. CASE ~(floor = "confirm" /\ CanCompile(t))
  <2>1. u = t
    BY <1>3, <1>6, <1>8 DEF CompileAssessed
  <2>. QED BY <1>1, <1>2, <1>5, <1>6, <2>1 DEF Follows
<1>. QED BY <1>7, <1>8

LEMMA ConsumptionFollows ==
    ASSUME NEW r, DraftOK(r), CanConfirm(r)
    PROVE  Follows(r, ConsumeCandidate(r)) /\ ConsumeCandidate(r).state = "consumed"
<1>1. r \in DraftRecord /\ r.state = "awaiting_confirmation"
  BY DEF CanConfirm, DraftOK
<1>2. PICK t : t = ConsumeCandidate(r)
  OBVIOUS
<1>3. /\ t \in DraftRecord /\ t.state = "consumed"
      /\ t.compiled = r.compiled /\ t.revision = r.revision /\ t.complete = r.complete
      /\ t.within = r.within /\ t.requested = r.requested /\ t.floor = r.floor
      /\ t.assessed = r.assessed /\ t.effective = r.effective /\ t.judged = r.judged
  BY <1>1, <1>2 DEF ConsumeCandidate, DraftRecord, DraftStates
<1>4. DraftOK(t)
  BY <1>1, <1>3 DEF DraftOK, JudgedOrFallback
<1>. QED BY <1>2, <1>3, <1>4 DEF Follows
-----------------------------------------------------------------------------
(* The parts of the invariant, kept by the steps that do not concern them.  *)

DraftsKept ==
    /\ draft' \in [Drafts -> DraftRecord]
    /\ \A d \in Drafts : /\ DraftOK(draft'[d])
                         /\ draft[d].state = "consumed" => draft'[d].state = "consumed"

LEMMA DraftWritten ==
    ASSUME LaunchInv, NEW d \in Drafts, NEW t, Follows(draft[d], t), Put(d, t)
    PROVE  DraftsKept
<1>1. draft \in [Drafts -> DraftRecord] /\ draft' = [draft EXCEPT ![d] = t]
  BY DEF LaunchInv, TypeOK, Put
<1>2. \A e \in Drafts : DraftOK(draft[e])
  BY DEF LaunchInv
<1>3. DraftOK(t) /\ (draft[d].state = "consumed" => t.state = "consumed")
  BY DEF Follows
<1>4. t \in DraftRecord
  BY <1>3 DEF DraftOK
<1>. QED BY <1>1, <1>2, <1>3, <1>4 DEF DraftsKept

LEMMA DraftsSame == LaunchInv /\ UNCHANGED draft => DraftsKept
BY DEF LaunchInv, TypeOK, DraftsKept

LEMMA ChildrenSame == LaunchInv /\ UNCHANGED child => ServicesKept
BY DEF LaunchInv, TypeOK, ServicesKept

LEMMA CallsSame == LaunchInv /\ UNCHANGED call => CallsOK'
<1>1. \A x \in Helpers : AnswersOf(x)' = AnswersOf(x)
  BY DEF AnswersOf, ReviewAnswers, RiskAnswers, TalkAnswers, TurnAnswers
<1>. QED BY <1>1 DEF LaunchInv, TypeOK, CallsOK

\* A journey is not touched by a launch, which is over or another's.
LEMMA JourneyStays ==
    ASSUME LaunchInv, UNCHANGED <<phase, journey>>, ServicesKept,
           \/ journey.at = "no"
           \/ /\ session'.of = session.of /\ session'.runtime = session.runtime
              /\ session.of # NoDraft /\ LaunchOver(session.of)
                    => launch'[session.of] = launch[session.of]
    PROVE  JourneyOK'
<1>1. \A c \in JourneyServices : Gone(child'[c]) <=> Gone(child[c])
  BY DEF ServicesKept, Gone
<1>2. ServicesGone' <=> ServicesGone
  BY <1>1 DEF ServicesGone, Gone
<1>3. (\A c \in JourneyServices : ~Gone(child[c]))' <=> \A c \in JourneyServices : ~Gone(child[c])
  BY <1>1 DEF Gone
<1>4. JourneyOK /\ journey' = journey /\ phase' = phase
  BY DEF LaunchInv
<1>5. \/ journey.at = "no"
      \/ /\ session'.of = session.of /\ session'.runtime = session.runtime
         /\ session.of # NoDraft /\ LaunchOver(session.of) => LaunchOver(session.of)'
  BY DEF LaunchOver
<1>6. CASE journey.at = "no"
  BY <1>2, <1>3, <1>4, <1>6 DEF JourneyOK, Running
<1>7. CASE /\ session'.of = session.of /\ session'.runtime = session.runtime
           /\ session.of # NoDraft /\ LaunchOver(session.of) => LaunchOver(session.of)'
  <2>1. session'.of # NoDraft /\ LaunchOver(session.of)
           => session'.of # NoDraft /\ LaunchOver(session.of)'
    BY <1>7
  <2>. QED BY <1>2, <1>3, <1>4, <1>7, <2>1 DEF JourneyOK, LaunchOver
<1>. QED BY <1>5, <1>6, <1>7

\* Formation, and the helpers it calls.
LEMMA FormationKeeps ==
    ASSUME LaunchInv, DraftsKept, CallsOK', ServicesKept,
           UNCHANGED <<phase, launch, workspace, session, journey>>
    PROVE  LaunchInv'
<1>1. TypeOK'
  BY DEF LaunchInv, TypeOK, DraftsKept, ServicesKept
<1>2. LaunchesOK'
  BY DEF LaunchInv, LaunchesOK, DraftsKept
<1>3. WorkspaceOK'
  BY DEF LaunchInv, WorkspaceOK, Holds, CopiedSoFar
<1>4. JourneyOK'
  BY JourneyStays
<1>. QED BY <1>1, <1>2, <1>3, <1>4 DEF LaunchInv, DraftsKept

\* A launch that moves on, but not into the workspace's preparation.
LEMMA LaunchWritten ==
    ASSUME LaunchInv, DraftsKept, NEW d \in Drafts, NEW at \in LaunchPlaces, Go(d, at),
           at # "no", draft'[d].state = "consumed", session'.of = session.of,
           session.of = d => at \in Activated \cup {"threw"},
           at \in Activated => session.of = d
    PROVE  LaunchesOK' /\ launch' \in [Drafts -> LaunchPlaces]
<1>1. launch \in [Drafts -> LaunchPlaces] /\ LaunchesOK /\ session \in SessionRecord
  BY DEF LaunchInv, TypeOK
<1>2. /\ launch' \in [Drafts -> LaunchPlaces]
      /\ launch'[d] = at /\ \A e \in Drafts \ {d} : launch'[e] = launch[e]
  BY <1>1 DEF Go
<1>3. session.of \in Drafts \cup {NoDraft}
  BY <1>1 DEF SessionRecord
<1>. QED BY <1>1, <1>2, <1>3 DEF LaunchesOK, DraftsKept

LEMMA WorkspaceStays ==
    ASSUME LaunchInv, NEW d \in Drafts, NEW at \in LaunchPlaces \ (Preparing \cup {"no"}),
           Go(d, at), at = "mkdir" => launch[d] = "no",
           UNCHANGED <<phase, workspace>>, session'.of = session.of
    PROVE  WorkspaceOK'
<1>1. launch \in [Drafts -> LaunchPlaces] /\ WorkspaceOK
  BY DEF LaunchInv, TypeOK
<1>2. launch'[d] = at /\ \A e \in Drafts \ {d} : launch'[e] = launch[e]
  BY <1>1 DEF Go
<1>3. \A e \in Drafts : Holds(e)' => Holds(e)
  BY <1>2 DEF Holds
<1>4. \A e \in Drafts : CopiedSoFar(e) => CopiedSoFar(e)'
  BY <1>2 DEF CopiedSoFar, Preparing
<1>5. \A e \in Drafts :
        launch'[e] \in {"no", "mkdir", "paths"} => launch[e] \in {"no", "mkdir", "paths"}
  BY <1>2 DEF Preparing
<1>6. \A e \in Drafts : launch'[e] = "copy" => launch[e] = "copy"
  BY <1>2 DEF Preparing
<1>. QED BY <1>1, <1>3, <1>4, <1>5, <1>6 DEF WorkspaceOK

-----------------------------------------------------------------------------
(* confirmAndLaunch.                                                        *)

LEMMA ConfirmKeeps ==
    ASSUME LaunchInv, NEW d \in Drafts, Confirm(d)
    PROVE  LaunchInv'
<1>1. DraftOK(draft[d])
  BY DEF LaunchInv
<1>2. Follows(draft[d], ConsumeCandidate(draft[d]))
      /\ ConsumeCandidate(draft[d]).state = "consumed"
  BY <1>1, ConsumptionFollows DEF Confirm
<1>3. DraftsKept
  BY <1>2, DraftWritten DEF Confirm
<1>4. draft'[d].state = "consumed"
  BY <1>2 DEF Confirm, Put, LaunchInv, TypeOK
<1>5. PICK at \in {"mkdir", "threw"} : Go(d, at)
  BY DEF Confirm
<1>6. /\ launch[d] = "no" /\ session.of # d
      /\ UNCHANGED <<phase, call, workspace, session, journey, child>>
  BY DraftsAssumption DEF Confirm, LaunchInv, LaunchesOK, Activated
<1>7. LaunchesOK' /\ launch' \in [Drafts -> LaunchPlaces]
  BY <1>3, <1>4, <1>5, <1>6, LaunchWritten DEF LaunchPlaces, Activated
<1>8. WorkspaceOK'
  BY <1>5, <1>6, WorkspaceStays DEF LaunchPlaces, Preparing
<1>9. CallsOK' /\ ServicesKept
  BY <1>6, CallsSame, ChildrenSame
<1>10. session.of # NoDraft => launch'[session.of] = launch[session.of]
  BY <1>5, <1>6 DEF Go, LaunchInv, TypeOK, SessionRecord
<1>11. JourneyOK'
  BY <1>6, <1>9, <1>10, JourneyStays
<1>12. TypeOK'
  BY <1>3, <1>6, <1>7, <1>9 DEF LaunchInv, TypeOK, DraftsKept, ServicesKept
<1>. QED BY <1>3, <1>7, <1>8, <1>11, <1>12 DEF LaunchInv, DraftsKept

\* A step of prepare: what is left to show is what it does to the workspace.
LEMMA PreparationKeeps ==
    ASSUME LaunchInv, NEW d \in Drafts, launch[d] \in Preparing \cup {"mkdir"},
           NEW at \in Preparing \cup {"threw"}, Go(d, at),
           workspace' \in WorkspaceRecord, WorkspaceOK',
           UNCHANGED <<phase, draft, call, session, journey, child>>
    PROVE  LaunchInv'
<1>1. session.of # d /\ draft[d].state = "consumed"
  BY DraftsAssumption DEF LaunchInv, LaunchesOK, Preparing, Activated
<1>2. DraftsKept /\ CallsOK' /\ ServicesKept
  BY DraftsSame, CallsSame, ChildrenSame
<1>3. at \in LaunchPlaces /\ at # "no" /\ at \notin Activated
  BY DEF LaunchPlaces, Preparing, Activated
<1>4. LaunchesOK' /\ launch' \in [Drafts -> LaunchPlaces]
  BY <1>1, <1>2, <1>3, LaunchWritten
<1>5. session.of # NoDraft => launch'[session.of] = launch[session.of]
  BY <1>1 DEF Go, LaunchInv, TypeOK, SessionRecord
<1>6. JourneyOK'
  BY <1>2, <1>5, JourneyStays
<1>7. TypeOK'
  BY <1>2, <1>4 DEF LaunchInv, TypeOK, DraftsKept, ServicesKept
<1>. QED BY <1>2, <1>4, <1>6, <1>7 DEF LaunchInv, DraftsKept

\* A step of a launch whose session exists.
LEMMA ActivationKeeps ==
    ASSUME LaunchInv, NEW d \in Drafts, launch[d] \in Activated \ {"returned"},
           NEW at \in Activated \cup {"threw"}, Go(d, at), CallsOK', ServicesKept,
           session' \in SessionRecord, session'.of = session.of,
           UNCHANGED <<phase, draft, workspace, journey>>
    PROVE  LaunchInv'
<1>1. session.of = d /\ draft[d].state = "consumed"
  BY DEF LaunchInv, LaunchesOK, Activated
<1>2. DraftsKept
  BY DraftsSame
<1>3. at \in LaunchPlaces \ (Preparing \cup {"no"}) /\ at # "mkdir"
  BY DEF LaunchPlaces, Preparing, Activated
<1>4. LaunchesOK' /\ launch' \in [Drafts -> LaunchPlaces]
  BY <1>1, <1>2, <1>3, LaunchWritten
<1>5. WorkspaceOK'
  BY <1>3, WorkspaceStays
<1>6. journey.at = "no"
  BY <1>1 DEF LaunchInv, JourneyOK, LaunchOver, Activated
<1>7. JourneyOK'
  BY <1>6, JourneyStays
<1>8. TypeOK'
  BY <1>2, <1>4 DEF LaunchInv, TypeOK, DraftsKept, ServicesKept
<1>. QED BY <1>2, <1>4, <1>5, <1>7, <1>8 DEF LaunchInv, DraftsKept
-----------------------------------------------------------------------------
(* prepare: the workspace.                                                  *)

\* What a step of one launch leaves of the others'.
LEMMA OthersStay ==
    ASSUME LaunchInv, NEW d \in Drafts, NEW at \in LaunchPlaces, Go(d, at)
    PROVE  launch'[d] = at /\ \A e \in Drafts \ {d} : launch'[e] = launch[e]
BY DEF LaunchInv, TypeOK, Go

\* Changes of the directory alone, while one launch holds it or takes it.
LEMMA DirectoryKeeps ==
    ASSUME LaunchInv, NEW d \in Drafts, NEW at \in Preparing \cup {"threw"}, Go(d, at),
           UNCHANGED <<phase, session>>, session.of # d,
           workspace'.removing = workspace.removing,
           \A e \in Drafts \ {d} : workspace'.next[e] = workspace.next[e],
           at = "paths" => workspace'.next[d] = 1,
           at = "copy" => workspace'.next[d] \in 1..Len(Manifest),
           phase \notin Ending =>
             /\ \A e \in Drafts \ {d} : ~Holds(e)
             /\ at \in Preparing => workspace'.exists
             /\ CopiedSoFar(d)'
    PROVE  WorkspaceOK'
<1>1. WorkspaceOK
  BY DEF LaunchInv
<1>2. launch'[d] = at /\ \A e \in Drafts \ {d} : launch'[e] = launch[e]
  BY OthersStay DEF LaunchPlaces
<1>3. ASSUME NEW e \in Drafts
      PROVE  /\ launch'[e] \in {"no", "mkdir", "paths"} => workspace'.next[e] = 1
             /\ launch'[e] = "copy" => workspace'.next[e] \in 1..Len(Manifest)
  <2>1. CASE e = d
    BY <1>2, <2>1 DEF Preparing
  <2>2. CASE e # d
    BY <1>1, <1>2, <2>2 DEF WorkspaceOK
  <2>. QED BY <2>1, <2>2
<1>4. ASSUME phase \notin Ending, NEW e \in Drafts
      PROVE  /\ Holds(e)' => workspace'.exists /\ \A f \in Drafts \ {e} : ~Holds(f)'
             /\ CopiedSoFar(e)'
  <2>1. \A f \in Drafts \ {d} : ~Holds(f) /\ ~Holds(f)'
    BY <1>2, <1>4 DEF Holds
  <2>2. CASE e = d
    <3>1. Holds(d)' => workspace'.exists
      BY <1>2, <1>4 DEF Holds
    <3>. QED BY <1>4, <2>1, <2>2, <3>1
  <2>3. CASE e # d
    <3>1. ~Holds(e)'
      BY <2>1, <2>3
    <3>. QED BY <3>1 DEF Holds, CopiedSoFar, Preparing
  <2>. QED BY <2>2, <2>3
<1>. QED BY <1>1, <1>3, <1>4 DEF WorkspaceOK

LEMMA MakeRootKeeps ==
    ASSUME LaunchInv, NEW d \in Drafts, MakeRoot(d)
    PROVE  LaunchInv'
<1>1. launch[d] = "mkdir" /\ UNCHANGED <<phase, draft, call, session, journey, child>>
  BY DEF MakeRoot
<1>2. session.of # d
  BY <1>1, DraftsAssumption DEF LaunchInv, LaunchesOK, Activated
<1>3. workspace \in WorkspaceRecord /\ workspace.next[d] = 1
  BY <1>1 DEF LaunchInv, TypeOK, WorkspaceOK
<1>4. CASE Go(d, "threw") /\ UNCHANGED workspace
  <2>1. WorkspaceOK'
    BY <1>1, <1>4, WorkspaceStays DEF LaunchPlaces, Preparing
  <2>. QED BY <1>1, <1>3, <1>4, <2>1, PreparationKeeps
<1>5. CASE /\ ~workspace.exists /\ Go(d, "paths")
           /\ workspace' = [workspace EXCEPT !.exists = TRUE, !.owns = TRUE]
  <2>1. /\ workspace' \in WorkspaceRecord
        /\ workspace'.exists /\ workspace'.removing = workspace.removing
        /\ workspace'.next = workspace.next
    BY <1>3, <1>5 DEF WorkspaceRecord
  <2>2. phase \notin Ending => \A e \in Drafts : ~Holds(e)
    BY <1>5 DEF LaunchInv, WorkspaceOK
  <2>3. launch'[d] = "paths"
    BY <1>5, OthersStay DEF LaunchPlaces, Preparing
  <2>4. CopiedSoFar(d)'
    BY <1>1, <1>2, <2>3 DEF CopiedSoFar
  <2>5. WorkspaceOK'
    BY <1>1, <1>2, <1>3, <1>5, <2>1, <2>2, <2>4, DirectoryKeeps DEF Preparing
  <2>. QED BY <1>1, <1>5, <2>1, <2>5, PreparationKeeps DEF Preparing
<1>. QED BY <1>4, <1>5 DEF MakeRoot

LEMMA CheckSourceKeeps ==
    ASSUME LaunchInv, NEW d \in Drafts, CheckSource(d)
    PROVE  LaunchInv'
<1>1. launch[d] = "paths" /\ UNCHANGED <<phase, draft, call, workspace, session, journey, child>>
  BY DEF CheckSource
<1>2. PICK at \in {"copy", "clean"} : Go(d, at)
  BY DEF CheckSource
<1>3. session.of # d
  BY <1>1, DraftsAssumption DEF LaunchInv, LaunchesOK, Activated
<1>4. workspace \in WorkspaceRecord /\ workspace.next[d] = 1
  BY <1>1 DEF LaunchInv, TypeOK, WorkspaceOK
<1>5. Holds(d)
  BY <1>1 DEF Holds, Preparing
<1>6. phase \notin Ending => workspace.exists /\ \A e \in Drafts \ {d} : ~Holds(e)
  BY <1>5 DEF LaunchInv, WorkspaceOK
<1>7. launch'[d] = at
  BY <1>2, OthersStay DEF LaunchPlaces, Preparing
<1>8. CopiedSoFar(d)'
  BY <1>1, <1>2, <1>3, <1>4, <1>7 DEF CopiedSoFar
<1>9. 1 \in 1..Len(Manifest)
  BY WorkspaceAssumption
<1>10. WorkspaceOK'
  BY <1>1, <1>2, <1>3, <1>4, <1>6, <1>8, <1>9, DirectoryKeeps DEF Preparing
<1>. QED BY <1>1, <1>2, <1>4, <1>10, PreparationKeeps DEF Preparing

LEMMA CopyFileKeeps ==
    ASSUME LaunchInv, NEW d \in Drafts, CopyFile(d)
    PROVE  LaunchInv'
<1>1. launch[d] = "copy" /\ UNCHANGED <<phase, draft, call, session, journey, child>>
  BY DEF CopyFile
<1>2. session.of # d
  BY <1>1, DraftsAssumption DEF LaunchInv, LaunchesOK, Activated
<1>3. workspace \in WorkspaceRecord
  BY DEF LaunchInv, TypeOK
<1>4. Holds(d)
  BY <1>1 DEF Holds, Preparing
<1>5. phase \notin Ending => workspace.exists /\ \A e \in Drafts \ {d} : ~Holds(e)
  BY <1>4 DEF LaunchInv, WorkspaceOK
<1>6. CASE Go(d, "clean") /\ UNCHANGED workspace
  <2>1. launch'[d] = "clean"
    BY <1>6, OthersStay DEF LaunchPlaces, Preparing
  <2>2. CopiedSoFar(d)'
    BY <1>1, <1>2, <2>1 DEF CopiedSoFar
  <2>3. WorkspaceOK'
    BY <1>1, <1>2, <1>5, <1>6, <2>2, DirectoryKeeps DEF Preparing
  <2>. QED BY <1>1, <1>3, <1>6, <2>3, PreparationKeeps DEF Preparing
<1>7. CASE \E found \in Found :
             /\ found = "planned"
             /\ workspace' = [workspace EXCEPT !.exists = TRUE, !.next[d] = @ + 1,
                                               !.copy[workspace.next[d]] = found]
             /\ Go(d, IF workspace.next[d] = Len(Manifest) THEN "baseline" ELSE "copy")
  <2>1. PICK n : n = workspace.next[d]
    OBVIOUS
  <2>2. PICK at : at = IF n = Len(Manifest) THEN "baseline" ELSE "copy"
    OBVIOUS
  <2>3. Go(d, at)
    BY <1>7, <2>1, <2>2
  <2>4. n \in 1..Len(Manifest) /\ Len(Manifest) \in Nat
    BY <1>1, <2>1, WorkspaceAssumption DEF LaunchInv, WorkspaceOK
  <2>5. workspace.copy \in Copies /\ workspace.next \in [Drafts -> Nat]
    BY <1>3 DEF WorkspaceRecord
  <2>6. PICK copy : copy = [workspace.copy EXCEPT ![n] = "planned"]
    OBVIOUS
  <2>7. PICK next : next = [workspace.next EXCEPT ![d] = n + 1]
    OBVIOUS
  <2>8. workspace' = [workspace EXCEPT !.exists = TRUE, !.next = next, !.copy = copy]
    BY <1>7, <2>1, <2>6, <2>7
  <2>9. /\ copy \in Copies /\ copy[n] = "planned"
        /\ \A i \in 1..Len(Manifest) : i # n => copy[i] = workspace.copy[i]
    BY <2>4, <2>5, <2>6 DEF Copies
  <2>10. /\ next \in [Drafts -> Nat] /\ next[d] = n + 1
         /\ \A e \in Drafts \ {d} : next[e] = workspace.next[e]
    BY <2>4, <2>5, <2>7
  <2>11. /\ workspace' \in WorkspaceRecord
         /\ workspace'.exists /\ workspace'.removing = workspace.removing
         /\ workspace'.next = next /\ workspace'.copy = copy
    BY <1>3, <2>8, <2>9, <2>10 DEF WorkspaceRecord
  <2>12. launch'[d] = at
    BY <2>2, <2>3, OthersStay DEF LaunchPlaces, Preparing
  <2>13. ASSUME phase \notin Ending PROVE CopiedSoFar(d)'
    <3>1. \A i \in 1..Len(Manifest) : i < n => workspace.copy[i] = "planned"
      BY <1>1, <2>1, <2>13 DEF LaunchInv, WorkspaceOK, CopiedSoFar
    <3>2. \A i \in 1..Len(Manifest) : i < n + 1 => copy[i] = "planned"
      BY <2>4, <2>9, <3>1
    <3>3. at # "copy" => n = Len(Manifest)
      BY <2>2
    <3>4. at # "copy" => \A i \in 1..Len(Manifest) : copy[i] = "planned"
      BY <2>4, <3>2, <3>3
    <3>. QED BY <1>1, <1>2, <2>2, <2>10, <2>11, <2>12, <3>2, <3>4
            DEF CopiedSoFar, CopyComplete
  <2>14. at = "copy" => workspace'.next[d] \in 1..Len(Manifest)
    BY <2>2, <2>4, <2>10, <2>11
  <2>15. WorkspaceOK'
    <3>1. at \in Preparing \cup {"threw"} /\ at # "paths"
      BY <2>2 DEF Preparing
    <3>. QED BY <1>1, <1>2, <1>5, <2>3, <2>10, <2>11, <2>13, <2>14, <3>1, DirectoryKeeps
  <2>. QED BY <1>1, <2>2, <2>3, <2>11, <2>15, PreparationKeeps DEF Preparing
<1>. QED BY <1>6, <1>7 DEF CopyFile

LEMMA BaselineKeeps ==
    ASSUME LaunchInv, NEW d \in Drafts, Baseline(d)
    PROVE  LaunchInv'
<1>1. launch[d] = "baseline" /\ UNCHANGED <<phase, draft, call, session, journey, child>>
  BY DEF Baseline
<1>2. session.of # d
  BY <1>1, DraftsAssumption DEF LaunchInv, LaunchesOK, Activated
<1>3. workspace \in WorkspaceRecord
  BY DEF LaunchInv, TypeOK
<1>4. Holds(d)
  BY <1>1 DEF Holds, Preparing
<1>5. phase \notin Ending =>
        /\ workspace.exists /\ \A e \in Drafts \ {d} : ~Holds(e)
        /\ CopyComplete(workspace.copy)
  BY <1>1, <1>4 DEF LaunchInv, WorkspaceOK, CopiedSoFar
<1>6. PICK at \in {"session", "clean"} :
        /\ Go(d, at)
        /\ \/ workspace' = workspace /\ at = "clean"
           \/ workspace' = [workspace EXCEPT !.exists = TRUE, !.prepared = TRUE]
  BY DEF Baseline
<1>7. /\ workspace' \in WorkspaceRecord /\ workspace'.removing = workspace.removing
      /\ workspace'.next = workspace.next /\ workspace'.copy = workspace.copy
      /\ workspace.exists => workspace'.exists
  BY <1>3, <1>6 DEF WorkspaceRecord
<1>8. launch'[d] = at
  BY <1>6, OthersStay DEF LaunchPlaces, Preparing
<1>9. phase \notin Ending => CopiedSoFar(d)'
  BY <1>1, <1>2, <1>5, <1>7, <1>8 DEF CopiedSoFar
<1>10. WorkspaceOK'
  BY <1>1, <1>2, <1>5, <1>6, <1>7, <1>9, DirectoryKeeps DEF Preparing
<1>. QED BY <1>1, <1>6, <1>7, <1>10, PreparationKeeps DEF Preparing

LEMMA PrepareFailedKeeps ==
    ASSUME LaunchInv, NEW d \in Drafts, PrepareFailed(d)
    PROVE  LaunchInv'
<1>1. /\ launch[d] = "clean" /\ Go(d, "threw")
      /\ UNCHANGED <<phase, draft, call, session, journey, child>>
  BY DEF PrepareFailed
<1>2. session.of # d
  BY <1>1, DraftsAssumption DEF LaunchInv, LaunchesOK, Activated
<1>3. workspace \in WorkspaceRecord
  BY DEF LaunchInv, TypeOK
<1>4. Holds(d)
  BY <1>1 DEF Holds, Preparing
<1>5. phase \notin Ending => \A e \in Drafts \ {d} : ~Holds(e)
  BY <1>4 DEF LaunchInv, WorkspaceOK
<1>6. PICK next : next = [workspace.next EXCEPT ![d] = 1]
  OBVIOUS
<1>7. NoCopy \in Copies
  BY DEF NoCopy, Copies
<1>8. workspace' = [workspace EXCEPT !.exists = FALSE, !.owns = FALSE, !.copy = NoCopy,
                                     !.next = next]
  BY <1>6 DEF PrepareFailed
<1>9. workspace.next \in [Drafts -> Nat]
  BY <1>3 DEF WorkspaceRecord
<1>10. next \in [Drafts -> Nat] /\ \A e \in Drafts \ {d} : next[e] = workspace.next[e]
  BY <1>6, <1>9
<1>11. /\ workspace' \in WorkspaceRecord /\ workspace'.removing = workspace.removing
       /\ workspace'.next = next
  BY <1>3, <1>7, <1>8, <1>10 DEF WorkspaceRecord
<1>12. launch'[d] = "threw"
  BY <1>1, OthersStay DEF LaunchPlaces
<1>13. CopiedSoFar(d)'
  BY <1>1, <1>2, <1>12 DEF CopiedSoFar
<1>14. WorkspaceOK'
  BY <1>1, <1>2, <1>5, <1>10, <1>11, <1>13, DirectoryKeeps DEF Preparing
<1>. QED BY <1>1, <1>11, <1>14, PreparationKeeps DEF Preparing
-----------------------------------------------------------------------------
(* The session: launched, activated, talked to and turned.                  *)

LEMMA LaunchSessionKeeps ==
    ASSUME LaunchInv, NEW d \in Drafts, LaunchSession(d)
    PROVE  LaunchInv'
<1>1. /\ launch[d] = "session"
      /\ UNCHANGED <<phase, draft, call, workspace, journey, child>>
  BY DEF LaunchSession
<1>2. session.of # d /\ draft[d].state = "consumed"
  BY <1>1, DraftsAssumption DEF LaunchInv, LaunchesOK, Activated
<1>3. session \in SessionRecord
  BY DEF LaunchInv, TypeOK
<1>4. DraftsKept /\ CallsOK' /\ ServicesKept
  BY <1>1, DraftsSame, CallsSame, ChildrenSame
<1>5. CASE /\ Go(d, "threw") /\ session' \in SessionRecord
           /\ session'.of = session.of /\ session'.runtime = session.runtime
  <2>1. LaunchesOK' /\ launch' \in [Drafts -> LaunchPlaces]
    BY <1>1, <1>2, <1>4, <1>5, LaunchWritten DEF LaunchPlaces, Activated
  <2>2. WorkspaceOK'
    BY <1>1, <1>5, WorkspaceStays DEF LaunchPlaces, Preparing
  <2>3. session.of # NoDraft => launch'[session.of] = launch[session.of]
    BY <1>2, <1>3, <1>5, OthersStay DEF SessionRecord, LaunchPlaces
  <2>4. JourneyOK'
    BY <1>1, <1>4, <1>5, <2>3, JourneyStays
  <2>5. TypeOK'
    BY <1>1, <1>4, <1>5, <2>1 DEF LaunchInv, TypeOK, DraftsKept, ServicesKept
  <2>. QED BY <1>4, <2>1, <2>2, <2>4, <2>5 DEF LaunchInv, DraftsKept
<1>6. CASE /\ session.of = NoDraft
           /\ session' = [session EXCEPT !.of = d, !.runtime = "active", !.durable = "active"]
           /\ \E next \in {"plan", "talk", "threw"} : Go(d, next)
  <2>1. PICK next \in {"plan", "talk", "threw"} : Go(d, next)
    BY <1>6
  <2>2. session' \in SessionRecord /\ session'.of = d
    BY <1>3, <1>6 DEF SessionRecord
  <2>3. launch'[d] = next /\ \A e \in Drafts \ {d} : launch'[e] = launch[e]
    BY <2>1, OthersStay DEF LaunchPlaces, Activated
  <2>4. launch' \in [Drafts -> LaunchPlaces]
    BY <2>1 DEF LaunchInv, TypeOK, Go, LaunchPlaces, Activated
  <2>5. d # NoDraft
    BY DraftsAssumption
  <2>6. LaunchesOK'
    <3>1. ASSUME NEW e \in Drafts
          PROVE  /\ launch'[e] # "no" => draft'[e].state = "consumed"
                 /\ launch'[e] \in Activated => session'.of = e
      <4>1. CASE e = d
        BY <1>1, <1>2, <2>2, <4>1
      <4>2. CASE e # d
        BY <1>1, <1>6, <2>3, <4>2, DraftsAssumption DEF LaunchInv, LaunchesOK
      <4>. QED BY <4>1, <4>2
    <3>2. launch'[session'.of] \in Activated \cup {"threw"}
      BY <2>2, <2>3 DEF Activated
    <3>. QED BY <3>1, <3>2 DEF LaunchesOK
  <2>7. WorkspaceOK'
    <3>1. \A e \in Drafts : Holds(e)' => Holds(e)
      BY <1>1, <2>2, <2>3 DEF Holds, Preparing
    <3>2. \A e \in Drafts : CopiedSoFar(e) => CopiedSoFar(e)'
      BY <1>1, <2>2, <2>3 DEF CopiedSoFar
    <3>3. \A e \in Drafts :
            /\ launch'[e] \in {"no", "mkdir", "paths"} => launch[e] \in {"no", "mkdir", "paths"}
            /\ launch'[e] = "copy" => launch[e] = "copy"
      BY <2>3
    <3>. QED BY <1>1, <3>1, <3>2, <3>3 DEF LaunchInv, WorkspaceOK
  <2>8. journey.at = "no"
    BY <1>6 DEF LaunchInv, JourneyOK
  <2>9. JourneyOK'
    BY <1>1, <1>4, <2>8, JourneyStays
  <2>10. TypeOK'
    BY <1>1, <1>4, <2>2, <2>4 DEF LaunchInv, TypeOK, DraftsKept, ServicesKept
  <2>. QED BY <1>4, <2>6, <2>7, <2>9, <2>10 DEF LaunchInv, DraftsKept
<1>7. session' = [session EXCEPT !.durable = "active"] =>
        /\ session' \in SessionRecord
        /\ session'.of = session.of /\ session'.runtime = session.runtime
  BY <1>3 DEF SessionRecord
<1>. QED BY <1>3, <1>5, <1>6, <1>7 DEF LaunchSession

LEMMA ActivatePlanKeeps ==
    ASSUME LaunchInv, NEW d \in Drafts, ActivatePlan(d)
    PROVE  LaunchInv'
<1>1. launch[d] = "plan" /\ UNCHANGED <<phase, draft, call, workspace, journey, child>>
  BY DEF ActivatePlan
<1>2. session \in SessionRecord
  BY DEF LaunchInv, TypeOK
<1>3. AuthorityUp \in BOOLEAN
  BY DEF AuthorityUp, Live
<1>4. PICK at \in {"talk", "threw"} : Go(d, at)
  BY DEF ActivatePlan
<1>5. session' \in SessionRecord /\ session'.of = session.of
  <2>1. CASE session' = [session EXCEPT !.plan = TRUE]
    BY <1>2, <2>1 DEF SessionRecord
  <2>2. CASE \E granted \in {session.plan, AuthorityUp} :
             \E durable \in {"active"} \cup (IF AuthorityUp THEN {"ended"} ELSE {}) :
               session' = [session EXCEPT !.runtime = "interrupted", !.plan = granted,
                                          !.durable = durable]
    <3>1. PICK granted \in {session.plan, AuthorityUp}, durable \in {"active", "ended"} :
            session' = [session EXCEPT !.runtime = "interrupted", !.plan = granted,
                                       !.durable = durable]
      BY <2>2
    <3>2. granted \in BOOLEAN
      BY <1>2, <1>3 DEF SessionRecord
    <3>. QED BY <1>2, <3>1, <3>2 DEF SessionRecord
  <2>. QED BY <2>1, <2>2 DEF ActivatePlan
<1>6. CallsOK' /\ ServicesKept
  BY <1>1, CallsSame, ChildrenSame
<1>. QED BY <1>1, <1>4, <1>5, <1>6, ActivationKeeps DEF Activated

LEMMA TalkKeeps ==
    ASSUME LaunchInv, NEW d \in Drafts, Talk(d)
    PROVE  LaunchInv'
<1>1. launch[d] = "talk" /\ UNCHANGED <<phase, draft, workspace, session, journey>>
  BY DEF Talk
<1>2. PICK at \in {"talking", "turns"} : Go(d, at)
  BY DEF Talk
<1>3. TypeOK /\ session \in SessionRecord
  BY DEF LaunchInv, TypeOK
<1>4. <<"interaction", d>> \in Helpers
  BY DEF Helpers
<1>5. CallsOK' /\ ServicesKept
  BY <1>3, <1>4, AskKeeps, CallsSame, ChildrenSame DEF Talk
<1>. QED BY <1>1, <1>2, <1>3, <1>5, ActivationKeeps DEF Activated

LEMMA TalkedKeeps ==
    ASSUME LaunchInv, NEW d \in Drafts, Talked(d)
    PROVE  LaunchInv'
<1>1. /\ launch[d] = "talking" /\ CallOver(<<"interaction", d>>)
      /\ UNCHANGED <<phase, draft, workspace, session, journey>>
  BY DEF Talked
<1>2. PICK at \in {"threw", "turns"} : Go(d, at)
  BY DEF Talked
<1>3. TypeOK /\ session \in SessionRecord
  BY DEF LaunchInv, TypeOK
<1>4. <<"interaction", d>> \in Helpers
  BY DEF Helpers
<1>5. CallsOK' /\ ServicesKept
  BY <1>1, <1>3, <1>4, CallOverKeeps
<1>. QED BY <1>1, <1>2, <1>3, <1>5, ActivationKeeps DEF Activated

LEMMA EndTurnsIs ==
    ASSUME LaunchInv, NEW d \in Drafts, EndTurns(d)
    PROVE  Go(d, "returned") /\ session' \in SessionRecord /\ session'.of = session.of
<1>1. session \in SessionRecord
  BY DEF LaunchInv, TypeOK
<1>2. PICK runtime \in {"revoked", "interrupted", session.runtime} :
        session' = [session EXCEPT !.runtime = runtime]
  BY DEF EndTurns
<1>3. runtime \in {"none", "active", "interrupted", "revoked"}
  BY <1>1, <1>2 DEF SessionRecord
<1>. QED BY <1>1, <1>2, <1>3 DEF EndTurns, SessionRecord

LEMMA StartTurnKeeps ==
    ASSUME LaunchInv, NEW d \in Drafts, StartTurn(d)
    PROVE  LaunchInv'
<1>1. launch[d] = "turns" /\ UNCHANGED <<phase, draft, workspace, journey>>
  BY DEF StartTurn
<1>2. TypeOK /\ session \in SessionRecord
  BY DEF LaunchInv, TypeOK
<1>3. <<"worker", d>> \in Helpers
  BY DEF Helpers
<1>4. CASE Ask(<<"worker", d>>) /\ Go(d, "turn") /\ UNCHANGED session
  <2>1. CallsOK' /\ ServicesKept
    BY <1>2, <1>3, <1>4, AskKeeps
  <2>. QED BY <1>1, <1>2, <1>4, <2>1, ActivationKeeps DEF Activated
<1>5. CASE EndTurns(d) /\ UNCHANGED <<call, child>>
  <2>1. CallsOK' /\ ServicesKept
    BY <1>5, CallsSame, ChildrenSame
  <2>. QED BY <1>1, <1>5, <2>1, EndTurnsIs, ActivationKeeps DEF Activated
<1>. QED BY <1>4, <1>5 DEF StartTurn

LEMMA TurnedKeeps ==
    ASSUME LaunchInv, NEW d \in Drafts, Turned(d)
    PROVE  LaunchInv'
<1>1. PICK x : x = <<"worker", d>>
  OBVIOUS
<1>2. launch[d] = "turn" /\ CallOver(x) /\ UNCHANGED <<phase, draft, workspace, journey>>
  BY <1>1 DEF Turned
<1>3. TypeOK /\ session \in SessionRecord
  BY DEF LaunchInv, TypeOK
<1>4. x \in Helpers /\ x[1] = "worker"
  BY <1>1 DEF Helpers
<1>5. CallsOK' /\ ServicesKept
  BY <1>2, <1>3, <1>4, CallOverKeeps
<1>6. AnswersOf(x) = {"more", "last"}
  BY <1>4 DEF AnswersOf, TurnAnswers
<1>7. call[x].answer \in {"more", "last", "threw"}
  BY <1>3, <1>4, <1>6 DEF TypeOK, CallsOK
<1>8. PICK answer : answer = call[x].answer
  OBVIOUS
<1>9. CASE answer = "more" \/ answer = "last"
  <2>1. PICK at \in {"turns", "returned"} : Go(d, at) /\ UNCHANGED session
    BY <1>1, <1>8, <1>9 DEF Turned
  <2>. QED BY <1>2, <1>3, <1>5, <2>1, ActivationKeeps DEF Activated
<1>10. CASE answer = "threw"
  <2>1. EndTurns(d)
    BY <1>1, <1>8, <1>10 DEF Turned
  <2>. QED BY <1>2, <1>5, <2>1, EndTurnsIs, ActivationKeeps DEF Activated
<1>. QED BY <1>7, <1>8, <1>9, <1>10

-----------------------------------------------------------------------------
(* Formation.                                                               *)

LEMMA CallerDraftsKeep ==
    ASSUME LaunchInv, NEW d \in Drafts,
           CreateDraft(d) \/ DraftExpires(d) \/ ReviewDraft(d) \/ Revise(d) \/ AssessDraft(d)
    PROVE  LaunchInv'
<1>1. TypeOK /\ DraftOK(draft[d])
  BY DEF LaunchInv
<1>2. <<"reviewer", d>> \in Helpers /\ <<"assessor", d>> \in Helpers
  BY DEF Helpers
<1>3. CASE CreateDraft(d)
  <2>1. DraftsKept
    <3>1. PICK complete \in BOOLEAN, within \in BOOLEAN :
            \/ Put(d, CompileCandidate(NewDraft("structured", TRUE, TRUE)))
            \/ Put(d, NewDraft("qwen_assisted", complete, within))
      BY <1>3 DEF CreateDraft
    <3>2. draft[d].state = "none"
      BY <1>3 DEF CreateDraft
    <3>. QED BY <3>1, <3>2, NewDraftFollows, DraftWritten
  <2>. QED BY <1>3, <2>1, CallsSame, ChildrenSame, FormationKeeps DEF CreateDraft
<1>4. CASE DraftExpires(d)
  <2>1. DraftsKept
    BY <1>1, <1>4, ExpiryFollows, DraftWritten DEF DraftExpires
  <2>. QED BY <1>4, <2>1, CallsSame, ChildrenSame, FormationKeeps DEF DraftExpires
<1>5. CASE ReviewDraft(d)
  <2>1. DraftsKept
    BY <1>1, <1>5, ReviewFollows, DraftWritten DEF ReviewDraft
  <2>2. CallsOK' /\ ServicesKept
    BY <1>1, <1>2, <1>5, AskKeeps DEF ReviewDraft
  <2>. QED BY <1>5, <2>1, <2>2, FormationKeeps DEF ReviewDraft
<1>6. CASE Revise(d)
  <2>1. DraftsKept
    BY <1>1, <1>6, RevisionFollows, DraftWritten DEF Revise
  <2>. QED BY <1>6, <2>1, CallsSame, ChildrenSame, FormationKeeps DEF Revise
<1>7. CASE AssessDraft(d)
  <2>1. DraftsKept
    BY <1>1, <1>7, AssessmentFollows, DraftWritten DEF AssessDraft
  <2>2. CallsOK' /\ ServicesKept
    BY <1>1, <1>2, <1>7, AskKeeps DEF AssessDraft
  <2>. QED BY <1>7, <2>1, <2>2, FormationKeeps DEF AssessDraft
<1>. QED BY <1>3, <1>4, <1>5, <1>6, <1>7

LEMMA DraftReviewedKeeps ==
    ASSUME LaunchInv, NEW d \in Drafts, DraftReviewed(d)
    PROVE  LaunchInv'
<1>1. TypeOK /\ DraftOK(draft[d]) /\ <<"reviewer", d>> \in Helpers
  BY DEF LaunchInv, Helpers
<1>2. CallsOK' /\ ServicesKept
  BY <1>1, CallOverKeeps DEF DraftReviewed
<1>3. DraftsKept
  BY <1>1, ReviewFollows, DraftWritten, DraftsSame DEF DraftReviewed
<1>. QED BY <1>2, <1>3, FormationKeeps DEF DraftReviewed

LEMMA DraftAssessedKeeps ==
    ASSUME LaunchInv, NEW d \in Drafts, DraftAssessed(d)
    PROVE  LaunchInv'
<1>1. PICK x : x = <<"assessor", d>>
  OBVIOUS
<1>2. TypeOK /\ DraftOK(draft[d]) /\ x \in Helpers /\ x[1] = "assessor"
  BY <1>1 DEF LaunchInv, Helpers
<1>3. CallsOK' /\ ServicesKept
  BY <1>1, <1>2, CallOverKeeps DEF DraftAssessed
<1>4. AnswersOf(x) = RiskAnswers
  BY <1>2 DEF AnswersOf
<1>5. PICK floor : floor = call[x].answer
  OBVIOUS
<1>6. floor \in RiskAnswers \cup {"threw"}
  BY <1>2, <1>4, <1>5 DEF TypeOK, CallsOK
<1>7. PICK t : t = IF floor # "threw" /\ TakesSetupRisk(draft[d])
                   THEN CompileAssessed(CompleteSetupRisk(draft[d], floor))
                   ELSE draft[d]
  OBVIOUS
<1>8. Put(d, t)
  BY <1>1, <1>5, <1>7 DEF DraftAssessed
<1>9. Follows(draft[d], t)
  BY <1>2, <1>6, <1>7, CompilationFollows DEF Follows
<1>10. DraftsKept
  BY <1>8, <1>9, DraftWritten
<1>. QED BY <1>3, <1>10, FormationKeeps DEF DraftAssessed
-----------------------------------------------------------------------------
(* The controlled journey.                                                  *)

LEMMA JourneyWritten ==
    ASSUME LaunchInv, journey' \in JourneyRecord, child' \in [Children -> ChildRecord],
           JourneyOK', UNCHANGED <<phase, draft, call, launch, workspace, session>>
    PROVE  LaunchInv'
<1>1. DraftsKept /\ CallsOK'
  BY DraftsSame, CallsSame
<1>2. TypeOK'
  BY <1>1 DEF LaunchInv, TypeOK, DraftsKept
<1>3. LaunchesOK' /\ WorkspaceOK'
  BY DEF LaunchInv, LaunchesOK, WorkspaceOK, Holds, CopiedSoFar
<1>. QED BY <1>1, <1>2, <1>3 DEF LaunchInv, DraftsKept

\* As long as nothing is attached, the services may be anything.
LEMMA BeforeAttachment ==
    ASSUME LaunchInv, UNCHANGED <<phase, launch, session>>,
           NEW state \in {"idle", "starting", "started"}, NEW at \in Unattached,
           at = "no" <=> state = "idle",
           journey' = [journey EXCEPT !.at = at, !.state = state],
           journey.at \notin Running,
           at # "no" => session.of # NoDraft /\ LaunchOver(session.of),
           at \notin {"no", "authorize"} => session.runtime = "active"
    PROVE  journey' \in JourneyRecord /\ JourneyOK'
<1>1. journey \in JourneyRecord /\ JourneyOK
  BY DEF LaunchInv, TypeOK
<1>2. /\ journey' \in JourneyRecord /\ journey'.at = at /\ journey'.state = state
      /\ journey'.script = journey.script /\ journey'.attached = journey.attached
      /\ journey'.waits = journey.waits /\ journey'.effect = journey.effect
  BY <1>1 DEF JourneyRecord
<1>3. journey.script = "none" /\ journey.attached = "none" /\ ~journey.waits
  BY <1>1 DEF JourneyOK
<1>4. at \notin Running
  BY DEF Unattached, Running
<1>5. session'.of = session.of /\ (LaunchOver(session.of) => LaunchOver(session.of)')
  BY DEF LaunchOver
<1>. QED BY <1>2, <1>3, <1>4, <1>5 DEF JourneyOK, Running

LEMMA CloseServicesIs ==
    ASSUME LaunchInv, child' = CloseServices
    PROVE  /\ child' \in [Children -> ChildRecord]
           /\ \A c \in JourneyServices : Gone(child'[c]) <=> Gone(child[c])
<1>1. child \in [Children -> ChildRecord]
  BY DEF LaunchInv, TypeOK
<1>2. \A c \in Children : child'[c] = IF c \in JourneyServices THEN CloseChild(child[c])
                                                               ELSE child[c]
  BY DEF CloseServices
<1>3. child' \in [Children -> ChildRecord]
  BY <1>1, <1>2, CloseChildIs DEF CloseServices
<1>. QED BY <1>1, <1>2, <1>3, CloseChildIs, ServicesAreChildren

LEMMA RunJourneyKeeps == LaunchInv /\ RunJourney => LaunchInv'
<1>. SUFFICES ASSUME LaunchInv, RunJourney PROVE LaunchInv'
  OBVIOUS
<1>1. /\ journey.at = "no" /\ journey.at \notin Running
      /\ journey' = [journey EXCEPT !.at = "authorize", !.state = "starting"]
      /\ session.of # NoDraft /\ LaunchOver(session.of)
      /\ UNCHANGED <<phase, draft, call, launch, workspace, session, child>>
  BY DEF RunJourney, LaunchInv, JourneyOK, Running
<1>2. journey' \in JourneyRecord /\ JourneyOK'
  BY <1>1, BeforeAttachment DEF Unattached
<1>. QED BY <1>1, <1>2, JourneyWritten DEF LaunchInv, TypeOK

\* Back to where an attempt may be made again.
LEMMA JourneyThrowsKeeps ==
    ASSUME LaunchInv, JourneyThrows, journey.at \notin Running,
           child' \in [Children -> ChildRecord],
           UNCHANGED <<phase, draft, call, launch, workspace, session>>
    PROVE  LaunchInv'
<1>1. journey' = [journey EXCEPT !.at = "no", !.state = "idle"]
  BY DEF JourneyThrows
<1>2. journey' \in JourneyRecord /\ JourneyOK'
  BY <1>1, BeforeAttachment DEF Unattached
<1>. QED BY <1>2, JourneyWritten

LEMMA AuthorizeJourneyKeeps == LaunchInv /\ AuthorizeJourney => LaunchInv'
<1>. SUFFICES ASSUME LaunchInv, AuthorizeJourney PROVE LaunchInv'
  OBVIOUS
<1>1. /\ journey.at = "authorize" /\ journey.at \notin Running
      /\ UNCHANGED <<phase, draft, call, launch, workspace, session>>
  BY DEF AuthorizeJourney, Running
<1>2. child \in [Children -> ChildRecord] /\ journey \in JourneyRecord
  BY DEF LaunchInv, TypeOK
<1>3. CASE JourneyThrows /\ UNCHANGED child
  BY <1>1, <1>2, <1>3, JourneyThrowsKeeps
<1>4. CASE /\ ServicesAllowed /\ Step("guardian")
           /\ \E c \in Spawned : child' = [child EXCEPT ![Guardian] = c]
  <2>1. child' \in [Children -> ChildRecord]
    BY <1>2, <1>4, SpawnedAre, ServicesAreChildren
  <2>2. journey.state \in {"starting", "started"}
    BY <1>1, <1>2 DEF LaunchInv, JourneyOK, JourneyRecord
  <2>3. journey' = [journey EXCEPT !.at = "guardian", !.state = journey.state]
    BY <1>2, <1>4 DEF Step, JourneyRecord
  <2>4. session.of # NoDraft /\ LaunchOver(session.of) /\ session.runtime = "active"
    BY <1>1, <1>4 DEF LaunchInv, JourneyOK, ServicesAllowed
  <2>5. journey' \in JourneyRecord /\ JourneyOK'
    BY <1>1, <2>2, <2>3, <2>4, BeforeAttachment DEF Unattached
  <2>. QED BY <1>1, <2>1, <2>5, JourneyWritten
<1>. QED BY <1>3, <1>4 DEF AuthorizeJourney

LEMMA ServiceStartedKeeps == LaunchInv /\ ServiceStarted => LaunchInv'
<1>. SUFFICES ASSUME LaunchInv, ServiceStarted PROVE LaunchInv'
  OBVIOUS
<1>1. /\ journey.at \in {"guardian", "broker", "research"} /\ journey.at \notin Running
      /\ UNCHANGED <<phase, draft, call, launch, workspace, session>>
  BY DEF ServiceStarted, Running
<1>2. child \in [Children -> ChildRecord] /\ journey \in JourneyRecord
  BY DEF LaunchInv, TypeOK
<1>3. /\ journey.state \in {"starting", "started"}
      /\ session.of # NoDraft /\ LaunchOver(session.of) /\ session.runtime = "active"
      /\ journey.script = "none" /\ journey.attached = "none" /\ ~journey.waits
  BY <1>1, <1>2 DEF LaunchInv, JourneyOK, JourneyRecord
<1>4. ASSUME NEW at \in {"undo", "broker", "research"}, Step(at),
             child' \in [Children -> ChildRecord]
      PROVE  LaunchInv'
  <2>1. journey' = [journey EXCEPT !.at = at, !.state = journey.state]
    BY <1>2, <1>4 DEF Step, JourneyRecord
  <2>2. journey' \in JourneyRecord /\ JourneyOK'
    BY <1>1, <1>3, <2>1, BeforeAttachment DEF Unattached
  <2>. QED BY <1>1, <1>4, <2>2, JourneyWritten
<1>5. CASE Step("undo") /\ child' = CloseServices
  BY <1>4, <1>5, CloseServicesIs
<1>6. CASE /\ Step(IF journey.at = "guardian" THEN "broker" ELSE "research")
           /\ \E c \in Spawned : child' = [child EXCEPT ![Following(journey.at)] = c]
  <2>1. Following(journey.at) \in Children
    BY ServicesAreChildren DEF Following
  <2>2. child' \in [Children -> ChildRecord]
    BY <1>2, <1>6, <2>1, SpawnedAre
  <2>3. PICK at \in {"broker", "research"} : Step(at)
    BY <1>6
  <2>. QED BY <1>4, <2>2, <2>3
<1>7. CASE /\ journey.at = "research" /\ UNCHANGED child
           /\ LET up == \A c \in JourneyServices : ~Gone(child[c])
              IN journey' = [journey EXCEPT !.state = "started",
                   !.at = "run", !.attached = IF up THEN "running" ELSE "interrupted",
                   !.script = IF up THEN "search" ELSE "none"]
  <2>1. PICK attached \in {"running", "interrupted"}, script \in {"search", "none"} :
          /\ journey' = [journey EXCEPT !.state = "started", !.at = "run",
                                        !.attached = attached, !.script = script]
          /\ attached = "running" => \A c \in JourneyServices : ~Gone(child[c])
    BY <1>7
  <2>2. /\ journey' \in JourneyRecord
        /\ journey'.at = "run" /\ journey'.state = "started" /\ journey'.attached = attached
        /\ journey'.script = script /\ journey'.waits = journey.waits
    BY <1>2, <2>1 DEF JourneyRecord, Running, Attachments, Scripts
  <2>3. attached = "running" => (\A c \in JourneyServices : ~Gone(child[c]))'
    BY <1>7, <2>1
  <2>4. session'.of # NoDraft /\ LaunchOver(session.of)' /\ session'.runtime = "active"
    BY <1>1, <1>3 DEF LaunchOver
  <2>5. JourneyOK'
    BY <1>1, <1>3, <2>1, <2>2, <2>3, <2>4 DEF JourneyOK, Running
  <2>. QED BY <1>1, <1>2, <1>7, <2>2, <2>5, JourneyWritten
<1>. QED BY <1>5, <1>6, <1>7 DEF ServiceStarted

LEMMA JourneyUndoneKeeps == LaunchInv /\ JourneyUndone => LaunchInv'
BY JourneyThrowsKeeps DEF JourneyUndone, Running, LaunchInv, TypeOK

\* A step of an attached journey that stays where it is.
LEMMA AttachedKeeps ==
    ASSUME LaunchInv, journey.at \in Running, journey' \in JourneyRecord,
           journey'.at = journey.at, journey'.state = journey.state,
           journey'.attached = journey.attached, journey'.waits = journey.waits,
           journey'.script = "done" => journey'.effect = "merged",
           UNCHANGED <<phase, draft, call, launch, workspace, session, child>>
    PROVE  LaunchInv'
<1>1. JourneyOK
  BY DEF LaunchInv
<1>2. ServicesGone' <=> ServicesGone
  BY DEF ServicesGone
<1>3. session'.of # NoDraft /\ LaunchOver(session.of)'
  BY <1>1 DEF JourneyOK, LaunchOver, Running
<1>4. JourneyOK'
  BY <1>1, <1>2, <1>3 DEF JourneyOK
<1>. QED BY <1>4, JourneyWritten DEF LaunchInv, TypeOK

LEMMA ScriptKeeps == LaunchInv /\ Script => LaunchInv'
<1>. SUFFICES ASSUME LaunchInv, Script PROVE LaunchInv'
  OBVIOUS
<1>1. journey \in JourneyRecord /\ journey.at \in Running
  BY DEF Script, LaunchInv, TypeOK, JourneyOK
<1>2. PICK script \in {"unsafe", "legitimate", "done", "stopped"} :
        /\ journey' = [journey EXCEPT !.script = script]
        /\ script = "done" => journey.effect = "merged"
  BY DEF Script
<1>3. /\ journey' \in JourneyRecord
      /\ journey'.at = journey.at /\ journey'.state = journey.state
      /\ journey'.attached = journey.attached /\ journey'.waits = journey.waits
      /\ journey'.script = "done" => journey'.effect = "merged"
  BY <1>1, <1>2 DEF JourneyRecord, Scripts
<1>. QED BY <1>1, <1>3, AttachedKeeps DEF Script

LEMMA BrokerMergesKeeps == LaunchInv /\ BrokerMerges => LaunchInv'
<1>. SUFFICES ASSUME LaunchInv, BrokerMerges PROVE LaunchInv'
  OBVIOUS
<1>1. journey \in JourneyRecord /\ journey.at \in Running /\ journey.script = "legitimate"
  BY DEF BrokerMerges, LaunchInv, TypeOK, JourneyOK
<1>2. PICK effect \in {"claimed", "merged"} : journey' = [journey EXCEPT !.effect = effect]
  BY DEF BrokerMerges
<1>3. /\ journey' \in JourneyRecord
      /\ journey'.at = journey.at /\ journey'.state = journey.state
      /\ journey'.attached = journey.attached /\ journey'.waits = journey.waits
      /\ journey'.script # "done"
  BY <1>1, <1>2 DEF JourneyRecord
<1>. QED BY <1>1, <1>3, AttachedKeeps DEF BrokerMerges

LEMMA JourneyEndsKeeps == LaunchInv /\ JourneyEnds => LaunchInv'
<1>. SUFFICES ASSUME LaunchInv, JourneyEnds PROVE LaunchInv'
  OBVIOUS
<1>1. /\ journey \in JourneyRecord /\ JourneyOK /\ journey.at = "run"
      /\ child' = CloseServices
      /\ UNCHANGED <<phase, draft, call, launch, workspace, session>>
  BY DEF JourneyEnds, LaunchInv, TypeOK
<1>2. PICK told \in {"completed", "stopped"}, at \in {"leave", "over"} :
        /\ journey' = [journey EXCEPT !.told = told, !.attached = "closed", !.at = at]
        /\ at = "over" => journey.attached = "closed"
  BY DEF JourneyEnds, JourneyResult, FirstClose
<1>3. /\ journey' \in JourneyRecord
      /\ journey'.at = at /\ journey'.state = journey.state /\ journey'.attached = "closed"
      /\ journey'.waits = journey.waits /\ journey'.script = journey.script
      /\ journey'.effect = journey.effect
  BY <1>1, <1>2 DEF JourneyRecord, Running, Attachments
<1>4. child' \in [Children -> ChildRecord] /\ (ServicesGone' <=> ServicesGone)
  BY <1>1, CloseServicesIs DEF ServicesGone
<1>5. session'.of # NoDraft /\ LaunchOver(session.of)'
  BY <1>1 DEF JourneyOK, LaunchOver
<1>6. JourneyOK'
  BY <1>1, <1>2, <1>3, <1>4, <1>5 DEF JourneyOK, Running
<1>. QED BY <1>1, <1>3, <1>4, <1>6, JourneyWritten

LEMMA JourneyReturnsKeeps == LaunchInv /\ JourneyReturns => LaunchInv'
<1>. SUFFICES ASSUME LaunchInv, JourneyReturns PROVE LaunchInv'
  OBVIOUS
<1>1. /\ journey \in JourneyRecord /\ JourneyOK /\ journey.at = "leave" /\ ServicesGone
      /\ journey' = [journey EXCEPT !.at = "over"]
      /\ UNCHANGED <<phase, draft, call, launch, workspace, session, child>>
  BY DEF JourneyReturns, Step, LaunchInv, TypeOK
<1>2. /\ journey' \in JourneyRecord
      /\ journey'.at = "over" /\ journey'.state = journey.state
      /\ journey'.attached = journey.attached
      /\ journey'.waits = journey.waits /\ journey'.script = journey.script
      /\ journey'.effect = journey.effect
  BY <1>1 DEF JourneyRecord, Running
<1>3. ServicesGone'
  BY <1>1 DEF ServicesGone
<1>4. session'.of # NoDraft /\ LaunchOver(session.of)'
  BY <1>1 DEF JourneyOK, LaunchOver
<1>5. JourneyOK'
  BY <1>1, <1>2, <1>3, <1>4 DEF JourneyOK, Running
<1>. QED BY <1>1, <1>2, <1>5, JourneyWritten DEF LaunchInv, TypeOK
-----------------------------------------------------------------------------
(* The processes' own moves, the supervisor's start and its close.          *)

\* The exit of a service is heard as long as the attachment runs.
LEMMA ChildKeeps ==
    ASSUME LaunchInv, NEW c \in Children, ChildTimer(c) \/ ChildMoves(c)
    PROVE  LaunchInv'
<1>1. /\ child \in [Children -> ChildRecord] /\ child[c] \in ChildRecord
      /\ journey \in JourneyRecord /\ JourneyOK
  BY DEF LaunchInv, TypeOK
<1>2. PICK after \in TimedMoves(child[c]) \cup OwnMoves(child[c]) :
        /\ child' = [child EXCEPT ![c] = after]
        /\ journey' = Heard(c, after)
        /\ UNCHANGED <<phase, draft, call, launch, workspace, session>>
  BY DEF ChildTimer, ChildMoves, Move
<1>3. after \in ChildRecord /\ (Gone(child[c]) => Gone(after))
  BY <1>1, <1>2, MovesAre
<1>4. /\ child' \in [Children -> ChildRecord] /\ child'[c] = after
      /\ \A b \in Children \ {c} : child'[b] = child[b]
  BY <1>1, <1>2, <1>3
<1>5. ServicesGone => ServicesGone'
  BY <1>3, <1>4, ServicesAreChildren DEF ServicesGone, Gone
<1>6. session'.of # NoDraft /\ LaunchOver(session.of)' <=>
        session.of # NoDraft /\ LaunchOver(session.of)
  BY <1>2 DEF LaunchOver
<1>7. CASE c \in JourneyServices /\ Gone(after) /\ journey.attached = "running"
  <2>1. journey' = [journey EXCEPT !.attached = "interrupted"]
    BY <1>2, <1>7 DEF Heard
  <2>2. /\ journey' \in JourneyRecord
        /\ journey'.at = journey.at /\ journey'.state = journey.state
        /\ journey'.attached = "interrupted"
        /\ journey'.waits = journey.waits /\ journey'.script = journey.script
        /\ journey'.effect = journey.effect
    BY <1>1, <2>1 DEF JourneyRecord, Attachments
  <2>3. JourneyOK'
    BY <1>1, <1>2, <1>5, <1>6, <1>7, <2>2 DEF JourneyOK, Running
  <2>. QED BY <1>2, <1>4, <2>2, <2>3, JourneyWritten
<1>8. CASE ~(c \in JourneyServices /\ Gone(after) /\ journey.attached = "running")
  <2>1. journey' = journey
    BY <1>2, <1>8 DEF Heard
  <2>2. journey.attached = "running" => (\A b \in JourneyServices : ~Gone(child[b]))'
    <3>. SUFFICES ASSUME journey.attached = "running", NEW b \in JourneyServices
                  PROVE  ~Gone(child'[b])
      BY DEF Gone
    <3>1. ~Gone(child[b])
      BY <1>1 DEF JourneyOK
    <3>2. CASE b = c
      BY <1>4, <1>8, <3>2
    <3>3. CASE b # c
      BY <1>4, <3>1, <3>3, ServicesAreChildren
    <3>. QED BY <3>2, <3>3
  <2>3. JourneyOK'
    BY <1>1, <1>2, <1>5, <1>6, <2>1, <2>2 DEF JourneyOK
  <2>. QED BY <1>1, <1>2, <1>4, <2>1, <2>3, JourneyWritten
<1>. QED BY <1>7, <1>8

\* Nothing rests on the phase before the supervisor's close.
LEMMA PhaseKeeps ==
    ASSUME LaunchInv, phase \notin Ending, phase' \in {"starting", "open", "closed"},
           workspace' \in WorkspaceRecord, workspace'.exists = workspace.exists,
           workspace'.removing = workspace.removing, workspace'.copy = workspace.copy,
           workspace'.next = workspace.next, ServicesKept,
           UNCHANGED <<draft, call, launch, session, journey>>
    PROVE  LaunchInv'
<1>1. DraftsKept /\ CallsOK'
  BY DraftsSame, CallsSame
<1>2. TypeOK'
  BY <1>1 DEF LaunchInv, TypeOK, DraftsKept, ServicesKept, Ending
<1>3. LaunchesOK'
  BY DEF LaunchInv, LaunchesOK
<1>4. WorkspaceOK'
  BY DEF LaunchInv, WorkspaceOK, Holds, CopiedSoFar
<1>5. ServicesGone' <=> ServicesGone
  BY DEF ServicesKept, ServicesGone, Gone
<1>6. (\A c \in JourneyServices : ~Gone(child[c]))' <=> \A c \in JourneyServices : ~Gone(child[c])
  BY DEF ServicesKept, Gone
<1>7. JourneyOK /\ ~journey.waits
  BY DEF LaunchInv, JourneyOK
<1>8. session'.of # NoDraft /\ LaunchOver(session.of)' <=>
        session.of # NoDraft /\ LaunchOver(session.of)
  BY DEF LaunchOver
<1>9. JourneyOK'
  BY <1>5, <1>6, <1>7, <1>8 DEF JourneyOK
<1>. QED BY <1>1, <1>2, <1>3, <1>4, <1>9 DEF LaunchInv, DraftsKept

LEMMA StartKeeps == LaunchInv /\ (PlanWorkspace \/ Open \/ StartFails) => LaunchInv'
<1>. SUFFICES ASSUME LaunchInv, PlanWorkspace \/ Open \/ StartFails PROVE LaunchInv'
  OBVIOUS
<1>1. workspace \in WorkspaceRecord /\ child \in [Children -> ChildRecord]
  BY DEF LaunchInv, TypeOK
<1>2. CASE PlanWorkspace
  <2>1. ServicesKept
    <3>1. CASE UNCHANGED child
      BY <3>1, ChildrenSame
    <3>2. CASE \E authority \in Spawned : child' = [child EXCEPT ![Authority] = authority]
      BY <1>1, <3>2, SpawnedAre, ServicesAreChildren DEF ServicesKept
    <3>. QED BY <1>2, <3>1, <3>2 DEF PlanWorkspace
  <2>2. phase = "planning" /\ phase' \in {"starting", "closed"}
    BY <1>2 DEF PlanWorkspace
  <2>. QED BY <1>1, <1>2, <2>1, <2>2, PhaseKeeps DEF PlanWorkspace, Ending
<1>3. CASE Open
  BY <1>1, <1>3, ChildrenSame, PhaseKeeps DEF Open, Ending
<1>4. CASE StartFails
  <2>1. workspace' = [workspace EXCEPT !.closed = TRUE]
    BY <1>4 DEF StartFails
  <2>2. /\ workspace' \in WorkspaceRecord /\ workspace'.exists = workspace.exists
        /\ workspace'.removing = workspace.removing /\ workspace'.copy = workspace.copy
        /\ workspace'.next = workspace.next
    BY <1>1, <2>1 DEF WorkspaceRecord
  <2>. QED BY <1>4, <2>2, ChildrenSame, PhaseKeeps DEF StartFails, Ending
<1>. QED BY <1>2, <1>3, <1>4

\* Once somebody has closed the supervisor, only the copies' loops matter.
LEMMA EndingKeeps ==
    ASSUME LaunchInv, phase' \in Ending, workspace' \in WorkspaceRecord,
           workspace'.next = workspace.next, CallsOK', child' \in [Children -> ChildRecord],
           journey' \in JourneyRecord, JourneyOK', UNCHANGED <<draft, launch, session>>
    PROVE  LaunchInv'
<1>1. DraftsKept
  BY DraftsSame
<1>2. TypeOK'
  BY <1>1 DEF LaunchInv, TypeOK, DraftsKept
<1>3. LaunchesOK' /\ WorkspaceOK'
  BY DEF LaunchInv, LaunchesOK, WorkspaceOK
<1>. QED BY <1>1, <1>2, <1>3 DEF LaunchInv, DraftsKept

LEMMA CloseKeeps == LaunchInv /\ Close => LaunchInv'
<1>. SUFFICES ASSUME LaunchInv, Close PROVE LaunchInv'
  OBVIOUS
<1>1. /\ workspace \in WorkspaceRecord /\ journey \in JourneyRecord /\ JourneyOK
      /\ child \in [Children -> ChildRecord]
  BY DEF LaunchInv, TypeOK
<1>2. phase = "open" /\ phase' = "closing" /\ UNCHANGED <<draft, call, launch, session>>
  BY DEF Close
<1>3. workspace' = [workspace EXCEPT !.closed = TRUE, !.removing = workspace.owns,
                      !.prepared = workspace.prepared /\ workspace.owns]
  BY DEF Close
<1>4. workspace' \in WorkspaceRecord /\ workspace'.next = workspace.next
  <2>1. workspace.owns \in BOOLEAN /\ (workspace.prepared /\ workspace.owns) \in BOOLEAN
    BY <1>1 DEF WorkspaceRecord
  <2>. QED BY <1>1, <1>3, <2>1 DEF WorkspaceRecord
<1>5. \A c \in Children : child'[c] = CloseChild(child[c]) \/ child'[c] = child[c]
  BY DEF Close
<1>6. child' \in [Children -> ChildRecord]
  <2>1. \A c \in Children : child'[c] \in ChildRecord
    BY <1>1, <1>5, CloseChildIs
  <2>2. child' = [c \in Children |-> child'[c]]
    BY DEF Close
  <2>. QED BY <2>1, <2>2
<1>7. \A c \in JourneyServices : Gone(child'[c]) <=> Gone(child[c])
  BY <1>1, <1>5, CloseChildIs, ServicesAreChildren
<1>8. ServicesGone' <=> ServicesGone
  BY <1>7 DEF ServicesGone, Gone
<1>9. session'.of # NoDraft /\ LaunchOver(session.of)' <=>
        session.of # NoDraft /\ LaunchOver(session.of)
  BY <1>2 DEF LaunchOver
<1>10. CASE Attached
  <2>1. journey' = [journey EXCEPT !.attached = "closed", !.waits = FirstClose(journey)]
    BY <1>10 DEF Close
  <2>2. FirstClose(journey) = TRUE
    BY <1>10 DEF Attached, FirstClose
  <2>3. /\ journey' \in JourneyRecord
        /\ journey'.at = journey.at /\ journey'.state = journey.state
        /\ journey'.attached = "closed" /\ journey'.waits
        /\ journey'.script = journey.script /\ journey'.effect = journey.effect
    BY <1>1, <2>1, <2>2 DEF JourneyRecord, Attachments
  <2>4. journey.at \in Running
    BY <1>1, <1>10 DEF JourneyOK, Attached
  <2>5. JourneyOK'
    BY <1>1, <1>2, <1>9, <2>3, <2>4 DEF JourneyOK, Ending
  <2>. QED BY <1>2, <1>4, <1>6, <2>3, <2>5, CallsSame, EndingKeeps DEF Ending
<1>11. CASE ~Attached
  <2>1. journey' = journey
    BY <1>11 DEF Close
  <2>2. journey.attached # "running" /\ ~journey.waits
    BY <1>1, <1>2, <1>11 DEF Attached, JourneyOK, Ending
  <2>3. JourneyOK'
    BY <1>1, <1>2, <1>8, <1>9, <2>1, <2>2 DEF JourneyOK, Ending
  <2>. QED BY <1>1, <1>2, <1>4, <1>6, <2>1, <2>3, CallsSame, EndingKeeps DEF Ending
<1>. QED BY <1>10, <1>11

LEMMA ClosingKeeps == LaunchInv /\ (WorkspaceRemoved \/ Closed) => LaunchInv'
<1>. SUFFICES ASSUME LaunchInv, WorkspaceRemoved \/ Closed PROVE LaunchInv'
  OBVIOUS
<1>1. /\ workspace \in WorkspaceRecord /\ journey \in JourneyRecord /\ JourneyOK
      /\ child \in [Children -> ChildRecord]
  BY DEF LaunchInv, TypeOK
<1>2. UNCHANGED <<draft, call, launch, session, journey, child>>
  BY DEF WorkspaceRemoved, Closed
<1>3. session'.of # NoDraft /\ LaunchOver(session.of)' <=>
        session.of # NoDraft /\ LaunchOver(session.of)
  BY <1>2 DEF LaunchOver
<1>4. ServicesGone' <=> ServicesGone
  BY <1>2 DEF ServicesGone
<1>5. CASE WorkspaceRemoved
  <2>1. phase \in Ending /\ phase' = phase
    BY <1>5 DEF WorkspaceRemoved, LaunchInv, WorkspaceOK
  <2>2. workspace' = [workspace EXCEPT !.removing = FALSE, !.exists = FALSE, !.owns = FALSE,
                                       !.prepared = FALSE, !.copy = NoCopy]
    BY <1>5 DEF WorkspaceRemoved
  <2>3. NoCopy \in Copies
    BY DEF NoCopy, Copies
  <2>4. workspace' \in WorkspaceRecord /\ workspace'.next = workspace.next
    BY <1>1, <2>2, <2>3 DEF WorkspaceRecord
  <2>5. JourneyOK'
    BY <1>1, <1>2, <1>3, <1>4, <2>1 DEF JourneyOK
  <2>. QED BY <1>1, <1>2, <2>1, <2>4, <2>5, CallsSame, EndingKeeps
<1>6. CASE Closed
  <2>1. phase' = "closed" /\ (journey.waits => ServicesGone) /\ UNCHANGED workspace
    BY <1>6 DEF Closed
  <2>2. JourneyOK'
    BY <1>1, <1>2, <1>3, <1>4, <2>1 DEF JourneyOK, Ending
  <2>. QED BY <1>1, <1>2, <2>1, <2>2, CallsSame, EndingKeeps DEF Ending
<1>. QED BY <1>5, <1>6

-----------------------------------------------------------------------------
(* The invariant holds.                                                     *)

LEMMA InitLaunch == Init => LaunchInv
<1>. SUFFICES ASSUME Init PROVE LaunchInv
  OBVIOUS
<1>1. DraftOK(NoDraftRecord)
  BY DEF DraftOK, NoDraftRecord, DraftRecord, DraftStates, Routes, Floors
<1>2. draft \in [Drafts -> DraftRecord] /\ \A d \in Drafts : DraftOK(draft[d])
  BY <1>1 DEF Init, DraftOK
<1>3. CallsOK
  BY DEF Init, CallsOK, CallRecord
<1>4. launch \in [Drafts -> LaunchPlaces]
  BY DEF Init, LaunchPlaces
<1>5. NoCopy \in Copies
  BY DEF NoCopy, Copies
<1>6. [d \in Drafts |-> 1] \in [Drafts -> Nat]
  OBVIOUS
<1>7. PICK immutable \in BOOLEAN :
        workspace = [exists |-> FALSE, owns |-> FALSE, prepared |-> FALSE, closed |-> FALSE,
                     removing |-> FALSE, immutable |-> immutable, copy |-> NoCopy,
                     next |-> [d \in Drafts |-> 1]]
  BY DEF Init
<1>8. workspace \in WorkspaceRecord /\ ~workspace.removing
        /\ \A d \in Drafts : workspace.next[d] = 1
  BY <1>5, <1>6, <1>7 DEF WorkspaceRecord
<1>9. session \in SessionRecord /\ session.of = NoDraft
  BY DEF Init, SessionRecord
<1>10. /\ journey \in JourneyRecord
       /\ journey.at = "no" /\ journey.state = "idle" /\ journey.script = "none"
       /\ journey.attached = "none" /\ ~journey.waits
  BY DEF Init, JourneyRecord, Unattached, Attachments, Scripts
<1>11. child \in [Children -> ChildRecord]
  BY SpawnedAre DEF Init
<1>12. TypeOK
  BY <1>2, <1>3, <1>4, <1>8, <1>9, <1>10, <1>11 DEF Init, TypeOK
<1>13. LaunchesOK
  BY <1>9 DEF Init, LaunchesOK, Activated
<1>14. WorkspaceOK
  <2>1. \A d \in Drafts : ~Holds(d) /\ CopiedSoFar(d)
    BY <1>9, DraftsAssumption DEF Init, Holds, CopiedSoFar, Preparing
  <2>. QED BY <1>8, <2>1 DEF Init, WorkspaceOK
<1>15. JourneyOK
  BY <1>10 DEF JourneyOK, Running
<1>. QED BY <1>2, <1>12, <1>13, <1>14, <1>15 DEF LaunchInv

LEMMA NextKeeps == LaunchInv /\ [Next]_vars => LaunchInv'
<1>. SUFFICES ASSUME LaunchInv, [Next]_vars PROVE LaunchInv'
  OBVIOUS
<1>1. CASE CallerStep
  BY <1>1, CallerDraftsKeep, ConfirmKeeps, RunJourneyKeeps, CloseKeeps DEF CallerStep
<1>2. ASSUME NEW x \in Helpers, HelperStep(x) PROVE LaunchInv'
  BY <1>2, HelperStepKeeps, DraftsSame, FormationKeeps DEF LaunchInv
<1>3. ASSUME NEW d \in Drafts, LaunchStep(d) PROVE LaunchInv'
  BY <1>3, DraftReviewedKeeps, DraftAssessedKeeps, MakeRootKeeps, CheckSourceKeeps,
     CopyFileKeeps, BaselineKeeps, PrepareFailedKeeps, LaunchSessionKeeps, ActivatePlanKeeps,
     TalkKeeps, TalkedKeeps, StartTurnKeeps, TurnedKeeps
     DEF LaunchStep
<1>4. CASE JourneyStep \/ Script \/ BrokerMerges
  BY <1>4, AuthorizeJourneyKeeps, ServiceStartedKeeps, JourneyUndoneKeeps, JourneyEndsKeeps,
     JourneyReturnsKeeps, ScriptKeeps, BrokerMergesKeeps
     DEF JourneyStep
<1>5. CASE SupervisorStep
  BY <1>5, StartKeeps, ClosingKeeps DEF SupervisorStep
<1>6. ASSUME NEW c \in Children, ChildTimer(c) \/ ChildMoves(c) PROVE LaunchInv'
  BY <1>6, ChildKeeps
<1>7. CASE UNCHANGED vars
  BY <1>7, DraftsSame, CallsSame, ChildrenSame, FormationKeeps DEF vars
<1>. QED BY <1>1, <1>2, <1>3, <1>4, <1>5, <1>6, <1>7 DEF Next

\* What coordinator, workspace, session and journey agree on under one reference
\* supervisor, whatever the order of its handlers, answers, exits and its close.
THEOREM LaunchInvariant == Spec => []LaunchInv
<1>1. Spec => Init /\ [][Next]_vars
  BY DEF Spec
<1>. QED BY <1>1, InitLaunch, NextKeeps, PTL

\* confirmAndLaunch runs a session for the revision that was reviewed, assessed,
\* compiled and shown; on one copy, complete as planned; and for no two drafts.
THEOREM LaunchesAreReviewed == Spec => []LaunchedAsReviewed
<1>1. LaunchInv => LaunchedAsReviewed
  <2>. SUFFICES ASSUME LaunchInv, session.of # NoDraft PROVE LaunchedAsReviewed
    BY DEF LaunchedAsReviewed
  <2>1. PICK d \in Drafts : session.of = d
    BY DEF LaunchInv, TypeOK, SessionRecord
  <2>2. launch[d] # "no" /\ \A e \in Drafts \ {d} : launch[e] \notin Activated
    BY <2>1 DEF LaunchInv, LaunchesOK, Activated
  <2>3. draft[d].state = "consumed" /\ DraftOK(draft[d])
    BY <2>2 DEF LaunchInv, LaunchesOK
  <2>4. ASSUME phase \notin Ending
        PROVE  CopyComplete(workspace.copy) /\ \A e \in Drafts \ {d} : launch[e] # "session"
    BY <2>1, <2>4 DEF LaunchInv, WorkspaceOK, Holds, CopiedSoFar, Preparing
  <2>. QED BY <2>1, <2>2, <2>3, <2>4
          DEF LaunchedAsReviewed, DraftOK, JudgedOrFallback, Activated, Ending
<1>. QED BY <1>1, LaunchInvariant, PTL

\* activateSessionPlan's failure path interrupts the runtime before confirmAndLaunch
\* rethrows, and runCompetitionJourney refuses an interrupted runtime for good.
THEOREM FailedPlansRunNothing == Spec => []FailedPlanRunsNothing
<1>1. LaunchInv => FailedPlanRunsNothing
  BY DEF LaunchInv, JourneyOK, FailedPlanRunsNothing, Running
<1>. QED BY <1>1, LaunchInvariant, PTL

\* A result is told and a merge made by one step each.
LEMMA OtherStepsTellNothing ==
    ASSUME journey \in JourneyRecord, [Next]_vars, ~JourneyEnds, ~BrokerMerges
    PROVE  journey'.told = journey.told /\ journey'.effect = journey.effect
<1>1. CASE RunJourney \/ Close \/ JourneyUndone \/ JourneyReturns
  BY <1>1 DEF RunJourney, Close, JourneyUndone, JourneyReturns, JourneyThrows, Step, JourneyRecord
<1>2. CASE AuthorizeJourney \/ Script
  BY <1>2 DEF AuthorizeJourney, Script, JourneyThrows, Step, JourneyRecord
<1>3. CASE ServiceStarted
  BY <1>3 DEF ServiceStarted, Step, JourneyRecord
<1>4. ASSUME NEW c \in Children, ChildTimer(c) \/ ChildMoves(c)
      PROVE  journey'.told = journey.told /\ journey'.effect = journey.effect
  BY <1>4 DEF ChildTimer, ChildMoves, Move, Heard, JourneyRecord
<1>5. ASSUME NEW d \in Drafts,
             \/ CreateDraft(d) \/ DraftExpires(d) \/ ReviewDraft(d) \/ Revise(d)
             \/ AssessDraft(d) \/ Confirm(d)
      PROVE  journey' = journey
  BY <1>5 DEF CreateDraft, DraftExpires, ReviewDraft, Revise, AssessDraft, Confirm
<1>6. ASSUME NEW d \in Drafts, LaunchStep(d) PROVE journey' = journey
  BY <1>6 DEF LaunchStep, DraftReviewed, DraftAssessed, MakeRoot, CheckSource, CopyFile, Baseline,
     PrepareFailed, LaunchSession, ActivatePlan, Talk, Talked, StartTurn, Turned
<1>7. ASSUME NEW x \in Helpers, HelperStep(x) PROVE journey' = journey
  BY <1>7 DEF HelperStep, CallStarts, CallAnswers
<1>8. CASE SupervisorStep \/ UNCHANGED vars
  BY <1>8 DEF SupervisorStep, PlanWorkspace, Open, StartFails, WorkspaceRemoved, Closed, vars
<1>. QED BY <1>1, <1>2, <1>3, <1>4, <1>5, <1>6, <1>7, <1>8 DEF Next, CallerStep, JourneyStep

\* runCompetitionJourney tells "completed" only of a merged journey whose services
\* all ran, and its script merges nothing after the journey and close returned.
THEOREM JourneysAreHonest == Spec => JourneyHonest
<1>1. ASSUME LaunchInv, [Next]_vars
      PROVE  [/\ journey'.told = "completed" /\ journey.told # "completed" =>
                   /\ journey.script = "done" /\ journey.effect = "merged"
                   /\ \A c \in JourneyServices : ~Gone(child[c])
              /\ journey'.effect # journey.effect =>
                   journey.at \in {"run", "leave"} \/ phase = "closing"]_vars
  <2>1. journey \in JourneyRecord /\ JourneyOK
    BY <1>1 DEF LaunchInv, TypeOK
  <2>2. CASE JourneyEnds
    <3>1. journey'.told = JourneyResult(journey) /\ journey'.effect = journey.effect
      BY <2>1, <2>2 DEF JourneyEnds, JourneyRecord
    <3>. QED BY <2>1, <3>1 DEF JourneyResult, JourneyOK
  <2>3. CASE BrokerMerges
    <3>1. journey'.told = journey.told
      BY <2>1, <2>3 DEF BrokerMerges, JourneyRecord
    <3>2. journey.at \in Running /\ ~ServicesGone
      BY <2>1, <2>3, ServicesAreChildren
         DEF BrokerMerges, JourneyOK, ServicesGone, Gone, Live
    <3>. QED BY <2>1, <3>1, <3>2 DEF JourneyOK, Running, Ending
  <2>4. CASE ~JourneyEnds /\ ~BrokerMerges
    <3>1. journey'.told = journey.told /\ journey'.effect = journey.effect
      BY <1>1, <2>1, <2>4, OtherStepsTellNothing
    <3>. QED BY <3>1
  <2>. QED BY <2>2, <2>3, <2>4
<1>. QED BY <1>1, LaunchInvariant, PTL DEF Spec, JourneyHonest
=============================================================================
