-------------------------- MODULE MissionFormation -------------------------
(***************************************************************************)
(* PreActivationMissionCoordinator with the drafts and previews that        *)
(* ReferenceSessionBootstrapCoordinator keeps beside it.  A draft is one    *)
(* record; every method of the coordinator is a guard, which is its checks, *)
(* and an operator, which is what it writes.  A method whose guard fails    *)
(* throws and leaves the record alone.                                      *)
(***************************************************************************)
EXTENDS Naturals

CONSTANT MaxReviewTurns

ASSUME ReviewTurnsAssumption == MaxReviewTurns \in Nat \ {0}

DraftStates == {"none", "awaiting_review", "review_in_progress", "needs_clarification",
                "ready_for_compilation", "setup_risk_in_progress", "setup_risk_complete",
                "awaiting_confirmation", "consumed"}
Routes == {"structured", "qwen_assisted", "deterministic_fallback"}
Floors == {"none", "confirm", "step_up", "deny"}

\* judged, assessed and compiled: the revision a review found ready, the one in
\* the setup risk request and the one in the candidate, 0 for none.
DraftRecord ==
  [state     : DraftStates,
   requested : Routes, effective : Routes \cup {"none"},
   revision  : Nat, turn : Nat,
   complete  : BOOLEAN,              \* no mechanically missing field
   within    : BOOLEAN,              \* permissions below the ceiling
   expired   : BOOLEAN,
   judged    : Nat, assessed : Nat, compiled : Nat,
   floor     : Floors,
   preview   : {"none", "offered", "consumed"}]

NoDraftRecord ==
  [state |-> "none", requested |-> "structured", effective |-> "none", revision |-> 0,
   turn |-> 0, complete |-> FALSE, within |-> FALSE, expired |-> FALSE, judged |-> 0,
   assessed |-> 0, compiled |-> 0, floor |-> "none", preview |-> "none"]

\* createDraft: the drafts that were created and never consumed stay pending,
\* expired and failed ones included.
PendingDraft(r) == r.state \notin {"none", "consumed"}
NewDraft(route, complete, within) ==
  [NoDraftRecord EXCEPT !.state = "awaiting_review", !.requested = route, !.revision = 1,
                        !.complete = complete, !.within = within]

\* requireActive
Active(r) == PendingDraft(r) /\ ~r.expired

CanReview(r) ==
  /\ Active(r) /\ r.requested = "qwen_assisted"
  /\ r.state = "awaiting_review" /\ r.turn < MaxReviewTurns
BeginReview(r) == [r EXCEPT !.turn = @ + 1, !.state = "review_in_progress"]

\* The answer is of the draft's revision and turn: a draft that still is under
\* review has no other open call, one that went on by the fallback refuses it.
TakesReview(r, answer) ==
  /\ Active(r) /\ r.state = "review_in_progress"
  /\ \/ answer = "ready" /\ r.complete
     \/ answer = "needs_clarification"
CompleteReview(r, answer) ==
  IF answer = "ready"
  THEN [r EXCEPT !.state = "ready_for_compilation", !.judged = r.revision]
  ELSE [r EXCEPT !.state = "needs_clarification"]

CanRevise(r) == Active(r) /\ r.state = "needs_clarification"
ReviseDraft(r, complete, within) ==
  [r EXCEPT !.revision = @ + 1, !.state = "awaiting_review",
            !.complete = complete, !.within = within]

\* The fallback takes a draft whose review has not ended, failed or not.
CanAssess(r, effective) ==
  /\ Active(r) /\ r.requested = "qwen_assisted"
  /\ r.state = IF effective = "qwen_assisted" THEN "ready_for_compilation"
                                              ELSE "review_in_progress"
  /\ r.complete /\ r.within
BeginSetupRisk(r, effective) ==
  [r EXCEPT !.state = "setup_risk_in_progress", !.effective = effective,
            !.assessed = r.revision]

TakesSetupRisk(r) == Active(r) /\ r.state = "setup_risk_in_progress"
CompleteSetupRisk(r, floor) == [r EXCEPT !.state = "setup_risk_complete", !.floor = floor]

\* compileCandidate: the risk result is the one recorded for this draft, which
\* the callers hand over as they got it.
CanCompile(r) ==
  /\ Active(r) /\ r.complete /\ r.within
  /\ r.state = IF r.requested = "structured" THEN "awaiting_review" ELSE "setup_risk_complete"
CompileCandidate(r) ==
  [r EXCEPT !.state = "awaiting_confirmation", !.compiled = r.revision, !.preview = "offered",
            !.effective = IF r.requested = "structured" THEN "structured" ELSE r.effective]

\* A mistaken continuation that compiles below an escalated floor.
CompileBelow(r) == IF r.floor # "deny" /\ CanCompile(r) THEN CompileCandidate(r) ELSE r

\* compileReviewedCandidate after the risk review: only "confirm" is compiled.
CompileAssessed(r) ==
  IF r.floor = "confirm" /\ CanCompile(r) THEN CompileCandidate(r) ELSE r

CanConfirm(r) ==
  /\ Active(r) /\ r.preview = "offered" /\ r.state = "awaiting_confirmation"
ConsumeCandidate(r) == [r EXCEPT !.state = "consumed", !.preview = "consumed"]
=============================================================================
