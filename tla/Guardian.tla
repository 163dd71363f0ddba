------------------------------- MODULE Guardian -------------------------------
(***************************************************************************)
(* The contextual risk service: a model may only raise the authorization    *)
(* level the code fixed.  One question is put to the primary model, and to *)
(* the second one if the answer has no usable shape; whatever else fails,  *)
(* a refused or a repeated call included, comes back as unavailable, which *)
(* denies.  The service answers one turn; mission setup risk is asked of a *)
(* service of the same kind.                                               *)
(***************************************************************************)
EXTENDS Integers

CONSTANT Answers  \* bound: what one call of a model may come to

\* AUTHORIZATION_RANK
Rank == [allow |-> 0, confirm |-> 1, step_up |-> 2, deny |-> 3]
Levels == DOMAIN Rank

\* GuardianRecommendationSchema
Recommendations == [shape : {"recommendation"}, level : Levels, certain : BOOLEAN]

\* No answer: rejected, timed out, too long, not JSON, or its usage refused.
Failed == [shape |-> "failed"]
\* An answer that is received and charged for and has not the asked shape.
Shapeless == [shape |-> "shapeless"]

ASSUME GuardianAssumption == Answers \subseteq {Failed, Shapeless} \cup Recommendations

\* stricterAuthorization
Stricter(floor, level) == IF Rank[level] > Rank[floor] THEN level ELSE floor

\* applyGuardianRecommendation
ApplyRecommendation(floor, advice) ==
    IF advice.shape # "recommendation" THEN "deny"
    ELSE Stricter(floor, IF advice.certain THEN advice.level ELSE "step_up")

\* The answer that counts of those the primary and the second model would give.
Advice(answers) == IF answers[1].shape = "shapeless" THEN answers[2] ELSE answers[1]

Unavailable == [status |-> "unavailable", level |-> "deny"]

\* GuardianEvaluationSchema
Evaluation(floor, advice) ==
    IF advice.shape = "recommendation"
    THEN [status |-> "evaluated", certain |-> advice.certain,
          level |-> ApplyRecommendation(floor, advice)]
    ELSE Unavailable

\* The one-turn server's checks of a call, in order.
Refusal(call, turn, now) ==
    IF ~call.authorized THEN "unauthorized"
    ELSE IF now < turn.startsAt \/ call.requestedAt < turn.startsAt THEN "not_active"
    ELSE IF now >= turn.expiresAt \/ call.requestedAt >= turn.expiresAt THEN "expired"
    ELSE IF call.requestedAt > now THEN "invalid_request"
    ELSE IF turn.consumed THEN "turn_consumed"
    ELSE "none"

\* What its caller makes of the call; a lost one is refused as unavailable.
Opinion(floor, refusal, answers) ==
    IF refusal = "none" THEN Evaluation(floor, Advice(answers)) ELSE Unavailable
=============================================================================
