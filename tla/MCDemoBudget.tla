----------------------------- MODULE MCDemoBudget -----------------------------
(* Constants of the model-checking runs of DemoBudget: three journeys of two *)
(* sources, and policies an operator may move between.                       *)
EXTENDS DemoBudget

CONSTANTS j1, j2, j3, source1, source2

MCSourceOf == [j \in Journeys |-> IF j = j3 THEN source2 ELSE source1]

\* The controller's and the research service's capabilities end before the
\* last tick of the longest run.
MCCapabilityEnds ==
    [role \in Roles |-> IF role = "research_service" THEN 2
                        ELSE IF role = "journey_controller" THEN 4 ELSE 5]

\* One journey at a time, one waiter, room for two journeys a day.
Tight == [enabled |-> TRUE, judge |-> FALSE, opensAt |-> 0, closesAt |-> 4,
          total |-> 5, daily |-> 4, perJourney |-> 2,
          totalJourneys |-> 3, dailyJourneys |-> 3, perSource |-> 2, concurrent |-> 1,
          queueCapacity |-> 2, queueTimeout |-> 2, ttl |-> 2, cooldown |-> 1,
          maxUsage |-> 2]
\* More of everything but usage and time to wait.
Wide == [Tight EXCEPT !.total = 6, !.daily = 6, !.concurrent = 2, !.cooldown = 0,
                      !.queueTimeout = 1, !.maxUsage = 1]

MCPolicies == {Tight, Wide}

\* The judge pool: its capacity may grow, or be switched off, inside its
\* window, and shrink only once it is off or the window is closed.
MCJudgePolicies ==
    {[p EXCEPT !.judge = TRUE, !.closesAt = 3] :
        p \in {Tight, [Wide EXCEPT !.queueTimeout = 2], [Tight EXCEPT !.enabled = FALSE]}}
MCPatientPolicy == {[Tight EXCEPT !.queueTimeout = 3]}
=============================================================================
