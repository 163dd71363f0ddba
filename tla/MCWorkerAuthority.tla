-------------------------- MODULE MCWorkerAuthority --------------------------
(***************************************************************************)
(* Constants of the model-checking runs of WorkerAuthority, and the two     *)
(* scenes of the run worker_authority, told apart by the budgets granted:   *)
(*   policy   one session and one execution under the violation policy, on  *)
(*            a clock that moves both ways, across a restart;               *)
(*   budget   two sessions, two executions and research reservations over   *)
(*            one store, at one instant.                                    *)
(***************************************************************************)
EXTENDS WorkerAuthority, TLC

LOCAL INSTANCE Functions

\* A session that may claim one execution, and one that may claim none: the
\* second reaches volume_exhausted on every attempt.
MCPolicyBudgets == {[toolCalls |-> n, localCommands |-> n,
                     researchRequests |-> 0, researchResults |-> 0] : n \in 0..1}

\* Research, broker and dispatcher share the tool calls of a session.
MCSharedBudgets == {[toolCalls |-> 2, localCommands |-> 1,
                     researchRequests |-> 1, researchResults |-> 2]}

MCBudgets == MCPolicyBudgets \cup MCSharedBudgets

Symmetry == Permutations(Sessions) \cup Permutations(ExecutionIds) \cup Permutations(Digests)

Created == {s \in Sessions : Exists(s)}

Named ==
    {x.binding.id : x \in executions} \cup
    UNION {{e.binding.id : e \in Range(boundary[s]) \cup Range(audit[s])} : s \in Created}

\* The session ends before the second tick or after the last; its log and its
\* audit trail are not both at their bounds.
PolicyScene ==
    /\ Cardinality(Created) <= 1 /\ Cardinality(Named) <= 1
    /\ \A s \in Created :
         /\ sessions[s].expiresAt # 2
         /\ Len(boundary[s]) + Len(audit[s]) <= 5

BudgetScene ==
    /\ now = 0 /\ boot = 1 /\ up
    /\ \A s \in Created :
         /\ granted[s] \in MCSharedBudgets /\ sessions[s].expiresAt = 1
         /\ boundary[s] = <<>>
         /\ \A e \in Range(audit[s]) : e.type # "worker.step"

Scene == IF \E s \in Created : granted[s] \in MCSharedBudgets THEN BudgetScene ELSE PolicyScene
=============================================================================
