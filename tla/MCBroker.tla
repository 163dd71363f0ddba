------------------------------- MODULE MCBroker -------------------------------
(* Constants of the model-checking run of Broker: a merge and a read of one  *)
(* pull request, a plan that covers both and one approval of the merge.      *)
EXTENDS Broker, TLC

CONSTANTS merge1, read1, pr1, moved, main, other, e1, e2, approval1

MCResourceOf == [r \in Requests |-> pr1]
MCApprovedRequest == [a \in Approvals |-> merge1]
MCPlanContents ==
    {[targets |-> [t \in {"read", "merge"} \X Resources |-> IF t[2] = pr1 THEN main ELSE None],
      maxActions |-> 2, maxMutations |-> 1, expiresAt |-> 1]}
MCAnswers ==
    {Failed, Shapeless} \cup
        [shape : {"recommendation"}, level : {"allow", "confirm"}, certain : {TRUE}]
ExecSymmetry == Permutations(Execs)

(***************************************************************************)
(* The states explored are those of two scenes.  In the first, two merges   *)
(* race over the approval, which may lapse, or over the approval and a     *)
(* plan, while the head may move.  In the second, a merge and a read race   *)
(* under two versions of the plan, while the base may change and the       *)
(* Guardian may also ask for a confirmation.                               *)
(***************************************************************************)
ApprovalScene ==
    /\ Version = 0 \/ (Version = 1 /\ clock = 0)
    /\ pull.base = main
    /\ \A e \in Execs : exec[e].request # read1

PlanScene ==
    /\ clock = 0 /\ sessionActive /\ pull.head = pr1
    /\ \E e \in Execs : exec[e].request # merge1
    /\ \A a \in Approvals : approvals[a].state = "unissued"

\* The session ends in the first scene only, and not beside its connection.
Explored == (sessionActive \/ connected) /\ (ApprovalScene \/ PlanScene)
=============================================================================
