--------------------------- MODULE MCSessionPlans ---------------------------
(* Constants of the model-checking run of SessionPlans: two merges of one   *)
(* pull request, a merge of another and a read that the second plan does    *)
(* not cover.  The first plan's ceilings bind: two actions, one mutation.   *)
(* stale1 is a read bound to another version of the policy.                 *)
EXTENDS SessionPlans

CONSTANTS merge1, merge2, merge3, read1, stale1, pr1, pr2, main, other

MCRequests == {merge1, merge2, merge3, read1, stale1}
MCMutations == {merge1, merge2, merge3}
MCResources == {pr1, pr2}
MCResourceOf == [r \in MCRequests |-> IF r = merge3 THEN pr2 ELSE pr1]
MCBases == {main, other}

Targets(operations) ==
    [t \in {"read", "merge"} \X MCResources |-> IF t[1] \in operations THEN main ELSE None]
MCPlanContents ==
    {[targets |-> Targets({"read", "merge"}), maxActions |-> 2, maxMutations |-> 1, expiresAt |-> 2],
     [targets |-> Targets({"merge"}), maxActions |-> 1, maxMutations |-> 1, expiresAt |-> 1]}
=============================================================================
