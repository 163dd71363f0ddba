-------------------------- MODULE AuthorizedEffects --------------------------
(***************************************************************************)
(* What the broker promises of external effects: every effect it sends to  *)
(* the provider is paid for by one unit of authority (an exact approval,   *)
(* or a plan's permission to merge one pull request at one head).  A unit  *)
(* is spent only while the session's authority is in force and pays for    *)
(* one effect, sent after it was spent.  Authority never returns to a      *)
(* session that lost it; an effect already paid for may still go out then. *)
(***************************************************************************)
EXTENDS Naturals

CONSTANT Units

VARIABLES
    inForce,  \* the session, its window and its connection are active
    spent,    \* units consumed
    effects   \* how many effects were sent under each unit

effectVars == <<inForce, spent, effects>>

EffectsInit ==
    /\ inForce = TRUE
    /\ spent = {}
    /\ effects = [u \in Units |-> 0]

Spend(u) ==
    /\ inForce
    /\ u \notin spent
    /\ spent' = spent \cup {u}
    /\ UNCHANGED <<inForce, effects>>

SendPaid(u) ==
    /\ u \in spent
    /\ effects[u] = 0
    /\ effects' = [effects EXCEPT ![u] = 1]
    /\ UNCHANGED <<inForce, spent>>

Lapse ==
    /\ inForce
    /\ inForce' = FALSE
    /\ UNCHANGED <<spent, effects>>

EffectsNext ==
    \/ \E u \in Units : Spend(u) \/ SendPaid(u)
    \/ Lapse

EffectsSpec == EffectsInit /\ [][EffectsNext]_effectVars
=============================================================================
