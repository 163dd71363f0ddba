--------------------------- MODULE MCJudgePortal ----------------------------
(***************************************************************************)
(* JudgePortal with two sessions, one fixture and a capacity of one.  What  *)
(* two sessions share (the capacity, the fixtures, the executor's place)    *)
(* they contend for early; once both hold their own supervisor they only    *)
(* share the host.  So of the pairs of sessions the exploration keeps those *)
(* of an open host in which one is at its beginning or has come to rest,    *)
(* and the host's closing beside one session in any state.                  *)
(***************************************************************************)
EXTENDS JudgePortal

Early(s) == session[s].at \in {"idle", "scope", "begin", "prepare", "mkdir"}

AtRest(s) ==
  /\ session[s].at = "done"
  /\ session[s].run \in {"no", "returned", "threw"}
  /\ session[s].closer \in {"no", "done", "failed"}

Explored ==
  \A s, t \in Sessions : s # t =>
    \/ \E u \in {s, t} : session[u].at = "idle"
    \/ host = "up" /\ child = "ready" /\ \E u \in {s, t} : Early(u) \/ AtRest(u)
=============================================================================
