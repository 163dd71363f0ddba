-------------------------- MODULE MCMissionLaunch --------------------------
(***************************************************************************)
(* MissionLaunch with two drafts and a capacity of one, so that the second  *)
(* is created once the first was confirmed.  What they share is the         *)
(* capacity, the workspace and the one session: the second is structured    *)
(* and explored while the supervisor is open and no turn runs.  Which draft *)
(* a session came from means nothing to its journey, which is explored on a *)
(* structured one, beside no other.                                         *)
(***************************************************************************)
EXTENDS MissionLaunch

MCManifest == <<"a", "b">>
MCEntries ==
  {[path |-> p, name |-> "plain", kind |-> "file", ignored |-> FALSE] : p \in {"a", "b", "new"}}
  \cup {[path |-> "a", name |-> "plain", kind |-> "link", ignored |-> FALSE],
        [path |-> "out", name |-> "plain", kind |-> "file", ignored |-> TRUE],
        [path |-> "state", name |-> "protected", kind |-> "file", ignored |-> FALSE],
        [path |-> "odd", name |-> "unusual", kind |-> "file", ignored |-> FALSE]}

Fresh(d) == draft[d].state = "none"
Structured(d) == draft[d].requested = "structured"

Explored ==
  /\ \A d, e \in Drafts : d # e =>
       \/ Fresh(d) \/ Fresh(e)
       \/ /\ phase = "open" /\ journey.at = "no"
          /\ \A f \in {d, e} :
               launch[f] # "turn" /\ (Structured(f) \/ draft[f].state = "consumed")
          /\ Structured(d) \/ Structured(e)
  /\ workspace.immutable =>
       journey.at = "no" /\ \E d \in Drafts : \A e \in Drafts \ {d} : Fresh(e) /\ Structured(d)
  /\ phase \in {"planning", "starting", "closed"} => \A d \in Drafts : Fresh(d) \/ launch[d] # "no"
  /\ journey.at # "no" => Structured(session.of)
=============================================================================
