-------------------------- MODULE MCGitHubCredential --------------------------
(* Bounds of the model-checking run of GitHubCredential.                     *)
EXTENDS GitHubCredential, TLC

\* The properties leave out a store that two writers shared without a lock:
\* what follows such a race is not explored.  Nor does it matter to what was
\* entered through the page when that happened: it is at time 0.
Explored == ~raced /\ (keys > 0 => clock = 0)

\* What an ended command reported is read by no later step.
StateView ==
    <<clock, keyring, pairs, keys, raced, unwound, brokerVars,
      IF cli.phase = "idle" THEN Idle("none") ELSE cli>>

UserSymmetry == Permutations(Users)
=============================================================================
