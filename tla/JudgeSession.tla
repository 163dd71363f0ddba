---------------------------- MODULE JudgeSession ----------------------------
(***************************************************************************)
(* The object a judge confirms: SupervisorJudgePortalRuntime (one reference *)
(* supervisor per journey, confirmAndRun and a memoised close) wrapped by   *)
(* BudgetedJudgePortalBackend (the journey's budget reservation, started,   *)
(* closed and a memoised settlement).  A session is one record; the calls   *)
(* that JavaScript makes synchronously are operators on that record, and    *)
(* every await is a field that another step completes.                      *)
(***************************************************************************)

CONSTANTS Fixtures, NoFixture   \* pull requests provisioned to be merged once

ASSUME FixturesAssumption == NoFixture \notin Fixtures

\* What the host's caller is answered ("none" while the call is open).
Answers == {"none", "completed", "stopped", "unavailable", "preview_unavailable",
            "capacity_unavailable", "denied", "service_unavailable", "journey_failed"}

\* A settlement asked of the budget service: its promise, memoised.
Settlements == {"none", "asked", "settled", "pending", "rejected"}

\* A close: not called, awaiting the supervisor or the settlement, or ended.
Closes == {"no", "waiting", "settling", "done", "failed"}

\* confirmAndRun: not called, awaiting the launch or the runtime's own close,
\* awaiting the settlement (settling, failing), or ended.
Runs == {"no", "launch", "closing", "completed", "stopped", "settling", "failing",
         "returned", "threw"}

\* The open call of the portal or the coordinator that owns the session.
Places == {"idle", "scope", "begin", "prepare", "start", "undo", "unsettle", "drop",
           "pending", "discard", "running", "leaving", "mkdir", "launch", "journey",
           "stopping", "settle", "done"}

\* What a launch ended with, the session's supervisor, and the outcome that the
\* budget service is asked to settle.
Ends == {"none", "completed", "stopped", "threw"}
Supervisors == {"none", "starting", "up", "down"}
Outcomes == {"none", "completed", "failed"}

SessionRecord ==
  [at         : Places,
   told       : Answers,
   verdict    : Answers,            \* the result the open call is about to report
   aborted    : BOOLEAN,            \* the abort signal of the call
   started    : BOOLEAN,            \* the wrapper's started
   closed     : BOOLEAN,            \* the wrapper's closed
   run        : Runs,               \* the wrapper's confirmAndRun
   closer     : Closes,             \* the wrapper's closePromise
   runtime    : Runs,               \* the runtime's confirmAndRun
   result     : Ends,
   shutdown   : Closes,             \* the runtime's closing promise
   supervisor : Supervisors,
   outcome    : Outcomes,
   settlement : Settlements,
   admitted   : BOOLEAN,            \* the budget holds a reservation for it
   merges     : BOOLEAN,            \* its scope names a pull request to merge
   fixture    : Fixtures \cup {NoFixture}]

NewSession ==
  [at |-> "idle", told |-> "none", verdict |-> "none", aborted |-> FALSE,
   started |-> FALSE, closed |-> FALSE, run |-> "no", closer |-> "no",
   runtime |-> "no", result |-> "none", shutdown |-> "no", supervisor |-> "none",
   outcome |-> "none", settlement |-> "none", admitted |-> FALSE,
   merges |-> FALSE, fixture |-> NoFixture]

Ended(close) == close \in {"done", "failed"}
Answered(s)  == s.settlement \in {"settled", "pending", "rejected"}

(***************************************************************************)
(* The wrapper's settle: the first call fixes the outcome, later calls get  *)
(* the same promise.                                                        *)
(***************************************************************************)
Settle(s, outcome) ==
  IF s.settlement # "none" THEN s
  ELSE [s EXCEPT !.settlement = "asked", !.outcome = outcome]

\* A mistaken promise that takes a pending reservation for a settled journey.
PendingIsSettled(s, reply) == IF reply = "lost" THEN "rejected" ELSE reply

\* The answer, or its loss; a completed journey whose reservation is not
\* settled is an error for the caller.
SettlementPromise(s, reply) ==
  IF reply = "lost" \/ (s.outcome = "completed" /\ reply # "settled")
  THEN "rejected" ELSE reply

\* The runtime's close: one call of supervisor.close, memoised.
CloseRuntime(s) ==
  IF s.shutdown = "no" THEN [s EXCEPT !.shutdown = "waiting"] ELSE s

\* The wrapper's close: closed at once, then the runtime, then the settlement.
CloseSession(s) ==
  LET t == [s EXCEPT !.closed = TRUE]
  IN IF t.closer = "no" THEN CloseRuntime([t EXCEPT !.closer = "waiting"]) ELSE t

\* The abort signal fires: the runtime listens while its launch is open.
Abort(s) ==
  LET t == [s EXCEPT !.aborted = TRUE]
  IN IF t.runtime = "launch" THEN CloseRuntime(t) ELSE t

\* The portal's cancel, on disconnect and after 300 seconds.
Cancel(s) == CloseSession(Abort(s))

(***************************************************************************)
(* confirmAndRun, called by the portal: wrapper and runtime refuse a closed,*)
(* started or aborted session; otherwise the runtime starts the launch.     *)
(***************************************************************************)
RuntimeRefuses(s) == s.shutdown # "no" \/ s.runtime # "no" \/ s.aborted
ConfirmAndRun(s) ==
  IF s.closed \/ s.started \/ s.aborted THEN [s EXCEPT !.run = "threw"]
  ELSE LET t == [s EXCEPT !.started = TRUE, !.run = "launch"]
       IN IF RuntimeRefuses(t) THEN [t EXCEPT !.runtime = "threw"]
          ELSE [t EXCEPT !.runtime = "launch"]

(***************************************************************************)
(* What each await of the session object is resumed with.                   *)
(***************************************************************************)

\* confirmAndLaunch returns or throws; only a final response, with the plan's
\* grant, of a session nobody closed counts as completed.  Then the finally.
Launched(s, end) ==
  CloseRuntime([s EXCEPT !.runtime = "closing",
    !.result = IF end = "completed" /\ (s.shutdown # "no" \/ s.aborted)
               THEN "stopped" ELSE end])

\* The runtime's own close may still fail the run.
RuntimeReturned(s) ==
  [s EXCEPT !.runtime = IF s.shutdown = "failed" THEN "threw" ELSE s.result,
            !.result = "none"]

\* The wrapper takes the runtime's result and asks for the settlement.
RunSettled(s) ==
  IF s.runtime = "threw" THEN [Settle(s, "failed") EXCEPT !.run = "failing"]
  ELSE [Settle(s, IF s.runtime = "completed" /\ ~s.aborted
                  THEN "completed" ELSE "failed")
        EXCEPT !.run = "settling"]

\* After the settlement: a rejected one, a cancel or a close fails the run.
RunReturned(s) ==
  [s EXCEPT !.run = IF s.run = "failing" \/ s.settlement = "rejected"
                       \/ s.aborted \/ s.closed
                    THEN "threw" ELSE "returned"]

\* A mistaken close that gives up when the runtime's close fails.
CloserGivesUp(s) ==
  IF s.shutdown = "failed" THEN [s EXCEPT !.closer = "failed"]
  ELSE [Settle(s, "failed") EXCEPT !.closer = "settling"]

\* close: the settlement is asked whatever became of the runtime's close.
CloserSettled(s) == [Settle(s, "failed") EXCEPT !.closer = "settling"]
CloserEnded(s) ==
  [s EXCEPT !.closer = IF s.shutdown = "failed" \/ s.settlement = "rejected"
                       THEN "failed" ELSE "done"]
=============================================================================
