-------------------------- MODULE SupervisedChild --------------------------
(***************************************************************************)
(* startSupervisedServiceProcess: a service of the reference supervisor in  *)
(* a process of its own.  It is started over a pipe, is ready when it has   *)
(* printed exactly its ready line, is closed when it prints anything else,  *)
(* and a close is one SIGTERM followed five seconds later by SIGKILL.  A    *)
(* child is one record; the operators are what happens to it.               *)
(***************************************************************************)

ChildRecord == [proc  : {"none", "up", "term", "kill", "gone"},
                start : {"none", "waiting", "ready", "failing"}]

NoChild == [proc |-> "none", start |-> "none"]

\* spawn: a failed one emits an error and there is no process to close.
Spawned == {[proc |-> "up", start |-> "waiting"], [proc |-> "gone", start |-> "failing"]}

Gone(c) == c.proc \in {"none", "gone"}
Live(c) == c.proc \in {"up", "term", "kill"}

\* start throws only after it has closed what it had spawned.
StartThrew(c) == c.start = "failing" /\ Gone(c)

\* Memoised: a second close awaits the first one's end.
CloseChild(c) == IF c.proc = "up" THEN [c EXCEPT !.proc = "term"] ELSE c

\* The ready line in time; or the timeout, another line, a broken pipe.
StartResolves(c) ==
  IF c.start # "waiting" THEN {}
  ELSE {[CloseChild(c) EXCEPT !.start = "failing"]}
       \cup (IF c.proc = "up" THEN {[c EXCEPT !.start = "ready"]} ELSE {})

Exited(c) == [c EXCEPT !.proc = "gone"]

\* The shutdown timer of a close, and the kernel's end of a killed process.
ShutdownMoves(c) ==
  CASE c.proc = "term" -> {[c EXCEPT !.proc = "kill"]}
    [] c.proc = "kill" -> {Exited(c)}
    [] OTHER -> {}

\* What a bounded wait makes happen, and what the process may do by itself:
\* exit, or print when it should not.
TimedMoves(c) == StartResolves(c) \cup ShutdownMoves(c)
OwnMoves(c) ==
  IF ~Live(c) THEN {}
  ELSE {Exited(c)} \cup (IF c.start = "ready" THEN {CloseChild(c)} ELSE {})
=============================================================================
