--------------------------- MODULE WorkerTurnsProofs ---------------------------
(* Theorems about WorkerTurns, for any turns, tools, requests and bounds:    *)
(* whatever call is lost, whichever deadline passes and whenever a service   *)
(* dies, the worker is told of no evidence that was not retrieved, exposed   *)
(* and settled, and of no external result without its audit trail.           *)
EXTENDS WorkerTurns, TLAPS, SequenceTheorems

-----------------------------------------------------------------------------
(* What an execution goes through: the list it works off, and how many of   *)
(* the trail's events are written before each of its steps.                 *)

Scripts == {"research", "broker", "success", "denial", "refusal", "status", "command", "local"}
StepsOf(s) ==
    CASE s = "research" -> ResearchSteps
      [] s = "broker"   -> BrokerSteps
      [] s = "success"  -> SuccessSteps
      [] s = "denial"   -> DenialSteps
      [] s = "refusal"  -> RefusalSteps
      [] s = "status"   -> <<"consume", "value">>
      [] s = "command"  -> <<"consume", "command", "value">>
      [] s = "local"    -> <<"violation", "value">>
Written(s) ==
    CASE s = "research" -> <<0, 0, 1, 1, 1, 1, 1, 1>>
      [] s = "broker"   -> <<0, 0, 1, 1, 1, 1, 1>>
      [] s = "success"  -> <<1, 1, 2, 3, 3, 4>>
      [] s = "denial"   -> <<1, 1, 1, 2, 3, 4>>
      [] s = "refusal"  -> <<0, 0, 0, 1, 2, 3, 4>>
      [] s = "command"  -> <<0, 0, 0, 0>>
      [] s \in {"status", "local"} -> <<0, 0, 0>>
ToolsOf(s) ==
    CASE s = "research" -> {"research"}
      [] s = "broker"   -> {"read", "merge"}
      [] s \in {"success", "denial", "refusal"} -> External
      [] s \in {"status", "command", "local"} -> Tools \ External
Denials == {"denial", "refusal", "local"}

-----------------------------------------------------------------------------
(* The inductive invariant.                                                 *)

Events == [type : AuditEvents, denied : BOOLEAN]
ShapeOK ==
    /\ DOMAIN store = {"status", "planRevoked", "violations", "requests", "claimed", "denied",
                       "paid", "open", "exposed", "log"}
    /\ store.log \in [Turns -> Seq(Events)]
    /\ DOMAIN loop = {"at", "turn", "tools", "told", "reason"}
    /\ loop.turn \in Turns /\ loop.told \in [Turns -> [tool : Tools \cup {"none"},
                                                       result : {"none", "denied", "succeeded"}]]
    /\ DOMAIN exec = {"state", "turn", "tool", "todo", "denied", "revoked", "reason", "late"}
    /\ exec.state \in {"none", "running", "returned", "threw"}
    /\ exec.turn \in Turns /\ exec.tool \in Tools
    /\ DOMAIN service = {"at", "turn", "request", "found", "reply"}
    /\ service.turn \in Turns

\* Before the worker is asked nothing of its turn has happened, and a tool's
\* result is told in the turn it belongs to.
Asking == {"check", "turn", "complete"}
LoopOK ==
    /\ loop.tools \/ loop.at = "tool" => loop.turn < MaxTurns
    /\ exec.state \in {"running", "threw"} \/ loop.at = "tool" => exec.turn = loop.turn
    /\ exec.state \in {"running", "threw"} => loop.at \in {"tool", "failing", "over"}
    /\ loop.at \in Asking =>
        \/ exec.state = "none" /\ exec.tool = "status"
        \/ exec.state = "returned" /\ exec.turn < loop.turn
    /\ \A t \in Turns : t >= loop.turn => loop.told[t] = Nothing
    /\ \A t \in Turns : t > loop.turn \/ (t = loop.turn /\ loop.at \in Asking) =>
                            store.log[t] = <<>> /\ t \notin crossed

\* The research service works for the execution that asked it last.
Accounted(t) == t \in (store.exposed \cap crossed) \ store.open
Busy == service.at \notin {"idle", "replied"}
ServiceOK ==
    /\ Busy => /\ service.turn = exec.turn /\ exec.turn = loop.turn
               /\ exec.state \in {"running", "threw"} /\ exec.tool = "research"
    /\ service.at = "replied" =>
        \/ service.turn < loop.turn
        \/ service.turn = exec.turn /\ exec.turn = loop.turn /\ exec.tool = "research"
    /\ service.at = "asked" => service.request \in Requests
    /\ service.at \in {"asked", "reserve"} => service.turn \notin crossed
    /\ service.at \in {"provider", "expose", "settle", "refund"} => service.turn \in store.paid
    /\ service.at \in {"expose", "settle"} => service.turn \in crossed
    /\ service.at = "settle" => service.turn \in store.exposed
    /\ service.at = "replied" /\ service.reply = "evidence" => Accounted(service.turn)
    /\ service.at = "replied" /\ service.reply \in PolicyRefusals => service.turn \notin crossed
    /\ store.exposed \cup store.open \subseteq store.paid

\* An execution that has not failed is somewhere in a script, and the store
\* holds what the steps behind it have recorded.
Logged(n, count, denied) ==
    /\ Len(store.log[n]) = count
    /\ \A i \in 1..count : store.log[n][i].type = Trail[i]
    /\ \A i \in 2..count : store.log[n][i].denied = denied
Placed(s, k) ==
    /\ exec.todo = SubSeq(StepsOf(s), k, Len(StepsOf(s)))
    /\ exec.state = IF k > Len(StepsOf(s)) THEN "returned" ELSE "running"
    /\ exec.tool \in ToolsOf(s)
    /\ exec.denied = IF s \in Denials THEN TRUE ELSE FALSE
Known(s, k) ==
    LET n == exec.turn IN
    /\ Logged(n, Written(s)[k], exec.denied)
    /\ s \in {"research", "broker"} =>
        /\ k <= Len(StepsOf(s)) /\ (k > 1 => n \in store.claimed)
        /\ StepsOf(s)[k] = "plan" => n \in crossed /\ (s = "research" => Accounted(n))
    /\ s \in {"success", "denial"} => n \in store.claimed
    /\ s = "success" => n \in crossed /\ (exec.tool = "research" => Accounted(n))
    /\ s = "refusal" /\ k > 1 => n \in store.denied
    /\ s = "research" /\ k <= 5 => n \notin crossed
    /\ s \in {"denial", "refusal"} /\ exec.tool = "research" => n \notin crossed
    /\ s = "research" /\ k = 6 => service.turn = n /\ service.at # "idle"
    /\ Busy => s = "research" /\ k = 6
Failing == exec.state = "running" /\ exec.todo = <<"interrupt">>
ExecOK ==
    exec.state \in {"running", "returned"} /\ ~Failing =>
        \E s \in Scripts : \E k \in 1..Len(StepsOf(s)) + 1 : Placed(s, k) /\ Known(s, k)

ToldOK ==
    /\ \A t \in Turns : Told(t, {"research"}, "succeeded") => Accounted(t)
    /\ FeedbackIsAudited

TurnsInv == ShapeOK /\ LoopOK /\ ServiceOK /\ ExecOK /\ ToldOK
-----------------------------------------------------------------------------
(* The scripts, read off their definitions.                                 *)

Length(s) == Len(StepsOf(s))
Ended(s) == Length(s) + 1

\* What the steps of a script record of the trail, and where they stand.
StepFacts(s, k) ==
    LET step == StepsOf(s)[k] IN
    /\ step \in AuditEvents =>
        /\ Written(s)[k] \in 0..3 /\ Written(s)[k + 1] = Written(s)[k] + 1
        /\ step = Trail[Written(s)[k] + 1]
    /\ step \notin AuditEvents => Written(s)[k + 1] = Written(s)[k]
    /\ step # "interrupt"
    /\ step \in {"claim", "consume"} => k = 1 /\ s \notin Denials
    /\ step = "violation" => k = 1 /\ s \in Denials
    /\ s = "refusal" /\ k = 1 => step = "violation"
    /\ s \in {"research", "broker"} /\ k = 1 => step = "claim"
    /\ step \in ServiceSteps => s \in {"research", "broker"} /\ k > 1
    /\ step = "ask" <=> s = "research" /\ k = 5
    /\ step = "answer" <=> s = "research" /\ k = 6
    /\ step = "target" => s = "broker" /\ k = 4
    /\ step = "broker" <=> s = "broker" /\ k = 5
    /\ step = "plan" <=> (s = "research" /\ k = 7) \/ (s = "broker" /\ k = 6)
ScriptFacts(s, n) ==
    /\ Length(s) = n /\ \E S : StepsOf(s) \in Seq(S)
    /\ \A k \in 1..n : StepFacts(s, k)
LEMMA TrailIs ==
    /\ Len(Trail) = 4 /\ Trail[1] = "proposal.received" /\ Trail[2] = "policy.decided"
    /\ Trail[3] = "execution.result" /\ Trail[4] = "worker.feedback.returned"
  BY DEF Trail
LEMMA ResearchScript == ScriptFacts("research", 7)
<1>1. StepsOf("research") = <<"claim", "proposal.received", "session", "open", "ask", "answer", "plan">>
  BY DEF StepsOf, ResearchSteps
<1>2. Written("research") = <<0, 0, 1, 1, 1, 1, 1, 1>>
  BY DEF Written
<1>3. Length("research") = 7
  BY <1>1 DEF Length
<1>5. \E S : StepsOf("research") \in Seq(S)
  <2>1. <<"claim", "proposal.received", "session", "open", "ask", "answer", "plan">> \in Seq({"claim", "proposal.received", "session", "open", "ask", "answer", "plan"})
    OBVIOUS
  <2> QED BY <1>1, <2>1
<1>4. ASSUME NEW k \in 1..7 PROVE StepFacts("research", k)
  <2>1. CASE k = 1
    BY <1>1, <1>2, <2>1, TrailIs DEF StepFacts, AuditEvents, ServiceSteps, Denials
  <2>2. CASE k = 2
    BY <1>1, <1>2, <2>2, TrailIs DEF StepFacts, AuditEvents, ServiceSteps, Denials
  <2>3. CASE k = 3
    BY <1>1, <1>2, <2>3, TrailIs DEF StepFacts, AuditEvents, ServiceSteps, Denials
  <2>4. CASE k = 4
    BY <1>1, <1>2, <2>4, TrailIs DEF StepFacts, AuditEvents, ServiceSteps, Denials
  <2>5. CASE k = 5
    BY <1>1, <1>2, <2>5, TrailIs DEF StepFacts, AuditEvents, ServiceSteps, Denials
  <2>6. CASE k = 6
    BY <1>1, <1>2, <2>6, TrailIs DEF StepFacts, AuditEvents, ServiceSteps, Denials
  <2>7. CASE k = 7
    <3>1. StepsOf("research")[7] = "plan" /\ Written("research")[7] = 1
      BY <1>1, <1>2
    <3>2. Written("research")[8] = 1
      BY <1>2
    <3> QED BY <2>7, <3>1, <3>2 DEF StepFacts, AuditEvents, ServiceSteps, Denials
  <2> QED BY <2>1, <2>2, <2>3, <2>4, <2>5, <2>6, <2>7
<1> QED BY <1>3, <1>4, <1>5 DEF ScriptFacts
LEMMA BrokerScript == ScriptFacts("broker", 6)
<1>1. StepsOf("broker") = <<"claim", "proposal.received", "session", "target", "broker", "plan">>
  BY DEF StepsOf, BrokerSteps
<1>2. Written("broker") = <<0, 0, 1, 1, 1, 1, 1>>
  BY DEF Written
<1>3. Length("broker") = 6
  BY <1>1 DEF Length
<1>5. \E S : StepsOf("broker") \in Seq(S)
  <2>1. <<"claim", "proposal.received", "session", "target", "broker", "plan">> \in Seq({"claim", "proposal.received", "session", "target", "broker", "plan"})
    OBVIOUS
  <2> QED BY <1>1, <2>1
<1>4. ASSUME NEW k \in 1..6 PROVE StepFacts("broker", k)
  <2>1. CASE k = 1
    BY <1>1, <1>2, <2>1, TrailIs DEF StepFacts, AuditEvents, ServiceSteps, Denials
  <2>2. CASE k = 2
    BY <1>1, <1>2, <2>2, TrailIs DEF StepFacts, AuditEvents, ServiceSteps, Denials
  <2>3. CASE k = 3
    BY <1>1, <1>2, <2>3, TrailIs DEF StepFacts, AuditEvents, ServiceSteps, Denials
  <2>4. CASE k = 4
    BY <1>1, <1>2, <2>4, TrailIs DEF StepFacts, AuditEvents, ServiceSteps, Denials
  <2>5. CASE k = 5
    BY <1>1, <1>2, <2>5, TrailIs DEF StepFacts, AuditEvents, ServiceSteps, Denials
  <2>6. CASE k = 6
    BY <1>1, <1>2, <2>6, TrailIs DEF StepFacts, AuditEvents, ServiceSteps, Denials
  <2> QED BY <2>1, <2>2, <2>3, <2>4, <2>5, <2>6
<1> QED BY <1>3, <1>4, <1>5 DEF ScriptFacts
LEMMA SuccessScript == ScriptFacts("success", 5)
<1>1. StepsOf("success") = <<"budget", "policy.decided", "execution.result", "value", "worker.feedback.returned">>
  BY DEF StepsOf, SuccessSteps
<1>2. Written("success") = <<1, 1, 2, 3, 3, 4>>
  BY DEF Written
<1>3. Length("success") = 5
  BY <1>1 DEF Length
<1>5. \E S : StepsOf("success") \in Seq(S)
  <2>1. <<"budget", "policy.decided", "execution.result", "value", "worker.feedback.returned">> \in Seq({"budget", "policy.decided", "execution.result", "value", "worker.feedback.returned"})
    OBVIOUS
  <2> QED BY <1>1, <2>1
<1>4. ASSUME NEW k \in 1..5 PROVE StepFacts("success", k)
  <2>1. CASE k = 1
    BY <1>1, <1>2, <2>1, TrailIs DEF StepFacts, AuditEvents, ServiceSteps, Denials
  <2>2. CASE k = 2
    BY <1>1, <1>2, <2>2, TrailIs DEF StepFacts, AuditEvents, ServiceSteps, Denials
  <2>3. CASE k = 3
    BY <1>1, <1>2, <2>3, TrailIs DEF StepFacts, AuditEvents, ServiceSteps, Denials
  <2>4. CASE k = 4
    BY <1>1, <1>2, <2>4, TrailIs DEF StepFacts, AuditEvents, ServiceSteps, Denials
  <2>5. CASE k = 5
    BY <1>1, <1>2, <2>5, TrailIs DEF StepFacts, AuditEvents, ServiceSteps, Denials
  <2> QED BY <2>1, <2>2, <2>3, <2>4, <2>5
<1> QED BY <1>3, <1>4, <1>5 DEF ScriptFacts
LEMMA DenialScript == ScriptFacts("denial", 5)
<1>1. StepsOf("denial") = <<"violation", "value", "policy.decided", "execution.result", "worker.feedback.returned">>
  BY DEF StepsOf, DenialSteps
<1>2. Written("denial") = <<1, 1, 1, 2, 3, 4>>
  BY DEF Written
<1>3. Length("denial") = 5
  BY <1>1 DEF Length
<1>5. \E S : StepsOf("denial") \in Seq(S)
  <2>1. <<"violation", "value", "policy.decided", "execution.result", "worker.feedback.returned">> \in Seq({"violation", "value", "policy.decided", "execution.result", "worker.feedback.returned"})
    OBVIOUS
  <2> QED BY <1>1, <2>1
<1>4. ASSUME NEW k \in 1..5 PROVE StepFacts("denial", k)
  <2>1. CASE k = 1
    BY <1>1, <1>2, <2>1, TrailIs DEF StepFacts, AuditEvents, ServiceSteps, Denials
  <2>2. CASE k = 2
    BY <1>1, <1>2, <2>2, TrailIs DEF StepFacts, AuditEvents, ServiceSteps, Denials
  <2>3. CASE k = 3
    BY <1>1, <1>2, <2>3, TrailIs DEF StepFacts, AuditEvents, ServiceSteps, Denials
  <2>4. CASE k = 4
    BY <1>1, <1>2, <2>4, TrailIs DEF StepFacts, AuditEvents, ServiceSteps, Denials
  <2>5. CASE k = 5
    BY <1>1, <1>2, <2>5, TrailIs DEF StepFacts, AuditEvents, ServiceSteps, Denials
  <2> QED BY <2>1, <2>2, <2>3, <2>4, <2>5
<1> QED BY <1>3, <1>4, <1>5 DEF ScriptFacts
LEMMA RefusalScript == ScriptFacts("refusal", 6)
<1>1. StepsOf("refusal") = <<"violation", "value", "proposal.received", "policy.decided", "execution.result", "worker.feedback.returned">>
  BY DEF StepsOf, RefusalSteps
<1>2. Written("refusal") = <<0, 0, 0, 1, 2, 3, 4>>
  BY DEF Written
<1>3. Length("refusal") = 6
  BY <1>1 DEF Length
<1>5. \E S : StepsOf("refusal") \in Seq(S)
  <2>1. <<"violation", "value", "proposal.received", "policy.decided", "execution.result", "worker.feedback.returned">> \in Seq({"violation", "value", "proposal.received", "policy.decided", "execution.result", "worker.feedback.returned"})
    OBVIOUS
  <2> QED BY <1>1, <2>1
<1>4. ASSUME NEW k \in 1..6 PROVE StepFacts("refusal", k)
  <2>1. CASE k = 1
    BY <1>1, <1>2, <2>1, TrailIs DEF StepFacts, AuditEvents, ServiceSteps, Denials
  <2>2. CASE k = 2
    BY <1>1, <1>2, <2>2, TrailIs DEF StepFacts, AuditEvents, ServiceSteps, Denials
  <2>3. CASE k = 3
    BY <1>1, <1>2, <2>3, TrailIs DEF StepFacts, AuditEvents, ServiceSteps, Denials
  <2>4. CASE k = 4
    BY <1>1, <1>2, <2>4, TrailIs DEF StepFacts, AuditEvents, ServiceSteps, Denials
  <2>5. CASE k = 5
    BY <1>1, <1>2, <2>5, TrailIs DEF StepFacts, AuditEvents, ServiceSteps, Denials
  <2>6. CASE k = 6
    BY <1>1, <1>2, <2>6, TrailIs DEF StepFacts, AuditEvents, ServiceSteps, Denials
  <2> QED BY <2>1, <2>2, <2>3, <2>4, <2>5, <2>6
<1> QED BY <1>3, <1>4, <1>5 DEF ScriptFacts
LEMMA StatusScript == ScriptFacts("status", 2)
<1>1. StepsOf("status") = <<"consume", "value">>
  BY DEF StepsOf
<1>2. Written("status") = <<0, 0, 0>>
  BY DEF Written
<1>3. Length("status") = 2
  BY <1>1 DEF Length
<1>5. \E S : StepsOf("status") \in Seq(S)
  <2>1. <<"consume", "value">> \in Seq({"consume", "value"})
    OBVIOUS
  <2> QED BY <1>1, <2>1
<1>4. ASSUME NEW k \in 1..2 PROVE StepFacts("status", k)
  <2>1. CASE k = 1
    BY <1>1, <1>2, <2>1, TrailIs DEF StepFacts, AuditEvents, ServiceSteps, Denials
  <2>2. CASE k = 2
    BY <1>1, <1>2, <2>2, TrailIs DEF StepFacts, AuditEvents, ServiceSteps, Denials
  <2> QED BY <2>1, <2>2
<1> QED BY <1>3, <1>4, <1>5 DEF ScriptFacts
LEMMA CommandScript == ScriptFacts("command", 3)
<1>1. StepsOf("command") = <<"consume", "command", "value">>
  BY DEF StepsOf
<1>2. Written("command") = <<0, 0, 0, 0>>
  BY DEF Written
<1>3. Length("command") = 3
  BY <1>1 DEF Length
<1>5. \E S : StepsOf("command") \in Seq(S)
  <2>1. <<"consume", "command", "value">> \in Seq({"consume", "command", "value"})
    OBVIOUS
  <2> QED BY <1>1, <2>1
<1>4. ASSUME NEW k \in 1..3 PROVE StepFacts("command", k)
  <2>1. CASE k = 1
    BY <1>1, <1>2, <2>1, TrailIs DEF StepFacts, AuditEvents, ServiceSteps, Denials
  <2>2. CASE k = 2
    BY <1>1, <1>2, <2>2, TrailIs DEF StepFacts, AuditEvents, ServiceSteps, Denials
  <2>3. CASE k = 3
    BY <1>1, <1>2, <2>3, TrailIs DEF StepFacts, AuditEvents, ServiceSteps, Denials
  <2> QED BY <2>1, <2>2, <2>3
<1> QED BY <1>3, <1>4, <1>5 DEF ScriptFacts
LEMMA LocalScript == ScriptFacts("local", 2)
<1>1. StepsOf("local") = <<"violation", "value">>
  BY DEF StepsOf
<1>2. Written("local") = <<0, 0, 0>>
  BY DEF Written
<1>3. Length("local") = 2
  BY <1>1 DEF Length
<1>5. \E S : StepsOf("local") \in Seq(S)
  <2>1. <<"violation", "value">> \in Seq({"violation", "value"})
    OBVIOUS
  <2> QED BY <1>1, <2>1
<1>4. ASSUME NEW k \in 1..2 PROVE StepFacts("local", k)
  <2>1. CASE k = 1
    BY <1>1, <1>2, <2>1, TrailIs DEF StepFacts, AuditEvents, ServiceSteps, Denials
  <2>2. CASE k = 2
    BY <1>1, <1>2, <2>2, TrailIs DEF StepFacts, AuditEvents, ServiceSteps, Denials
  <2> QED BY <2>1, <2>2
<1> QED BY <1>3, <1>4, <1>5 DEF ScriptFacts
LEMMA EveryScript ==
    ASSUME NEW s \in Scripts
    PROVE  /\ Length(s) \in 2..7 /\ \E S : StepsOf(s) \in Seq(S)
           /\ \A k \in 1..Length(s) : StepFacts(s, k)
<1>1. CASE s = "research"
  BY <1>1, ResearchScript DEF ScriptFacts
<1>2. CASE s = "broker"
  BY <1>2, BrokerScript DEF ScriptFacts
<1>3. CASE s = "success"
  BY <1>3, SuccessScript DEF ScriptFacts
<1>4. CASE s = "denial"
  BY <1>4, DenialScript DEF ScriptFacts
<1>5. CASE s = "refusal"
  BY <1>5, RefusalScript DEF ScriptFacts
<1>6. CASE s = "status"
  BY <1>6, StatusScript DEF ScriptFacts
<1>7. CASE s = "command"
  BY <1>7, CommandScript DEF ScriptFacts
<1>8. CASE s = "local"
  BY <1>8, LocalScript DEF ScriptFacts
<1> QED BY <1>1, <1>2, <1>3, <1>4, <1>5, <1>6, <1>7, <1>8 DEF Scripts

\* What is left of a list behind its first step.
LEMMA Suffix ==
    ASSUME NEW S, NEW L \in Seq(S), NEW k \in 1..Len(L)
    PROVE  /\ SubSeq(L, k, Len(L)) # <<>> /\ Head(SubSeq(L, k, Len(L))) = L[k]
           /\ Tail(SubSeq(L, k, Len(L))) = SubSeq(L, k + 1, Len(L))
           /\ SubSeq(L, k + 1, Len(L)) = <<>> <=> k = Len(L)
<1> DEFINE R == SubSeq(L, k, Len(L))
           T == SubSeq(L, k + 1, Len(L))
<1>1. R \in Seq(S) /\ Len(R) = Len(L) - k + 1 /\ \A i \in 1..(Len(L) - k + 1) : R[i] = L[k + i - 1]
  BY SubSeqProperties
<1>2. T \in Seq(S) /\ Len(T) = Len(L) - k /\ \A i \in 1..(Len(L) - k) : T[i] = L[k + i]
  <2>1. CASE k < Len(L)
    BY <2>1, SubSeqProperties
  <2>2. CASE k = Len(L)
    BY <2>2, SubSeqProperties
  <2> QED BY <2>1, <2>2
<1> HIDE DEF R, T
<1>3. R # <<>> /\ Head(R) = L[k]
  BY <1>1, HeadTailProperties
<1>4. Tail(R) \in Seq(S) /\ Len(Tail(R)) = Len(L) - k /\ \A i \in 1..(Len(L) - k) : Tail(R)[i] = L[k + i]
  BY <1>1, <1>3, HeadTailProperties
<1>5. Tail(R) = T
  BY <1>2, <1>4, SeqEqual
<1>6. T = <<>> <=> k = Len(L)
  BY <1>2, EmptySeq
<1> QED BY <1>3, <1>5, <1>6 DEF R, T
-----------------------------------------------------------------------------
(* How an execution goes on: it fails, takes its next step, or turns to     *)
(* another script.                                                          *)

Running == exec.state = "running"
SameRun ==
    /\ DOMAIN exec' = DOMAIN exec
    /\ exec'.turn = exec.turn /\ exec'.tool = exec.tool
Failed ==
    /\ SameRun
    /\ exec'.state = "threw" \/ (exec'.state = "running" /\ exec'.todo = <<"interrupt">>)
Advances ==
    /\ SameRun /\ exec'.denied = exec.denied /\ exec'.todo = Tail(exec.todo)
    /\ exec'.state = IF Tail(exec.todo) = <<>> THEN "returned" ELSE "running"
Redirected(s) ==
    /\ SameRun /\ exec'.todo = StepsOf(s) /\ exec'.state = "running"
    /\ exec'.denied = IF s \in Denials THEN TRUE ELSE FALSE

LEMMA FailsFailed ==
    ASSUME ShapeOK, Running, NEW reason, Fails(reason)
    PROVE  Failed
  BY DEF ShapeOK, Running, Fails, Failed, SameRun
LEMMA ThrownFailed ==
    ASSUME ShapeOK, NEW reason, exec' = Thrown(exec, reason)
    PROVE  Failed
  BY DEF ShapeOK, Thrown, Failed, SameRun
LEMMA ContinuesAdvances ==
    ASSUME ShapeOK, Running, Continues
    PROVE  Advances
  BY DEF ShapeOK, Running, Continues, Onward, Advances, SameRun
LEMMA TurningRedirects ==
    ASSUME ShapeOK, Running, exec.denied = FALSE, exec' = Turning(exec, SuccessSteps)
    PROVE  Redirected("success")
<1>1. StepsOf("success") = SuccessSteps /\ "success" \notin Denials
  BY DEF StepsOf, Denials
<1> HIDE DEF SuccessSteps
<1> QED BY <1>1 DEF ShapeOK, Running, Turning, Redirected, SameRun
LEMMA DenyingRedirects ==
    ASSUME ShapeOK, Running, exec' = Denying(exec, DenialSteps)
    PROVE  Redirected("denial")
<1>1. StepsOf("denial") = DenialSteps /\ "denial" \in Denials
  BY DEF StepsOf, Denials
<1> QED BY <1>1 DEF ShapeOK, Running, Denying, Redirected, SameRun

LEMMA Here ==
    ASSUME ExecOK, NEW step, Doing(step), step # "interrupt"
    PROVE  \E s \in Scripts : \E k \in 1..Length(s) :
              Placed(s, k) /\ Known(s, k) /\ StepsOf(s)[k] = step /\ StepFacts(s, k)
<1>1. exec.state = "running" /\ exec.todo # <<>> /\ Head(exec.todo) = step
  BY DEF Doing
<1>2. ~Failing
  <2>1. Head(<<"interrupt">>) = "interrupt"
    OBVIOUS
  <2> QED BY <1>1, <2>1 DEF Failing
<1>0. PICK s \in Scripts : \E k \in 1..Len(StepsOf(s)) + 1 : Placed(s, k) /\ Known(s, k)
  BY <1>1, <1>2 DEF ExecOK
<1>3. PICK k \in 1..Len(StepsOf(s)) + 1 : Placed(s, k) /\ Known(s, k)
  BY <1>0
<1>4. Length(s) \in 2..7 /\ Len(StepsOf(s)) = Length(s)
  BY EveryScript DEF Length
<1>5. k \in 1..Length(s)
  <2>1. ~(k > Length(s))
    BY <1>1, <1>3, <1>4 DEF Placed
  <2> QED BY <1>4, <2>1
<1>6. StepFacts(s, k)
  BY <1>5, EveryScript
<1>7. PICK S : StepsOf(s) \in Seq(S)
  BY EveryScript
<1>8. StepsOf(s)[k] = step
  <2>1. Head(SubSeq(StepsOf(s), k, Len(StepsOf(s)))) = StepsOf(s)[k]
    BY <1>4, <1>5, <1>7, Suffix
  <2> QED BY <1>1, <1>3, <2>1 DEF Placed
<1> QED BY <1>3, <1>5, <1>6, <1>8

LEMMA PlacedNext ==
    ASSUME NEW s \in Scripts, NEW k \in 1..Length(s), Placed(s, k), Advances
    PROVE  Placed(s, k + 1)'
<1>1. Length(s) \in 2..7 /\ Len(StepsOf(s)) = Length(s)
  BY EveryScript DEF Length
<1>2. PICK S : StepsOf(s) \in Seq(S)
  BY EveryScript
<1>3. /\ Tail(exec.todo) = SubSeq(StepsOf(s), k + 1, Len(StepsOf(s)))
      /\ Tail(exec.todo) = <<>> <=> k = Length(s)
  BY <1>1, <1>2, Suffix DEF Placed
<1>4. exec'.todo = SubSeq(StepsOf(s), k + 1, Len(StepsOf(s)))
  BY <1>3 DEF Advances
<1>5. exec'.state = IF k + 1 > Len(StepsOf(s)) THEN "returned" ELSE "running"
  <2>1. CASE k = Length(s)
    BY <1>1, <1>3, <2>1 DEF Advances
  <2>2. CASE k < Length(s)
    BY <1>1, <1>3, <2>2 DEF Advances
  <2> QED BY <1>1, <2>1, <2>2
<1>6. exec'.tool = exec.tool /\ exec'.denied = exec.denied
  BY DEF Advances, SameRun
<1> QED BY <1>4, <1>5, <1>6 DEF Placed

LEMMA PlacedFirst ==
    ASSUME NEW s \in Scripts, Redirected(s), exec.tool \in ToolsOf(s)
    PROVE  Placed(s, 1)'
<1>1. Length(s) \in 2..7 /\ Len(StepsOf(s)) = Length(s)
  BY EveryScript DEF Length
<1>2. PICK S : StepsOf(s) \in Seq(S)
  BY EveryScript
<1>3. SubSeq(StepsOf(s), 1, Len(StepsOf(s))) = StepsOf(s)
  BY <1>2, SubSeqFull
<1> QED BY <1>1, <1>3 DEF Placed, Redirected, SameRun
-----------------------------------------------------------------------------
(* What a call of an execution does to the store.                           *)

StoreDomain == {"status", "planRevoked", "violations", "requests", "claimed", "denied",
                "paid", "open", "exposed", "log"}
SamePapers ==
    /\ DOMAIN store' = DOMAIN store
    /\ store'.paid = store.paid /\ store'.open = store.open /\ store'.exposed = store.exposed
Records == store.claimed \subseteq store'.claimed /\ store.denied \subseteq store'.denied
SameLog == SamePapers /\ Records /\ store'.log = store.log
Wrote(n, event) ==
    SamePapers /\ Records /\ store'.log = [store.log EXCEPT ![n] = Append(@, event)]

LEMMA TouchedSameLog ==
    ASSUME ShapeOK, store' = Touched
    PROVE  SameLog
  BY DEF ShapeOK, Touched, SameLog, SamePapers, Records
LEMMA StoreSameLog ==
    ASSUME store' = store
    PROVE  SameLog
  BY DEF SameLog, SamePapers, Records
LEMMA ClaimSameLog ==
    ASSUME ShapeOK, NEW n, store' = WithClaim(n)
    PROVE  SameLog /\ n \in store'.claimed
  BY DEF ShapeOK, WithClaim, SameLog, SamePapers, Records
LEMMA ViolationSameLog ==
    ASSUME ShapeOK, NEW n, store' = WithViolation(n, FALSE)
    PROVE  SameLog /\ n \in store'.denied
  BY DEF ShapeOK, WithViolation, SameLog, SamePapers, Records
LEMMA InterruptionSameLog ==
    ASSUME ShapeOK, store' = WithInterruption
    PROVE  SameLog
  BY TouchedSameLog DEF ShapeOK, WithInterruption, SameLog, SamePapers, Records
LEMMA CompletionSameLog ==
    ASSUME ShapeOK, store' = WithCompletion
    PROVE  SameLog
  BY TouchedSameLog DEF ShapeOK, WithCompletion, SameLog, SamePapers, Records
LEMMA RevokedSameLog ==
    ASSUME ShapeOK, store' = [store EXCEPT !.status = "revoked"]
    PROVE  SameLog
  BY DEF ShapeOK, SameLog, SamePapers, Records
LEMMA EventWrote ==
    ASSUME ShapeOK, NEW n, NEW event, store' = WithEvent(n, event)
    PROVE  Wrote(n, event)
  BY DEF ShapeOK, WithEvent, Wrote, SamePapers, Records

\* The log of the execution's own turn may grow, and no other.
StoreGrows(n) ==
    /\ SamePapers /\ Records
    /\ store'.log \in [Turns -> Seq(Events)]
    /\ \A t \in Turns \ {n} : store'.log[t] = store.log[t]
LEMMA SameLogGrows ==
    ASSUME ShapeOK, SameLog, NEW n \in Turns
    PROVE  StoreGrows(n)
  BY DEF ShapeOK, SameLog, StoreGrows
LEMMA WroteGrows ==
    ASSUME ShapeOK, NEW n \in Turns, NEW event \in Events, Wrote(n, event)
    PROVE  /\ StoreGrows(n)
           /\ store'.log[n] = Append(store.log[n], event)
<1>1. PICK log : log = store.log
  OBVIOUS
<1>2. log \in [Turns -> Seq(Events)]
  BY <1>1 DEF ShapeOK
<1>3. PICK after : after = Append(log[n], event)
  OBVIOUS
<1>4. after \in Seq(Events)
  <2>1. log[n] \in Seq(Events)
    BY <1>2
  <2> QED BY <1>3, <2>1, AppendProperties
<1>5. store'.log = [log EXCEPT ![n] = after]
  BY <1>1, <1>3 DEF Wrote
<1>6. store'.log \in [Turns -> Seq(Events)]
  <2> HIDE DEF Events
  <2> QED BY <1>2, <1>4, <1>5
<1>7. \A t \in Turns \ {n} : store'.log[t] = log[t]
  BY <1>2, <1>5
<1>8. store'.log[n] = after
  BY <1>2, <1>5
<1> QED BY <1>1, <1>3, <1>6, <1>7, <1>8 DEF StoreGrows, Wrote

-----------------------------------------------------------------------------
(* A step of the running execution keeps all but what it says of itself.    *)

\* The provider or the adapter is called only by a broker's step.
Crossing ==
    \/ crossed' = crossed
    \/ /\ crossed' = crossed \cup {exec.turn}
       /\ exec.tool # "research" /\ ~Busy
LoopSame == UNCHANGED <<loop, service>>
RunStep ==
    /\ Running /\ SameRun /\ StoreGrows(exec.turn) /\ Crossing /\ LoopSame
    /\ exec'.state \in {"running", "returned", "threw"}
    /\ Busy => exec'.state # "returned"

LEMMA RunShape ==
    ASSUME ShapeOK, RunStep
    PROVE  ShapeOK'
  BY DEF ShapeOK, RunStep, SameRun, LoopSame, StoreGrows, SamePapers

LEMMA RunLoop ==
    ASSUME ShapeOK, LoopOK, RunStep
    PROVE  LoopOK'
<1>1. /\ loop' = loop /\ service' = service
      /\ exec'.turn = exec.turn /\ exec.state = "running" /\ exec.turn = loop.turn
      /\ exec.turn \in Turns /\ loop.turn \in Turns
      /\ loop.at \in {"tool", "failing", "over"} /\ loop.at \notin Asking
  BY DEF RunStep, Running, SameRun, LoopSame, LoopOK, ShapeOK, Asking
<1>2. \A t \in Turns : t > loop.turn => store'.log[t] = <<>> /\ t \notin crossed'
  <2> TAKE t \in Turns
  <2> HAVE t > loop.turn
  <2>1. t # exec.turn
    BY <1>1 DEF Turns, ShapeOK
  <2>2. store.log[t] = <<>> /\ t \notin crossed
    BY DEF LoopOK
  <2> QED BY <2>1, <2>2 DEF RunStep, StoreGrows, Crossing
<1> QED BY <1>1, <1>2 DEF LoopOK

LEMMA RunService ==
    ASSUME ShapeOK, LoopOK, ServiceOK, RunStep
    PROVE  ServiceOK'
<1>1. /\ loop' = loop /\ service' = service
      /\ exec'.turn = exec.turn /\ exec'.tool = exec.tool /\ exec.turn = loop.turn
      /\ store'.paid = store.paid /\ store'.open = store.open /\ store'.exposed = store.exposed
      /\ crossed \subseteq crossed'
  BY DEF RunStep, Running, SameRun, LoopSame, LoopOK, StoreGrows, SamePapers, Crossing
<1>2. service.at = "replied" /\ exec.tool # "research" => service.turn < loop.turn
  BY <1>1 DEF ServiceOK
<1>3. service.turn \notin crossed /\ service.turn \in crossed' => service.turn = exec.turn
  BY DEF RunStep, Crossing
<1>4. service.at = "replied" /\ service.turn \notin crossed => service.turn \notin crossed'
  BY <1>1, <1>2, <1>3 DEF RunStep, Crossing, ShapeOK, Turns
<1>5. service.at \in {"asked", "reserve"} /\ service.turn \notin crossed => service.turn \notin crossed'
  BY DEF RunStep, Crossing, Busy
<1>6. Busy' <=> Busy
  BY <1>1 DEF Busy
<1>7. Busy => exec'.state \in {"running", "threw"}
  BY DEF RunStep
<1>8. Accounted(service.turn) => Accounted(service.turn)'
  BY <1>1 DEF Accounted
<1> QED BY <1>1, <1>4, <1>5, <1>6, <1>7, <1>8 DEF ServiceOK
\* What was told of earlier turns stays as true as it was.
ToldFrame ==
    /\ loop'.told = loop.told
    /\ \A t \in Turns : t < loop.turn =>
        /\ store'.log[t] = store.log[t]
        /\ t \in store.claimed => t \in store'.claimed
        /\ t \in store.denied => t \in store'.denied
        /\ t \in crossed' <=> t \in crossed
        /\ Accounted(t) => Accounted(t)'
LEMMA TellsOfEarlier ==
    ASSUME ShapeOK, LoopOK, NEW t \in Turns, NEW tools \in SUBSET Tools, NEW result,
           Told(t, tools, result)
    PROVE  t < loop.turn
<1>1. Nothing.tool = "none" /\ "none" \notin Tools
  BY DEF Nothing, Tools, External
<1>2. loop.told[t] # Nothing
  BY <1>1 DEF Told
<1>3. ~(t >= loop.turn)
  BY <1>2 DEF LoopOK
<1>4. t \in Int /\ loop.turn \in Int
  BY DEF ShapeOK, Turns
<1> QED BY <1>3, <1>4
LEMMA ToldStays ==
    ASSUME ShapeOK, LoopOK, ToldOK, ToldFrame
    PROVE  ToldOK'
<1>1. External \in SUBSET Tools /\ {"research"} \in SUBSET Tools
  BY DEF Tools, External
<1>2. ASSUME NEW t \in Turns, NEW tools \in SUBSET Tools, NEW result, Told(t, tools, result)'
      PROVE  t < loop.turn /\ Told(t, tools, result)
  <2>1. Told(t, tools, result)
    BY <1>2 DEF Told, ToldFrame
  <2> QED BY <2>1, TellsOfEarlier
<1>3. ASSUME NEW t \in Turns, NEW denied, t < loop.turn, Audited(t, denied)
      PROVE  Audited(t, denied)'
  <2>1. store'.log[t] = store.log[t]
    BY <1>3 DEF ToldFrame
  <2>2. t \in store.claimed \cup store.denied => t \in store'.claimed \cup store'.denied
    BY <1>3 DEF ToldFrame
  <2> QED BY <1>3, <2>1, <2>2 DEF Audited
<1>4. ASSUME NEW t \in Turns, Told(t, {"research"}, "succeeded")'
      PROVE  Accounted(t)'
  <2>1. t < loop.turn /\ Told(t, {"research"}, "succeeded")
    BY <1>1, <1>2, <1>4
  <2>2. Accounted(t)
    BY <2>1 DEF ToldOK
  <2> QED BY <2>1, <2>2 DEF ToldFrame
<1>5. ASSUME NEW t \in Turns, Told(t, External, "succeeded")'
      PROVE  Audited(t, FALSE)' /\ t \in (store.claimed \cap crossed)'
  <2>1. t < loop.turn /\ Told(t, External, "succeeded")
    BY <1>1, <1>2, <1>5
  <2>2. Audited(t, FALSE) /\ t \in store.claimed /\ t \in crossed
    BY <2>1 DEF ToldOK, FeedbackIsAudited
  <2>3. t \in store'.claimed /\ t \in crossed'
    BY <2>1, <2>2 DEF ToldFrame
  <2> QED BY <1>3, <2>1, <2>2, <2>3
<1>6. ASSUME NEW t \in Turns, Told(t, External, "denied")'
      PROVE  Audited(t, TRUE)'
  <2>1. t < loop.turn /\ Told(t, External, "denied")
    BY <1>1, <1>2, <1>6
  <2>2. Audited(t, TRUE)
    BY <2>1 DEF ToldOK, FeedbackIsAudited
  <2> QED BY <1>3, <2>1, <2>2
<1>7. ASSUME NEW t \in Turns, Told(t, {"research"}, "denied")'
      PROVE  t \notin crossed'
  <2>1. t < loop.turn /\ Told(t, {"research"}, "denied")
    BY <1>1, <1>2, <1>7
  <2>2. t \notin crossed
    BY <2>1 DEF ToldOK, FeedbackIsAudited
  <2> QED BY <2>1, <2>2 DEF ToldFrame
<1>8. FeedbackIsAudited'
  BY <1>5, <1>6, <1>7 DEF FeedbackIsAudited
<1> QED BY <1>4, <1>8 DEF ToldOK

LEMMA RunTold ==
    ASSUME ShapeOK, LoopOK, ToldOK, RunStep
    PROVE  ToldOK'
<1>1. loop' = loop /\ exec.turn = loop.turn
  BY DEF RunStep, Running, LoopSame, LoopOK
<1>2. ToldFrame
  <2>1. loop'.told = loop.told
    BY <1>1
  <2>2. ASSUME NEW t \in Turns, t < loop.turn
        PROVE  /\ store'.log[t] = store.log[t]
               /\ t \in store.claimed => t \in store'.claimed
               /\ t \in store.denied => t \in store'.denied
               /\ t \in crossed' <=> t \in crossed
               /\ Accounted(t) => Accounted(t)'
    <3>1. t # exec.turn
      BY <1>1, <2>2 DEF ShapeOK, Turns
    <3>2. store'.log[t] = store.log[t]
      BY <3>1 DEF RunStep, StoreGrows
    <3>3. /\ t \in store.claimed => t \in store'.claimed
          /\ t \in store.denied => t \in store'.denied
      BY DEF RunStep, StoreGrows, Records
    <3>4. t \in crossed' <=> t \in crossed
      BY <3>1 DEF RunStep, Crossing
    <3>5. Accounted(t) => Accounted(t)'
      BY <3>4 DEF RunStep, StoreGrows, SamePapers, Accounted
    <3> QED BY <3>2, <3>3, <3>4, <3>5
  <2> QED BY <2>1, <2>2 DEF ToldFrame
<1> QED BY <1>2, ToldStays
-----------------------------------------------------------------------------
(* Where the execution stands after its step.                               *)

LEMMA FailedExec ==
    ASSUME Failed
    PROVE  ExecOK'
  BY DEF Failed, ExecOK, Failing
LEMMA PlacedExec ==
    ASSUME NEW s \in Scripts, NEW k \in 1..Length(s) + 1, Placed(s, k)', Known(s, k)'
    PROVE  ExecOK'
  BY DEF ExecOK, Length

\* The trail of the execution's turn, unchanged or one event longer.
LEMMA LoggedStays ==
    ASSUME NEW n, NEW count, NEW denied, Logged(n, count, denied), store'.log[n] = store.log[n]
    PROVE  Logged(n, count, denied)'
  BY DEF Logged
LEMMA LoggedGrows ==
    ASSUME NEW n \in Turns, NEW count \in 0..3, NEW denied \in BOOLEAN, NEW log \in Seq(Events),
           NEW event \in Events, log = store.log[n], Logged(n, count, denied),
           store'.log[n] = Append(log, event),
           event.type = Trail[count + 1], event.denied = denied
    PROVE  Logged(n, count + 1, denied)'
<1> DEFINE after == Append(log, event)
<1>1. Len(log) = count /\ Len(after) = count + 1
  BY AppendProperties DEF Logged
<1>2. \A i \in 1..count : after[i] = log[i]
  BY <1>1, AppendProperties
<1>3. after[count + 1] = event
  BY <1>1, AppendProperties
<1> HIDE DEF after
<1>4. \A i \in 1..count : log[i].type = Trail[i]
  BY DEF Logged
<1>5. \A i \in 2..count : log[i].denied = denied
  BY DEF Logged
<1>6. \A i \in 1..(count + 1) : after[i].type = Trail[i]
  <2> TAKE i \in 1..(count + 1)
  <2>1. CASE i = count + 1
    BY <1>3, <2>1
  <2>2. CASE i # count + 1
    <3>1. i \in 1..count
      BY <2>2
    <3> QED BY <1>2, <1>4, <3>1
  <2> QED BY <2>1, <2>2
<1>7. \A i \in 2..(count + 1) : after[i].denied = denied
  <2> TAKE i \in 2..(count + 1)
  <2>1. CASE i = count + 1
    BY <1>3, <2>1
  <2>2. CASE i # count + 1
    <3>1. i \in 1..count /\ i \in 2..count
      BY <2>2
    <3> QED BY <1>2, <1>5, <3>1
  <2> QED BY <2>1, <2>2
<1>8. store'.log[n] = after
  BY DEF after
<1> QED BY <1>1, <1>6, <1>7, <1>8 DEF Logged

\* A step that is not one of the service's answers leads to the next.
Plain(step) ==
    /\ step \notin {"ask", "answer", "plan"}
    /\ step = "claim" => exec.turn \in store'.claimed
    /\ step = "violation" => exec.turn \in store'.denied
    /\ step = "broker" => exec.turn \in crossed'
    /\ step # "broker" => crossed' = crossed
LEMMA KnownNext ==
    ASSUME NEW s \in Scripts, NEW k \in 1..Length(s), StepFacts(s, k), Plain(StepsOf(s)[k]),
           Known(s, k), Advances, LoopSame, SamePapers, Records, crossed \subseteq crossed',
           Logged(exec.turn, Written(s)[k + 1], exec.denied)'
    PROVE  Known(s, k + 1)'
<1> DEFINE n == exec.turn
<1>1. exec'.turn = n /\ exec'.tool = exec.tool /\ exec'.denied = exec.denied
  BY DEF Advances, SameRun
<1>2. Length(s) \in 2..7 /\ Len(StepsOf(s)) = Length(s)
  BY EveryScript DEF Length
<1>3. Length("research") = 7 /\ Length("broker") = 6
  BY ResearchScript, BrokerScript DEF ScriptFacts
<1>4. ~(s = "research" /\ k \in {5, 6, 7}) /\ ~(s = "broker" /\ k = 6)
  BY DEF StepFacts, Plain
<1>5. s \in {"research", "broker"} => k + 1 <= Length(s)
  BY <1>3, <1>4
<1>6. ~Busy /\ ~Busy'
  <2>1. ~Busy
    BY <1>4 DEF Known
  <2> QED BY <2>1 DEF Busy, LoopSame
<1>7. s \in {"research", "broker"} => n \in store'.claimed
  <2>1. CASE k = 1
    BY <2>1 DEF StepFacts, Plain
  <2>2. CASE k > 1
    BY <2>2 DEF Known, Records
  <2> QED BY <2>1, <2>2
<1>8. s \in {"research", "broker"} /\ StepsOf(s)[k + 1] = "plan" => s = "broker" /\ n \in crossed'
  <2>1. SUFFICES ASSUME s \in {"research", "broker"}, StepsOf(s)[k + 1] = "plan"
                 PROVE  s = "broker" /\ n \in crossed'
    OBVIOUS
  <2>2. k + 1 \in 1..Length(s)
    BY <1>2, <1>5, <2>1
  <2>3. StepFacts(s, k + 1)
    BY <2>2, EveryScript
  <2>4. (s = "research" /\ k + 1 = 7) \/ (s = "broker" /\ k + 1 = 6)
    BY <2>1, <2>3 DEF StepFacts
  <2>5. s = "broker" /\ k = 5
    BY <1>4, <2>4
  <2> QED BY <2>5 DEF StepFacts, Plain
<1>9. s \in {"success", "denial"} => n \in store'.claimed
  BY DEF Known, Records
<1>10. Accounted(n) => Accounted(n)'
  BY <1>1 DEF Accounted, SamePapers
<1>11. s = "success" => n \in crossed' /\ (exec.tool = "research" => Accounted(n)')
  <2>1. s = "success" => n \in crossed /\ (exec.tool = "research" => Accounted(n))
    BY DEF Known
  <2>2. Accounted(n) => Accounted(n)'
    BY <1>10
  <2> QED BY <2>1, <2>2
<1>12. s = "refusal" => n \in store'.denied
  <2>1. CASE k = 1
    BY <2>1 DEF StepFacts, Plain
  <2>2. CASE k > 1
    BY <2>2 DEF Known, Records
  <2> QED BY <2>1, <2>2
<1>13. s # "broker" => crossed' = crossed
  BY DEF StepFacts, Plain
<1>14. s = "research" /\ k + 1 <= 5 => n \notin crossed'
  BY <1>13 DEF Known
<1>15. s \in {"denial", "refusal"} /\ exec.tool = "research" => n \notin crossed'
  BY <1>13 DEF Known
<1> QED BY <1>1, <1>2, <1>4, <1>5, <1>6, <1>7, <1>8, <1>9, <1>11, <1>12, <1>14, <1>15 DEF Known
LEMMA QuietAdvance ==
    ASSUME ExecOK, NEW step, Doing(step), step # "interrupt", step \notin AuditEvents,
           Plain(step), Advances, LoopSame, SamePapers, Records, crossed \subseteq crossed',
           store'.log = store.log
    PROVE  ExecOK' /\ ~Busy
<1>1. PICK s \in Scripts : \E k \in 1..Length(s) :
              Placed(s, k) /\ Known(s, k) /\ StepsOf(s)[k] = step /\ StepFacts(s, k)
  BY Here
<1>2. PICK k \in 1..Length(s) :
              Placed(s, k) /\ Known(s, k) /\ StepsOf(s)[k] = step /\ StepFacts(s, k)
  BY <1>1
<1>3. Length(s) \in 2..7
  BY EveryScript
<1>4. Placed(s, k + 1)'
  BY <1>2, PlacedNext
<1>5. Logged(exec.turn, Written(s)[k + 1], exec.denied)'
  <2>1. Written(s)[k + 1] = Written(s)[k]
    BY <1>2 DEF StepFacts
  <2>2. PICK n, denied : n = exec.turn /\ denied = exec.denied
    OBVIOUS
  <2>3. Logged(n, Written(s)[k], denied)
    BY <1>2, <2>2 DEF Known
  <2>4. Logged(n, Written(s)[k], denied)'
    BY <2>3, LoggedStays
  <2>5. exec'.turn = n /\ exec'.denied = denied
    BY <2>2 DEF Advances, SameRun
  <2> QED BY <2>1, <2>4, <2>5
<1>6. Known(s, k + 1)'
  BY <1>2, <1>5, KnownNext
<1>7. ExecOK'
  BY <1>3, <1>4, <1>6, PlacedExec
<1>8. ~Busy
  BY <1>2 DEF Known, StepFacts, Plain
<1> QED BY <1>7, <1>8

LEMMA AuditAdvance ==
    ASSUME ShapeOK, ExecOK, NEW step \in AuditEvents, Doing(step), NEW event,
           event = [type |-> step, denied |-> exec.denied],
           Advances, LoopSame, SamePapers, Records, crossed' = crossed,
           store'.log[exec.turn] = Append(store.log[exec.turn], event)
    PROVE  ExecOK' /\ ~Busy /\ event \in Events
<1>0. step \notin {"ask", "answer", "plan", "claim", "violation", "broker", "interrupt"}
  BY DEF AuditEvents
<1>1. PICK s \in Scripts : \E k \in 1..Length(s) :
              Placed(s, k) /\ Known(s, k) /\ StepsOf(s)[k] = step /\ StepFacts(s, k)
  BY <1>0, Here
<1>2. PICK k \in 1..Length(s) :
              Placed(s, k) /\ Known(s, k) /\ StepsOf(s)[k] = step /\ StepFacts(s, k)
  BY <1>1
<1>3. Length(s) \in 2..7
  BY EveryScript
<1>4. Placed(s, k + 1)'
  BY <1>2, PlacedNext
<1>5. exec.denied \in BOOLEAN /\ event \in Events
  <2>1. exec.denied \in BOOLEAN
    BY <1>2 DEF Placed
  <2> QED BY <2>1 DEF Events
<1>6. Logged(exec.turn, Written(s)[k + 1], exec.denied)'
  <2>1. PICK n, denied, log : n = exec.turn /\ denied = exec.denied /\ log = store.log[n]
    OBVIOUS
  <2>2. n \in Turns /\ denied \in BOOLEAN /\ log \in Seq(Events)
    BY <1>5, <2>1 DEF ShapeOK
  <2>3. PICK count : count = Written(s)[k]
    OBVIOUS
  <2>4. count \in 0..3 /\ Written(s)[k + 1] = count + 1 /\ step = Trail[count + 1]
    BY <1>2, <2>3 DEF StepFacts
  <2>5. Logged(n, count, denied)
    BY <1>2, <2>1, <2>3 DEF Known
  <2>6. event.type = Trail[count + 1] /\ event.denied = denied
    BY <2>1, <2>4
  <2>7. store'.log[n] = Append(log, event)
    BY <2>1
  <2>8. Logged(n, count + 1, denied)'
    <3> HIDE DEF Events
    <3> QED BY <1>5, <2>1, <2>2, <2>4, <2>5, <2>6, <2>7, LoggedGrows
  <2>9. exec'.turn = n /\ exec'.denied = denied
    BY <2>1 DEF Advances, SameRun
  <2> QED BY <2>4, <2>8, <2>9
<1>7. Plain(StepsOf(s)[k])
  BY <1>0, <1>2 DEF Plain
<1>8. Known(s, k + 1)'
  BY <1>2, <1>6, <1>7, KnownNext
<1>9. ExecOK'
  BY <1>3, <1>4, <1>8, PlacedExec
<1>10. ~Busy
  BY <1>0, <1>2 DEF Known, StepFacts
<1> QED BY <1>5, <1>9, <1>10

\* The turns of an external execution to what it says of its result.
LEMMA WrittenIs ==
    /\ Written("success")[1] = 1 /\ Written("denial")[1] = 1
    /\ Written("research")[6] = 1 /\ Written("research")[7] = 1
    /\ Written("broker")[4] = 1 /\ Written("broker")[5] = 1 /\ Written("broker")[6] = 1
  BY DEF Written
LEMMA LoggedOne ==
    ASSUME NEW n, NEW denied, NEW other, Logged(n, 1, denied), store'.log[n] = store.log[n]
    PROVE  Logged(n, 1, other)'
  BY DEF Logged

LEMMA ToDenial ==
    ASSUME ExecOK, NEW step, Doing(step), step \in {"target", "broker", "answer"},
           Redirected("denial"), LoopSame, SamePapers, Records, store'.log = store.log,
           exec.tool = "research" => crossed' = crossed, ~Busy,
           exec.tool = "research" => exec.turn \notin crossed
    PROVE  ExecOK'
<1>1. PICK s \in Scripts : \E k \in 1..Length(s) :
              Placed(s, k) /\ Known(s, k) /\ StepsOf(s)[k] = step /\ StepFacts(s, k)
  BY Here
<1>2. PICK k \in 1..Length(s) :
              Placed(s, k) /\ Known(s, k) /\ StepsOf(s)[k] = step /\ StepFacts(s, k)
  BY <1>1
<1>3. (s = "research" /\ k = 6) \/ (s = "broker" /\ k = 4) \/ (s = "broker" /\ k = 5)
  BY <1>2 DEF StepFacts
<1>4. exec.tool \in ToolsOf("denial") /\ "denial" \in Scripts
  BY <1>2, <1>3 DEF Placed, ToolsOf, External, Scripts
<1>5. Placed("denial", 1)'
  BY <1>4, PlacedFirst
<1>6. exec.turn \in store.claimed
  BY <1>2, <1>3 DEF Known
<1>7. Written(s)[k] = 1
  BY <1>3, WrittenIs
<1>8. Logged(exec.turn, 1, exec.denied)
  BY <1>2, <1>7 DEF Known
<1>9. Logged(exec.turn, Written("denial")[1], exec.denied)'
  <2>1. PICK n, denied, other : n = exec.turn /\ denied = exec.denied /\ other = exec'.denied
    OBVIOUS
  <2>2. Logged(n, 1, other)'
    BY <1>8, <2>1, LoggedOne
  <2>3. exec'.turn = n
    BY <2>1 DEF Redirected, SameRun
  <2> QED BY <2>1, <2>2, <2>3, WrittenIs
<1>10. exec'.turn = exec.turn /\ exec'.tool = exec.tool
  BY DEF Redirected, SameRun
<1>11. ~Busy'
  BY DEF Busy, LoopSame
<1>12. exec'.turn \in store'.claimed /\ (exec'.tool = "research" => exec'.turn \notin crossed')
  BY <1>6, <1>10 DEF Records
<1>13. Known("denial", 1)'
  BY <1>9, <1>11, <1>12 DEF Known
<1>14. 1 \in 1..Length("denial") + 1
  BY EveryScript, <1>4
<1> QED BY <1>4, <1>5, <1>13, <1>14, PlacedExec

LEMMA ToSuccess ==
    ASSUME ExecOK, Doing("plan"), Redirected("success"), LoopSame, store' = store,
           crossed' = crossed
    PROVE  ExecOK' /\ ~Busy
<1>1. PICK s \in Scripts : \E k \in 1..Length(s) :
              Placed(s, k) /\ Known(s, k) /\ StepsOf(s)[k] = "plan" /\ StepFacts(s, k)
  BY Here
<1>2. PICK k \in 1..Length(s) :
              Placed(s, k) /\ Known(s, k) /\ StepsOf(s)[k] = "plan" /\ StepFacts(s, k)
  BY <1>1
<1>3. (s = "research" /\ k = 7) \/ (s = "broker" /\ k = 6)
  BY <1>2 DEF StepFacts
<1>4. exec.tool \in ToolsOf("success") /\ "success" \in Scripts
  BY <1>2, <1>3 DEF Placed, ToolsOf, External, Scripts
<1>5. Placed("success", 1)'
  BY <1>4, PlacedFirst
<1>6. exec.turn \in store.claimed /\ exec.turn \in crossed
  BY <1>2, <1>3 DEF Known
<1>7. Written(s)[k] = 1
  BY <1>3, WrittenIs
<1>8. Logged(exec.turn, 1, exec.denied)
  BY <1>2, <1>7 DEF Known
<1>9. Logged(exec.turn, Written("success")[1], exec.denied)'
  <2>1. PICK n, denied, other : n = exec.turn /\ denied = exec.denied /\ other = exec'.denied
    OBVIOUS
  <2>2. Logged(n, 1, other)'
    BY <1>8, <2>1, LoggedOne
  <2>3. exec'.turn = n
    BY <2>1 DEF Redirected, SameRun
  <2> QED BY <2>1, <2>2, <2>3, WrittenIs
<1>10. exec'.turn = exec.turn /\ exec'.tool = exec.tool
  BY DEF Redirected, SameRun
<1>11. ~Busy /\ ~Busy'
  <2>1. ~Busy
    BY <1>2, <1>3 DEF Known
  <2> QED BY <2>1 DEF Busy, LoopSame
<1>12. exec.tool = "research" => Accounted(exec.turn)
  <2>1. exec.tool = "research" => s = "research"
    BY <1>2, <1>3 DEF Placed, ToolsOf
  <2> QED BY <1>2, <2>1 DEF Known
<1>13. exec'.tool = "research" => Accounted(exec.turn)'
  BY <1>10, <1>12 DEF Accounted
<1>14. exec'.turn \in store'.claimed /\ exec'.turn \in crossed'
  BY <1>6, <1>10
<1>15. Known("success", 1)'
  BY <1>9, <1>11, <1>13, <1>14 DEF Known
<1>16. 1 \in 1..Length("success") + 1
  BY EveryScript, <1>4
<1> QED BY <1>4, <1>5, <1>11, <1>15, <1>16, PlacedExec
-----------------------------------------------------------------------------
(* The dispatcher's actions.                                                *)

LEMMA RunKeeps ==
    ASSUME TurnsInv, RunStep, ExecOK'
    PROVE  TurnsInv'
  BY RunShape, RunLoop, RunService, RunTold DEF TurnsInv

LEMMA DoingRuns ==
    ASSUME NEW step, Doing(step)
    PROVE  Running
  BY DEF Doing, Running

LEMMA FailKeeps ==
    ASSUME TurnsInv, Running, Failed, StoreGrows(exec.turn), Crossing, LoopSame
    PROVE  TurnsInv'
<1>1. RunStep
  BY DEF RunStep, Failed
<1> QED BY <1>1, FailedExec, RunKeeps

\* A failure that records nothing of the trail.
LEMMA FailQuietly ==
    ASSUME TurnsInv, Running, Failed, SameLog, crossed' = crossed, LoopSame
    PROVE  TurnsInv'
<1>1. exec.turn \in Turns
  BY DEF TurnsInv, ShapeOK
<1>2. StoreGrows(exec.turn)
  BY <1>1, SameLogGrows DEF TurnsInv
<1> QED BY <1>2, FailKeeps DEF Crossing

LEMMA StepKeeps ==
    ASSUME TurnsInv, NEW step, Doing(step), step # "interrupt", step \notin AuditEvents,
           Plain(step), Advances, SameLog, Crossing, LoopSame
    PROVE  TurnsInv'
<1>1. exec.turn \in Turns
  BY DEF TurnsInv, ShapeOK
<1>2. StoreGrows(exec.turn)
  BY <1>1, SameLogGrows DEF TurnsInv
<1>3. SamePapers /\ Records /\ store'.log = store.log
  BY DEF SameLog
<1>4. crossed \subseteq crossed'
  BY DEF Crossing
<1>5. ExecOK' /\ ~Busy
  BY <1>3, <1>4, QuietAdvance DEF TurnsInv
<1>6. RunStep
  BY <1>2, <1>5, DoingRuns DEF RunStep, Advances
<1> QED BY <1>5, <1>6, RunKeeps

\* The steps that call nobody: on, or the execution fails.
LEMMA LocalKeeps ==
    ASSUME TurnsInv, NEW step, Doing(step), step # "interrupt", step \notin AuditEvents,
           step \notin {"ask", "answer", "plan", "claim", "violation", "broker"},
           Continues \/ \E reason : Fails(reason),
           UNCHANGED <<store, loop, service, crossed>>
    PROVE  TurnsInv'
<1>1. SameLog /\ LoopSame /\ Running
  BY StoreSameLog, DoingRuns DEF LoopSame
<1>2. CASE Continues
  <2>1. Advances
    BY <1>1, <1>2, ContinuesAdvances DEF TurnsInv
  <2>2. Plain(step) /\ Crossing
    BY DEF Plain, Crossing
  <2> QED BY <1>1, <2>1, <2>2, StepKeeps
<1>3. CASE \E reason : Fails(reason)
  <2>1. Failed
    BY <1>1, <1>3, FailsFailed DEF TurnsInv
  <2> QED BY <1>1, <2>1, FailQuietly
<1> QED BY <1>2, <1>3

LEMMA ReadBudgetKeeps ==
    ASSUME TurnsInv, ReadBudget
    PROVE  TurnsInv'
<1>1. Doing("budget") /\ UNCHANGED <<store, loop, service, crossed>>
  BY DEF ReadBudget
<1>2. Continues \/ \E reason : Fails(reason)
  BY DEF ReadBudget
<1> QED BY <1>1, <1>2, LocalKeeps DEF AuditEvents
LEMMA MakeValueKeeps ==
    ASSUME TurnsInv, MakeValue
    PROVE  TurnsInv'
<1>1. Doing("value") /\ UNCHANGED <<store, loop, service, crossed>>
  BY DEF MakeValue
<1>2. Continues \/ \E reason : Fails(reason)
  BY DEF MakeValue
<1> QED BY <1>1, <1>2, LocalKeeps DEF AuditEvents
LEMMA RunCommandKeeps ==
    ASSUME TurnsInv, RunCommand
    PROVE  TurnsInv'
<1>1. Doing("command") /\ UNCHANGED <<store, loop, service, crossed>>
  BY DEF RunCommand
<1>2. Continues \/ \E reason : Fails(reason)
  BY DEF RunCommand
<1> QED BY <1>1, <1>2, LocalKeeps DEF AuditEvents
LEMMA CheckSessionKeeps ==
    ASSUME TurnsInv, CheckSession
    PROVE  TurnsInv'
<1>1. Doing("session") /\ UNCHANGED <<store, loop, service, crossed>>
  BY DEF CheckSession
<1>2. Continues \/ \E reason : Fails(reason)
  BY DEF CheckSession
<1> QED BY <1>1, <1>2, LocalKeeps DEF AuditEvents
LEMMA ResearchOpenedKeeps ==
    ASSUME TurnsInv, ResearchOpened
    PROVE  TurnsInv'
<1>1. Doing("open") /\ UNCHANGED <<store, loop, service, crossed>>
  BY DEF ResearchOpened
<1>2. Continues \/ \E reason : Fails(reason)
  BY DEF ResearchOpened
<1> QED BY <1>1, <1>2, LocalKeeps DEF AuditEvents

LEMMA ClientGivesUpKeeps ==
    ASSUME TurnsInv, ClientGivesUp
    PROVE  TurnsInv'
<1>1. Doing("answer") /\ UNCHANGED <<store, loop, service, crossed>> /\ Fails("tool_unavailable")
  BY DEF ClientGivesUp, GivesUp
<1>2. SameLog /\ LoopSame /\ Running
  BY <1>1, StoreSameLog, DoingRuns DEF LoopSame
<1>3. Failed
  BY <1>1, <1>2, FailsFailed DEF TurnsInv
<1> QED BY <1>1, <1>2, <1>3, FailQuietly

LEMMA ClaimKeeps ==
    ASSUME TurnsInv, Claim
    PROVE  TurnsInv'
<1>1. PICK step \in {"claim", "consume"} : Doing(step)
  BY DEF Claim, DoingAny
<1>2. Running /\ LoopSame /\ crossed' = crossed /\ ShapeOK
  BY <1>1, DoingRuns DEF Claim, LoopSame, TurnsInv
<1>3. CASE Served(WithClaim(exec.turn)) /\ Continues
  <2>1. SameLog /\ exec.turn \in store'.claimed
    BY <1>2, <1>3, ClaimSameLog DEF Served
  <2>2. Advances
    BY <1>2, <1>3, ContinuesAdvances
  <2>3. Plain(step) /\ Crossing
    BY <1>2, <2>1 DEF Plain, Crossing
  <2>4. step # "interrupt" /\ step \notin AuditEvents
    BY DEF AuditEvents
  <2> QED BY <1>1, <1>2, <2>1, <2>2, <2>3, <2>4, StepKeeps
<1>4. CASE store' \in {store, Touched, WithClaim(exec.turn)} /\ Failed
  <2>1. SameLog
    BY <1>2, <1>4, StoreSameLog, TouchedSameLog, ClaimSameLog
  <2> QED BY <1>2, <1>4, <2>1, FailQuietly
<1>5. \/ Served(WithClaim(exec.turn)) /\ Continues
      \/ /\ store' \in {store, Touched, WithClaim(exec.turn)}
         /\ (\E reason : Fails(reason)) \/ (\E reason : exec' = Thrown(exec, reason))
  BY DEF Claim, Served, Lost
<1>6. (\E reason : Fails(reason)) \/ (\E reason : exec' = Thrown(exec, reason)) => Failed
  BY <1>2, FailsFailed, ThrownFailed
<1> QED BY <1>3, <1>4, <1>5, <1>6

LEMMA RecordViolationKeeps ==
    ASSUME TurnsInv, RecordViolation
    PROVE  TurnsInv'
<1>1. Doing("violation")
  BY DEF RecordViolation
<1>2. Running /\ LoopSame /\ crossed' = crossed /\ ShapeOK
  BY <1>1, DoingRuns DEF RecordViolation, LoopSame, TurnsInv
<1>3. CASE /\ Served(WithViolation(exec.turn, FALSE))
           /\ exec' = [Onward(exec) EXCEPT !.revoked = store'.status = "revoked"]
  <2>1. SameLog /\ exec.turn \in store'.denied
    BY <1>2, <1>3, ViolationSameLog DEF Served
  <2>2. Advances
    BY <1>2, <1>3 DEF ShapeOK, Running, Onward, Advances, SameRun
  <2>3. Plain("violation") /\ Crossing
    BY <1>2, <2>1 DEF Plain, Crossing
  <2> QED BY <1>1, <1>2, <2>1, <2>2, <2>3, StepKeeps DEF AuditEvents
<1>4. CASE /\ store' \in {store, Touched, WithViolation(exec.turn, FALSE)}
           /\ \E reason : exec' = Thrown(exec, reason)
  <2>1. SameLog
    BY <1>2, <1>4, StoreSameLog, TouchedSameLog, ViolationSameLog
  <2>2. Failed
    BY <1>2, <1>4, ThrownFailed
  <2> QED BY <1>2, <2>1, <2>2, FailQuietly
<1>5. \/ /\ Served(WithViolation(exec.turn, FALSE))
         /\ exec' = [Onward(exec) EXCEPT !.revoked = store'.status = "revoked"]
      \/ /\ store' \in {store, Touched, WithViolation(exec.turn, FALSE)}
         /\ \E reason : exec' = Thrown(exec, reason)
  BY DEF RecordViolation, Served, Lost
<1> QED BY <1>3, <1>4, <1>5

LEMMA InterruptKeeps ==
    ASSUME TurnsInv, Interrupt
    PROVE  TurnsInv'
<1>1. Running /\ LoopSame /\ crossed' = crossed /\ ShapeOK
  BY DoingRuns DEF Interrupt, LoopSame, TurnsInv
<1>2. /\ store' \in {store, WithInterruption}
      /\ \E reason : exec' = Thrown(exec, reason)
  BY DEF Interrupt, Served, Lost
<1>3. SameLog
  BY <1>1, <1>2, StoreSameLog, InterruptionSameLog
<1>4. Failed
  BY <1>1, <1>2, ThrownFailed
<1> QED BY <1>1, <1>3, <1>4, FailQuietly
LEMMA AuditKeeps ==
    ASSUME TurnsInv, Audit
    PROVE  TurnsInv'
<1>1. PICK step \in AuditEvents : Doing(step)
  BY DEF Audit, DoingAny
<1>2. PICK event : event = [type |-> Head(exec.todo), denied |-> exec.denied]
  OBVIOUS
<1>3. event = [type |-> step, denied |-> exec.denied]
  BY <1>1, <1>2 DEF Doing
<1>4. Running /\ LoopSame /\ crossed' = crossed /\ ShapeOK /\ exec.turn \in Turns
  BY <1>1, DoingRuns DEF Audit, LoopSame, TurnsInv, ShapeOK
<1>5. \/ Served(WithEvent(exec.turn, event)) /\ Continues
      \/ /\ store' \in {store, WithEvent(exec.turn, event)}
         /\ Fails("authority_unavailable")
  BY <1>2 DEF Audit, Served, Lost
<1>6. CASE Served(WithEvent(exec.turn, event)) /\ Continues
  <2>1. Wrote(exec.turn, event)
    BY <1>4, <1>6, EventWrote DEF Served
  <2>2. Advances
    BY <1>4, <1>6, ContinuesAdvances
  <2>3. event \in Events
    <3>1. exec.denied \in BOOLEAN
      <4>1. step # "interrupt"
        BY DEF AuditEvents
      <4>2. \E s \in Scripts : \E k \in 1..Length(s) : Placed(s, k)
        BY <1>1, <4>1, Here DEF TurnsInv
      <4> QED BY <4>2 DEF Placed
    <3> QED BY <1>3, <3>1 DEF Events
  <2>4. StoreGrows(exec.turn) /\ store'.log[exec.turn] = Append(store.log[exec.turn], event)
    BY <1>4, <2>1, <2>3, WroteGrows
  <2>5. SamePapers /\ Records
    BY <2>1 DEF Wrote
  <2>6. ExecOK' /\ ~Busy
    BY <1>1, <1>3, <1>4, <2>2, <2>4, <2>5, AuditAdvance DEF TurnsInv
  <2>7. RunStep
    BY <1>4, <2>2, <2>4, <2>6 DEF RunStep, Advances, Crossing
  <2> QED BY <2>6, <2>7, RunKeeps
<1>7. CASE store' \in {store, WithEvent(exec.turn, event)} /\ Fails("authority_unavailable")
  <2>1. Failed
    BY <1>4, <1>7, FailsFailed
  <2>2. CASE store' = store
    BY <1>4, <2>1, <2>2, StoreSameLog, FailQuietly
  <2>3. CASE store' = WithEvent(exec.turn, event)
    <3>1. Wrote(exec.turn, event)
      BY <1>4, <2>3, EventWrote
    <3>2. event \in Events
      <4>1. step # "interrupt"
        BY DEF AuditEvents
      <4>2. \E s \in Scripts : \E k \in 1..Length(s) : Placed(s, k)
        BY <1>1, <4>1, Here DEF TurnsInv
      <4>3. exec.denied \in BOOLEAN
        BY <4>2 DEF Placed
      <4> QED BY <1>3, <4>3 DEF Events
    <3>3. StoreGrows(exec.turn)
      BY <1>4, <3>1, <3>2, WroteGrows
    <3> QED BY <1>4, <2>1, <3>3, FailKeeps DEF Crossing
  <2> QED BY <1>7, <2>2, <2>3
<1> QED BY <1>5, <1>6, <1>7

LEMMA ReadPlanKeeps ==
    ASSUME TurnsInv, ReadPlan
    PROVE  TurnsInv'
<1>1. /\ Doing("plan") /\ UNCHANGED <<store, loop, service, crossed>>
      /\ exec' = Turning(exec, SuccessSteps) \/ Fails("tool_unavailable")
  BY DEF ReadPlan
<1>2. SameLog /\ LoopSame /\ Running /\ ShapeOK /\ exec.turn \in Turns
  BY <1>1, StoreSameLog, DoingRuns DEF LoopSame, TurnsInv, ShapeOK
<1>3. CASE Fails("tool_unavailable")
  <2>1. Failed
    BY <1>2, <1>3, FailsFailed
  <2> QED BY <1>1, <1>2, <2>1, FailQuietly
<1>4. CASE exec' = Turning(exec, SuccessSteps)
  <2>1. exec.denied = FALSE
    <3>1. PICK s \in Scripts : \E k \in 1..Length(s) :
              Placed(s, k) /\ Known(s, k) /\ StepsOf(s)[k] = "plan" /\ StepFacts(s, k)
      BY <1>1, Here DEF TurnsInv
    <3> QED BY <3>1 DEF StepFacts, Placed, Denials
  <2>2. Redirected("success")
    BY <1>2, <1>4, <2>1, TurningRedirects
  <2>3. ExecOK' /\ ~Busy
    BY <1>1, <1>2, <2>2, ToSuccess DEF TurnsInv
  <2>4. StoreGrows(exec.turn)
    BY <1>2, SameLogGrows
  <2>5. RunStep
    BY <1>1, <1>2, <2>2, <2>3, <2>4 DEF RunStep, Redirected, Crossing
  <2> QED BY <2>3, <2>5, RunKeeps
<1> QED BY <1>1, <1>3, <1>4

\* A denial by the broker or the service.
LEMMA DenialKeeps ==
    ASSUME TurnsInv, NEW step, Doing(step), step \in {"target", "broker", "answer"},
           Redirected("denial"), UNCHANGED <<store, loop, service>>, Crossing, ~Busy,
           exec.tool = "research" => crossed' = crossed /\ exec.turn \notin crossed
    PROVE  TurnsInv'
<1>1. SameLog /\ LoopSame /\ Running /\ ShapeOK /\ exec.turn \in Turns
  BY StoreSameLog, DoingRuns DEF LoopSame, TurnsInv, ShapeOK
<1>2. ExecOK'
  BY <1>1, ToDenial DEF TurnsInv, SameLog
<1>3. StoreGrows(exec.turn)
  BY <1>1, SameLogGrows
<1>4. RunStep
  BY <1>1, <1>3 DEF RunStep, Redirected
<1> QED BY <1>2, <1>4, RunKeeps

\* The broker's steps run for other tools, while the research service rests.
LEMMA BrokerResting ==
    ASSUME ExecOK, NEW step, Doing(step), step \in {"target", "broker"}
    PROVE  ~Busy /\ exec.tool # "research"
<1>1. PICK s \in Scripts : \E k \in 1..Length(s) :
              Placed(s, k) /\ Known(s, k) /\ StepsOf(s)[k] = step /\ StepFacts(s, k)
  BY Here
<1>2. PICK k \in 1..Length(s) :
              Placed(s, k) /\ Known(s, k) /\ StepsOf(s)[k] = step /\ StepFacts(s, k)
  BY <1>1
<1>3. s = "broker"
  BY <1>2 DEF StepFacts
<1> QED BY <1>2, <1>3 DEF Known, Placed, ToolsOf

LEMMA FindTargetKeeps ==
    ASSUME TurnsInv, FindTarget
    PROVE  TurnsInv'
<1>1. /\ Doing("target") /\ UNCHANGED <<store, loop, service, crossed>>
      /\ \/ Continues \/ \E reason : Fails(reason)
         \/ exec' = Denying(exec, DenialSteps)
  BY DEF FindTarget
<1>2. CASE Continues \/ \E reason : Fails(reason)
  BY <1>1, <1>2, LocalKeeps DEF AuditEvents
<1>3. CASE exec' = Denying(exec, DenialSteps)
  <2>1. Redirected("denial")
    BY <1>1, <1>3, DenyingRedirects, DoingRuns DEF TurnsInv
  <2>2. ~Busy /\ exec.tool # "research"
    BY <1>1, BrokerResting DEF TurnsInv
  <2> QED BY <1>1, <2>1, <2>2, DenialKeeps DEF Crossing
<1> QED BY <1>1, <1>2, <1>3

LEMMA AskBrokerKeeps ==
    ASSUME TurnsInv, AskBroker
    PROVE  TurnsInv'
<1>1. /\ Doing("broker") /\ UNCHANGED <<store, loop, service>>
      /\ \/ Continues /\ crossed' = crossed \cup {exec.turn}
         \/ /\ exec' = Denying(exec, DenialSteps) \/ Fails("tool_unavailable")
            /\ crossed' \in {crossed, crossed \cup {exec.turn}}
  BY DEF AskBroker, BrokerUnheard
<1>2. ~Busy /\ exec.tool # "research"
  BY <1>1, BrokerResting DEF TurnsInv
<1>3. Crossing
  BY <1>1, <1>2 DEF Crossing
<1>4. SameLog /\ LoopSame /\ Running /\ ShapeOK /\ exec.turn \in Turns
  BY <1>1, StoreSameLog, DoingRuns DEF LoopSame, TurnsInv, ShapeOK
<1>5. CASE Continues /\ crossed' = crossed \cup {exec.turn}
  <2>1. Advances
    BY <1>4, <1>5, ContinuesAdvances
  <2>2. Plain("broker")
    BY <1>5 DEF Plain
  <2> QED BY <1>1, <1>3, <1>4, <2>1, <2>2, StepKeeps DEF AuditEvents
<1>6. CASE exec' = Denying(exec, DenialSteps)
  <2>1. Redirected("denial")
    BY <1>4, <1>6, DenyingRedirects
  <2> QED BY <1>1, <1>2, <1>3, <2>1, DenialKeeps
<1>7. CASE Fails("tool_unavailable")
  <2>1. Failed
    BY <1>4, <1>7, FailsFailed
  <2>2. StoreGrows(exec.turn)
    BY <1>4, SameLogGrows
  <2> QED BY <1>3, <1>4, <2>1, <2>2, FailKeeps
<1> QED BY <1>1, <1>5, <1>6, <1>7
LEMMA AskResearchKeeps ==
    ASSUME TurnsInv, AskResearch
    PROVE  TurnsInv'
<1> DEFINE n == exec.turn
<1>1. Doing("ask") /\ UNCHANGED <<store, loop, crossed>>
  BY DEF AskResearch
<1>2. Running /\ ShapeOK /\ LoopOK /\ ServiceOK /\ ExecOK /\ ToldOK /\ n \in Turns
  BY <1>1, DoingRuns DEF TurnsInv, ShapeOK
<1>3. CASE Fails("tool_unavailable") /\ UNCHANGED service
  <2>1. Failed
    BY <1>2, <1>3, FailsFailed
  <2>2. SameLog /\ LoopSame
    BY <1>1, <1>3, StoreSameLog DEF LoopSame
  <2> QED BY <1>1, <1>2, <2>1, <2>2, FailQuietly
<1>4. CASE /\ Continues
           /\ \E q \in Requests : service' = [at |-> "asked", turn |-> exec.turn, request |-> q,
                                              found |-> 0, reply |-> "none"]
  <2>1. /\ service'.at = "asked" /\ service'.turn = n /\ service'.request \in Requests
        /\ DOMAIN service' = {"at", "turn", "request", "found", "reply"}
    BY <1>4
  <2>2. Advances
    BY <1>2, <1>4, ContinuesAdvances
  <2>3. PICK s \in Scripts : \E k \in 1..Length(s) :
                Placed(s, k) /\ Known(s, k) /\ StepsOf(s)[k] = "ask" /\ StepFacts(s, k)
    BY <1>1, <1>2, Here
  <2>4. PICK k \in 1..Length(s) :
                Placed(s, k) /\ Known(s, k) /\ StepsOf(s)[k] = "ask" /\ StepFacts(s, k)
    BY <2>3
  <2>5. s = "research" /\ k = 5
    BY <2>4 DEF StepFacts
  <2>6. Length("research") = 7 /\ Len(StepsOf("research")) = 7 /\ "research" \in Scripts
    BY ResearchScript DEF ScriptFacts, Scripts, Length
  <2>7. Placed("research", 6)'
    BY <2>2, <2>4, <2>5, <2>6, PlacedNext
  <2>8. exec'.turn = n /\ exec'.tool = exec.tool /\ exec'.denied = exec.denied
    BY <2>2 DEF Advances, SameRun
  <2>9. exec'.state = "running"
    <3>1. exec'.state = IF 6 > Len(StepsOf("research")) THEN "returned" ELSE "running"
      BY <2>7 DEF Placed
    <3>2. ~(6 > Len(StepsOf("research")))
      BY <2>6
    <3> QED BY <3>1, <3>2
  <2>10. n \in store.claimed /\ n \notin crossed
    BY <2>4, <2>5 DEF Known
  <2>11. Logged(n, Written("research")[6], exec.denied)'
    <3>1. PICK m, denied : m = exec.turn /\ denied = exec.denied
      OBVIOUS
    <3>2. Written("research")[5] = 1 /\ Written("research")[6] = 1
      BY DEF Written
    <3>3. Logged(m, 1, denied)
      BY <2>4, <2>5, <3>1, <3>2 DEF Known
    <3>4. Logged(m, 1, denied)'
      BY <1>1, <3>3, LoggedStays
    <3> QED BY <2>8, <3>1, <3>2, <3>4
  <2>12. StepsOf("research")[6] # "plan"
    <3>1. StepFacts("research", 6)
      BY <2>6, EveryScript
    <3> QED BY <3>1 DEF StepFacts
  <2>13. Known("research", 6)'
    BY <1>1, <2>1, <2>6, <2>8, <2>10, <2>11, <2>12 DEF Known
  <2>14. ExecOK'
    BY <2>6, <2>7, <2>13, PlacedExec
  <2>15. ShapeOK'
    BY <1>1, <1>2, <2>1, <2>2, <2>9 DEF ShapeOK, Advances, SameRun
  <2>16. LoopOK'
    BY <1>1, <1>2, <2>8, <2>9 DEF LoopOK, Running
  <2>17. ServiceOK'
    <3>1. n = loop.turn
      BY <1>2 DEF LoopOK, Running
    <3>2. exec.tool = "research"
      BY <2>4, <2>5 DEF Placed, ToolsOf
    <3> QED BY <1>1, <1>2, <2>1, <2>8, <2>9, <2>10, <3>1, <3>2 DEF ServiceOK, Busy
  <2>18. ToldOK'
    <3>1. ToldFrame
      BY <1>1 DEF ToldFrame, Accounted
    <3> QED BY <1>2, <3>1, ToldStays
  <2> QED BY <2>14, <2>15, <2>16, <2>17, <2>18 DEF TurnsInv
<1> QED BY <1>3, <1>4 DEF AskResearch

LEMMA AnsweredKeeps ==
    ASSUME TurnsInv, Answered
    PROVE  TurnsInv'
<1>1. Doing("answer") /\ service.at = "replied" /\ UNCHANGED <<store, loop, service, crossed>>
  BY DEF Answered
<1>2. SameLog /\ LoopSame /\ Running /\ ShapeOK /\ LoopOK /\ ServiceOK /\ ExecOK /\ ToldOK
      /\ exec.turn \in Turns
  BY <1>1, StoreSameLog, DoingRuns DEF LoopSame, TurnsInv, ShapeOK
<1>3. ~Busy /\ Crossing
  BY <1>1 DEF Busy, Crossing
<1>4. PICK s \in Scripts : \E k \in 1..Length(s) :
              Placed(s, k) /\ Known(s, k) /\ StepsOf(s)[k] = "answer" /\ StepFacts(s, k)
  BY <1>1, <1>2, Here
<1>5. PICK k \in 1..Length(s) :
              Placed(s, k) /\ Known(s, k) /\ StepsOf(s)[k] = "answer" /\ StepFacts(s, k)
  BY <1>4
<1>6. s = "research" /\ k = 6
  BY <1>5 DEF StepFacts
<1>7. service.turn = exec.turn
  BY <1>5, <1>6 DEF Known
<1>8. CASE Fails("tool_unavailable")
  <2>1. Failed
    BY <1>2, <1>8, FailsFailed
  <2> QED BY <1>1, <1>2, <2>1, FailQuietly
<1>9. CASE service.reply \in PolicyRefusals /\ exec' = Denying(exec, DenialSteps)
  <2>1. Redirected("denial")
    BY <1>2, <1>9, DenyingRedirects
  <2>2. exec.turn \notin crossed
    BY <1>1, <1>2, <1>7, <1>9 DEF ServiceOK
  <2> QED BY <1>1, <1>3, <2>1, <2>2, DenialKeeps
<1>10. CASE service.reply = "evidence" /\ Continues
  <2>1. Accounted(exec.turn)
    BY <1>1, <1>2, <1>7, <1>10 DEF ServiceOK
  <2>2. Advances
    BY <1>2, <1>10, ContinuesAdvances
  <2>3. Length("research") = 7 /\ Len(StepsOf("research")) = 7 /\ "research" \in Scripts
    BY ResearchScript DEF ScriptFacts, Scripts, Length
  <2>4. Placed("research", 7)'
    BY <1>5, <1>6, <2>2, <2>3, PlacedNext
  <2>5. exec'.turn = exec.turn /\ exec'.tool = exec.tool /\ exec'.denied = exec.denied
    BY <2>2 DEF Advances, SameRun
  <2>6. exec.turn \in store.claimed
    BY <1>5, <1>6 DEF Known
  <2>7. Logged(exec.turn, Written("research")[7], exec.denied)'
    <3>1. PICK m, denied : m = exec.turn /\ denied = exec.denied
      OBVIOUS
    <3>2. Logged(m, 1, denied)
      BY <1>5, <1>6, <3>1, WrittenIs DEF Known
    <3>3. Logged(m, 1, denied)'
      BY <1>1, <3>2, LoggedStays
    <3> QED BY <2>5, <3>1, <3>3, WrittenIs
  <2>8. Accounted(exec.turn)'
    BY <1>1, <2>1, <2>5 DEF Accounted
  <2>9. ~Busy'
    BY <1>1 DEF Busy
  <2>10. Known("research", 7)'
    <3>1. 7 <= Len(StepsOf("research")) /\ exec'.turn \in store'.claimed /\ exec'.turn \in crossed'
      <4>1. exec.turn \in crossed
        BY <2>1 DEF Accounted
      <4>2. 7 <= Len(StepsOf("research"))
        <5>1. PICK len : len = Len(StepsOf("research"))
          OBVIOUS
        <5>2. len = 7
          BY <2>3, <5>1
        <5>3. 7 <= len
          BY <5>2
        <5> QED BY <5>1, <5>3
      <4>3. exec'.turn \in store'.claimed /\ exec'.turn \in crossed'
        BY <1>1, <2>5, <2>6, <4>1
      <4> QED BY <4>2, <4>3
    <3>2. "research" \notin {"success", "denial"} /\ "research" # "success" /\ "research" # "refusal"
          /\ ~(7 <= 5) /\ 7 # 6 /\ "research" \notin {"denial", "refusal"}
      OBVIOUS
    <3> QED BY <2>7, <2>8, <2>9, <3>1, <3>2 DEF Known
  <2>11. ExecOK'
    BY <2>3, <2>4, <2>10, PlacedExec
  <2>12. StoreGrows(exec.turn)
    BY <1>2, SameLogGrows
  <2>13. RunStep
    BY <1>2, <1>3, <2>2, <2>12 DEF RunStep, Advances
  <2> QED BY <2>11, <2>13, RunKeeps
<1>11. \/ Fails("tool_unavailable")
       \/ service.reply \in PolicyRefusals /\ exec' = Denying(exec, DenialSteps)
       \/ service.reply = "evidence" /\ Continues
  BY DEF Answered
<1> QED BY <1>8, <1>9, <1>10, <1>11
-----------------------------------------------------------------------------
(* The loop's moves that begin no turn and no execution, and the world's.   *)

\* The execution, the service and what is recorded of the turns stay.
Resting ==
    /\ DOMAIN exec' = DOMAIN exec /\ exec'.state = exec.state /\ exec'.turn = exec.turn
    /\ exec'.tool = exec.tool /\ exec'.todo = exec.todo /\ exec'.denied = exec.denied
    /\ UNCHANGED <<service, crossed>> /\ SameLog
LoopMove ==
    /\ DOMAIN loop' = DOMAIN loop
    /\ loop'.turn = loop.turn /\ loop'.told = loop.told /\ loop'.tools = loop.tools
    /\ \/ loop'.at = loop.at
       \/ loop'.at \in {"failing", "over"}
       \/ loop.at \in Asking /\ loop'.at \in Asking

LEMMA RestingExec ==
    ASSUME ExecOK, Resting
    PROVE  ExecOK'
<1>1. ASSUME NEW s \in Scripts, NEW k \in 1..Len(StepsOf(s)) + 1, Placed(s, k), Known(s, k)
      PROVE  Placed(s, k)' /\ Known(s, k)'
  <2>1. Placed(s, k)'
    BY <1>1 DEF Resting, Placed
  <2>2. Logged(exec.turn, Written(s)[k], exec.denied)'
    <3>1. Logged(exec.turn, Written(s)[k], exec.denied)
      BY <1>1 DEF Known
    <3> QED BY <3>1 DEF Logged, Resting, SameLog
  <2>3. Accounted(exec.turn) => Accounted(exec.turn)'
    BY DEF Accounted, Resting, SameLog, SamePapers
  <2>4. Busy' <=> Busy
    BY DEF Busy, Resting
  <2>5. /\ exec'.turn = exec.turn /\ exec'.tool = exec.tool /\ service' = service
        /\ crossed' = crossed /\ store.claimed \subseteq store'.claimed
        /\ store.denied \subseteq store'.denied
    BY DEF Resting, SameLog, Records
  <2>6. Known(s, k)'
    BY <1>1, <2>2, <2>3, <2>4, <2>5 DEF Known
  <2> QED BY <2>1, <2>6
<1>2. exec'.state = exec.state /\ exec'.todo = exec.todo
  BY DEF Resting
<1> QED BY <1>1, <1>2 DEF ExecOK, Failing

LEMMA LoopMoves ==
    ASSUME TurnsInv, Resting, LoopMove
    PROVE  TurnsInv'
<1>1. ShapeOK /\ LoopOK /\ ServiceOK /\ ExecOK /\ ToldOK
  BY DEF TurnsInv
<1>2. ExecOK'
  BY <1>1, RestingExec
<1>3. ShapeOK'
  BY <1>1 DEF ShapeOK, Resting, LoopMove, SameLog, SamePapers
<1>4. LoopOK'
  <2>1. /\ loop'.turn = loop.turn /\ loop'.told = loop.told /\ loop'.tools = loop.tools
        /\ exec'.state = exec.state /\ exec'.turn = exec.turn /\ exec'.tool = exec.tool
        /\ crossed' = crossed /\ store'.log = store.log
        /\ (loop'.at = "tool" => loop.at = "tool")
        /\ (loop'.at \in Asking => loop.at \in Asking)
        /\ (loop.at \in {"tool", "failing", "over"} => loop'.at \in {"tool", "failing", "over"})
    BY DEF Resting, LoopMove, SameLog, Asking
  <2> QED BY <1>1, <2>1 DEF LoopOK
<1>5. ServiceOK'
  <2>1. /\ loop'.turn = loop.turn /\ exec'.state = exec.state /\ exec'.turn = exec.turn
        /\ exec'.tool = exec.tool /\ service' = service /\ crossed' = crossed
        /\ store'.paid = store.paid /\ store'.open = store.open /\ store'.exposed = store.exposed
    BY DEF Resting, LoopMove, SameLog, SamePapers
  <2>2. Busy' <=> Busy
    BY <2>1 DEF Busy
  <2>3. Accounted(service.turn) => Accounted(service.turn)'
    BY <2>1 DEF Accounted
  <2> QED BY <1>1, <2>1, <2>2, <2>3 DEF ServiceOK
<1>6. ToldOK'
  <2>1. ToldFrame
    <3>1. ASSUME NEW t \in Turns PROVE Accounted(t) => Accounted(t)'
      BY DEF Accounted, Resting, SameLog, SamePapers
    <3>2. /\ store'.log = store.log /\ crossed' = crossed /\ loop'.told = loop.told
          /\ store.claimed \subseteq store'.claimed /\ store.denied \subseteq store'.denied
      BY DEF Resting, LoopMove, SameLog, Records
    <3> QED BY <3>1, <3>2 DEF ToldFrame
  <2> QED BY <1>1, <2>1, ToldStays
<1> QED BY <1>2, <1>3, <1>4, <1>5, <1>6 DEF TurnsInv

LEMMA WorldKeeps ==
    ASSUME TurnsInv, UNCHANGED <<loop, exec, service, crossed>>, SameLog
    PROVE  TurnsInv'
<1>1. Resting /\ LoopMove
  BY DEF Resting, LoopMove
<1> QED BY <1>1, LoopMoves
LEMMA LoopOnly ==
    ASSUME TurnsInv, UNCHANGED <<exec, service, crossed>>, SameLog, NEW at, NEW reason,
           at \in {"failing", "over"} \/ (loop.at \in Asking /\ at \in Asking),
           loop' = [loop EXCEPT !.at = at, !.reason = reason]
    PROVE  TurnsInv'
<1>1. Resting
  BY DEF Resting
<1>2. LoopMove
  BY DEF LoopMove, TurnsInv, ShapeOK
<1> QED BY <1>1, <1>2, LoopMoves
-----------------------------------------------------------------------------
(* The research service's steps, whether or not anybody still waits.        *)

ServiceMove ==
    /\ UNCHANGED <<loop, exec>> /\ Busy
    /\ DOMAIN service' = DOMAIN service /\ service'.turn = service.turn /\ service'.at # "idle"
    /\ DOMAIN store' = DOMAIN store /\ store'.log = store.log
    /\ store'.claimed = store.claimed /\ store'.denied = store.denied
    /\ \A t \in Turns \ {service.turn} :
        (t \in store'.exposed <=> t \in store.exposed) /\ (t \in store'.open <=> t \in store.open)
    /\ crossed' \in {crossed, crossed \cup {service.turn}}

LEMMA ServiceShape ==
    ASSUME ShapeOK, ServiceMove
    PROVE  ShapeOK'
  BY DEF ShapeOK, ServiceMove
LEMMA ServiceLoop ==
    ASSUME ShapeOK, LoopOK, ServiceOK, ServiceMove
    PROVE  LoopOK'
<1>1. loop' = loop /\ exec' = exec /\ store'.log = store.log
  BY DEF ServiceMove
<1>2. service.turn = loop.turn /\ service.turn = exec.turn /\ exec.state \in {"running", "threw"}
  BY DEF ServiceMove, ServiceOK
<1>3. loop.at \notin Asking
  BY <1>2 DEF LoopOK, Asking
<1>4. ASSUME NEW t \in Turns, t > loop.turn PROVE t \notin crossed'
  <2>1. t \notin crossed
    BY <1>4 DEF LoopOK
  <2>2. t # service.turn
    BY <1>2, <1>4 DEF ShapeOK, Turns
  <2> QED BY <2>1, <2>2 DEF ServiceMove
<1> QED BY <1>1, <1>3, <1>4 DEF LoopOK
LEMMA ServiceTold ==
    ASSUME ShapeOK, LoopOK, ServiceOK, ToldOK, ServiceMove
    PROVE  ToldOK'
<1>1. service.turn = loop.turn /\ loop' = loop
  BY DEF ServiceMove, ServiceOK
<1>2. ASSUME NEW t \in Turns, t < loop.turn
      PROVE  /\ store'.log[t] = store.log[t]
             /\ t \in store.claimed => t \in store'.claimed
             /\ t \in store.denied => t \in store'.denied
             /\ t \in crossed' <=> t \in crossed
             /\ Accounted(t) => Accounted(t)'
  <2>1. t # service.turn
    BY <1>1, <1>2 DEF ShapeOK, Turns
  <2>2. t \in crossed' <=> t \in crossed
    BY <2>1 DEF ServiceMove
  <2>3. (t \in store'.exposed <=> t \in store.exposed) /\ (t \in store'.open <=> t \in store.open)
    BY <2>1 DEF ServiceMove
  <2>4. Accounted(t) => Accounted(t)'
    BY <2>2, <2>3 DEF Accounted
  <2> QED BY <2>2, <2>4 DEF ServiceMove
<1>3. ToldFrame
  BY <1>1, <1>2 DEF ToldFrame
<1> QED BY <1>3, ToldStays
LEMMA ServiceExec ==
    ASSUME ExecOK, ServiceMove
    PROVE  ExecOK'
<1>1. CASE exec.state \in {"running", "returned"} /\ ~Failing
  <2>1. PICK s \in Scripts : \E k \in 1..Len(StepsOf(s)) + 1 : Placed(s, k) /\ Known(s, k)
    BY <1>1 DEF ExecOK
  <2>2. PICK k \in 1..Len(StepsOf(s)) + 1 : Placed(s, k) /\ Known(s, k)
    BY <2>1
  <2>3. s = "research" /\ k = 6
    BY <2>2 DEF Known, ServiceMove
  <2>4. Length("research") = 7 /\ Len(StepsOf("research")) = 7 /\ "research" \in Scripts
    BY ResearchScript DEF ScriptFacts, Scripts, Length
  <2>5. StepsOf("research")[6] # "plan"
    <3>1. 6 \in 1..Length("research")
      BY <2>4
    <3>2. StepFacts("research", 6)
      BY <2>4, <3>1, EveryScript
    <3> QED BY <3>2 DEF StepFacts
  <2>6. Placed("research", 6)'
    BY <2>2, <2>3 DEF Placed, ServiceMove
  <2>7. Logged(exec.turn, Written("research")[6], exec.denied)'
    BY <2>2, <2>3 DEF Known, Logged, ServiceMove
  <2>8. /\ exec.turn \in store.claimed /\ service.turn = exec.turn
        /\ 6 <= Len(StepsOf("research"))
    BY <2>2, <2>3 DEF Known
  <2>9. /\ exec' = exec /\ store'.claimed = store.claimed
        /\ service'.turn = service.turn /\ service'.at # "idle"
    BY DEF ServiceMove
  <2>10. /\ "research" \notin {"success", "denial"} /\ "research" # "success"
         /\ "research" # "refusal" /\ ~(6 <= 5) /\ "research" \notin {"denial", "refusal"}
    OBVIOUS
  <2>11. Known("research", 6)'
    BY <2>5, <2>7, <2>8, <2>9, <2>10 DEF Known
  <2>12. 6 \in 1..Length("research") + 1
    BY <2>4
  <2> QED BY <2>4, <2>6, <2>11, <2>12, PlacedExec
<1>2. CASE ~(exec.state \in {"running", "returned"} /\ ~Failing)
  BY <1>2 DEF ExecOK, Failing, ServiceMove
<1> QED BY <1>1, <1>2
LEMMA ServiceKeeps ==
    ASSUME TurnsInv, ServiceMove, ServiceOK'
    PROVE  TurnsInv'
  BY ServiceShape, ServiceLoop, ServiceTold, ServiceExec DEF TurnsInv
\* What a step must have seen to for where the service is after it.
Answerable ==
    LET n == service.turn IN
    /\ service'.at # "asked"
    /\ service'.at = "reserve" => n \notin crossed'
    /\ service'.at \in {"provider", "expose", "settle", "refund"} => n \in store'.paid
    /\ service'.at \in {"expose", "settle"} => n \in crossed'
    /\ service'.at = "settle" => n \in store'.exposed
    /\ service'.at = "replied" /\ service'.reply = "evidence" =>
         n \in store'.exposed /\ n \in crossed' /\ n \notin store'.open
    /\ service'.at = "replied" /\ service'.reply \in PolicyRefusals => n \notin crossed'
    /\ store'.exposed \subseteq store'.paid /\ store'.open \subseteq store'.paid
LEMMA AnswerableKeeps ==
    ASSUME TurnsInv, ServiceMove, Answerable
    PROVE  TurnsInv'
<1>1. /\ service.turn = exec.turn /\ exec.turn = loop.turn
      /\ exec.state \in {"running", "threw"} /\ exec.tool = "research"
  BY DEF TurnsInv, ServiceOK, ServiceMove
<1>2. service'.turn = service.turn /\ exec' = exec /\ loop' = loop
  BY DEF ServiceMove
<1>3. service'.at = "replied" /\ service'.reply = "evidence" => Accounted(service.turn)'
  BY <1>2 DEF Answerable, Accounted
<1>4. ServiceOK'
  BY <1>1, <1>2, <1>3 DEF ServiceOK, Answerable
<1> QED BY <1>4, ServiceKeeps

LEMMA Serves ==
    ASSUME TurnsInv, NEW at \in {"asked", "reserve", "provider", "expose", "settle", "refund"},
           Serving(at)
    PROVE  /\ Busy /\ service.turn \in Turns /\ service.at = at
           /\ DOMAIN service = {"at", "turn", "request", "found", "reply"}
           /\ DOMAIN store = StoreDomain
           /\ store.exposed \subseteq store.paid /\ store.open \subseteq store.paid
           /\ at = "asked" => service.request \in Requests
           /\ at \in {"asked", "reserve"} => service.turn \notin crossed
           /\ at \in {"provider", "expose", "settle", "refund"} => service.turn \in store.paid
           /\ at \in {"expose", "settle"} => service.turn \in crossed
           /\ at = "settle" => service.turn \in store.exposed
  BY DEF TurnsInv, ShapeOK, ServiceOK, Serving, Busy, StoreDomain

LEMMA RefusalIsNoEvidence ==
    ASSUME NEW q \in Requests
    PROVE  Refusal(q) # "evidence"
<1>1. q \in SearchRequests \cup ExtractRequests
  BY TurnsAssumption
<1>2. CASE q \in SearchRequests
  <2>1. q.kind = "search" /\ q.maxResults \in 1..3
    BY <1>2 DEF SearchRequests
  <2>2. Scope.maxResults \in 1..3
    BY ScopeAssumption
  <2>3. CASE q.maxResults > Scope.maxResults
    BY <2>1, <2>2, <2>3 DEF Refusal, SearchRefusal
  <2>4. CASE q.maxResults <= Scope.maxResults /\ ~(q.domains \subseteq Scope.domains)
    BY <2>1, <2>2, <2>4 DEF Refusal, SearchRefusal
  <2>5. CASE q.maxResults <= Scope.maxResults /\ q.domains \subseteq Scope.domains
    BY <2>1, <2>2, <2>5 DEF Refusal, SearchRefusal
  <2> QED BY <2>1, <2>2, <2>3, <2>4, <2>5
<1>3. CASE q \in ExtractRequests
  <2>1. q.kind = "extract"
    BY <1>3 DEF ExtractRequests
  <2> QED BY <2>1 DEF Refusal, ExtractRefusal
<1> QED BY <1>1, <1>2, <1>3

LEMMA GuardRequestKeeps ==
    ASSUME TurnsInv, GuardRequest
    PROVE  TurnsInv'
<1>1. Serving("asked") /\ UNCHANGED <<loop, exec, store, crossed>>
      /\ \/ Goes("reserve")
         \/ \E reply : Replies(reply) /\ reply \in {"expired", Refusal(service.request)}
  BY DEF GuardRequest, ServiceOnly
<1>2. /\ Busy /\ Refusal(service.request) # "evidence" /\ service.turn \notin crossed /\ store.exposed \subseteq store.paid
      /\ store.open \subseteq store.paid
      /\ DOMAIN service = {"at", "turn", "request", "found", "reply"}
  BY <1>1, Serves, RefusalIsNoEvidence
<1>3. CASE Goes("reserve")
  <2>1. service'.at = "reserve" /\ service'.turn = service.turn /\ DOMAIN service' = DOMAIN service
    BY <1>2, <1>3 DEF Goes
  <2>2. ServiceMove /\ Answerable
    BY <1>1, <1>2, <2>1 DEF ServiceMove, Answerable
  <2> QED BY <2>2, AnswerableKeeps
<1>4. ASSUME NEW reply \in {"expired", Refusal(service.request)}, Replies(reply)
      PROVE  TurnsInv'
  <2>1. service'.at = "replied" /\ service'.turn = service.turn /\ DOMAIN service' = DOMAIN service
    BY <1>2, <1>4 DEF Replies
  <2>2. ServiceMove
    BY <1>1, <1>2, <2>1 DEF ServiceMove
  <2>3. service'.reply # "evidence"
    BY <1>2, <1>4 DEF Replies
  <2>4. Answerable
    BY <1>1, <1>2, <2>1, <2>3 DEF Answerable
  <2> QED BY <2>2, <2>4, AnswerableKeeps
<1> QED BY <1>1, <1>3, <1>4
\* What the service's calls leave in the store.
LEMMA ReservationEffect ==
    ASSUME DOMAIN store = StoreDomain, store' = WithReservation
    PROVE  /\ DOMAIN store' = DOMAIN store /\ store'.log = store.log
           /\ store'.claimed = store.claimed /\ store'.denied = store.denied
           /\ store'.exposed = store.exposed
           /\ store'.open = store.open \cup {service.turn}
           /\ store'.paid = store.paid \cup {service.turn}
  BY DEF StoreDomain, WithReservation
LEMMA ExposureEffect ==
    ASSUME DOMAIN store = StoreDomain, store' = WithExposure
    PROVE  /\ DOMAIN store' = DOMAIN store /\ store'.log = store.log
           /\ store'.claimed = store.claimed /\ store'.denied = store.denied
           /\ store'.open = store.open /\ store'.paid = store.paid
           /\ store'.exposed = store.exposed \cup {service.turn}
  BY DEF StoreDomain, WithExposure
LEMMA SettlementEffect ==
    ASSUME DOMAIN store = StoreDomain, store' = WithSettlement
    PROVE  /\ DOMAIN store' = DOMAIN store /\ store'.log = store.log
           /\ store'.claimed = store.claimed /\ store'.denied = store.denied
           /\ store'.exposed = store.exposed /\ store'.paid = store.paid
           /\ store'.open = store.open \ {service.turn}
  BY DEF StoreDomain, WithSettlement
LEMMA ServiceEffect ==
    ASSUME DOMAIN store = StoreDomain,
           store' \in {store, WithReservation, WithExposure, WithSettlement}
    PROVE  /\ DOMAIN store' = DOMAIN store /\ store'.log = store.log
           /\ store'.claimed = store.claimed /\ store'.denied = store.denied
           /\ \A t \in Turns \ {service.turn} :
                (t \in store'.exposed <=> t \in store.exposed)
                /\ (t \in store'.open <=> t \in store.open)
           /\ store.paid \subseteq store'.paid
           /\ store.exposed \subseteq store'.exposed
<1>1. CASE store' = store
  BY <1>1
<1>2. CASE store' = WithReservation
  BY <1>2, ReservationEffect
<1>3. CASE store' = WithExposure
  BY <1>3, ExposureEffect
<1>4. CASE store' = WithSettlement
  BY <1>4, SettlementEffect
<1> QED BY <1>1, <1>2, <1>3, <1>4

\* The service moves to a place, or replies something.
Moves(at) == service'.at = at /\ service'.turn = service.turn /\ DOMAIN service' = DOMAIN service
LEMMA GoesMoves ==
    ASSUME DOMAIN service = {"at", "turn", "request", "found", "reply"}, NEW at, Goes(at)
    PROVE  Moves(at)
  BY DEF Goes, Moves
LEMMA RepliesMoves ==
    ASSUME DOMAIN service = {"at", "turn", "request", "found", "reply"}, NEW reply, Replies(reply)
    PROVE  Moves("replied") /\ service'.reply = reply
  BY DEF Replies, Moves
LEMMA ServiceMoves ==
    ASSUME DOMAIN store = StoreDomain, Busy, NEW at, at # "idle", Moves(at), UNCHANGED <<loop, exec>>,
           store' \in {store, WithReservation, WithExposure, WithSettlement},
           crossed' \in {crossed, crossed \cup {service.turn}}
    PROVE  ServiceMove
  BY ServiceEffect DEF Moves, ServiceMove
NoPolicy == "service_unavailable" \notin PolicyRefusals /\ "budget_exhausted" \notin PolicyRefusals
            /\ "evidence" \notin PolicyRefusals
LEMMA NoPolicyRefusal == NoPolicy
  BY DEF NoPolicy, PolicyRefusals

LEMMA ReserveKeeps ==
    ASSUME TurnsInv, Reserve
    PROVE  TurnsInv'
<1>1. /\ Serving("reserve") /\ UNCHANGED <<loop, exec, crossed>>
      /\ store' \in {store, WithReservation}
      /\ \/ Goes("provider") /\ store' = WithReservation
         \/ \E reply \in {"budget_exhausted", "service_unavailable"} : Replies(reply)
  BY DEF Reserve, ServiceOnly, Served, Lost
<1>2. /\ Busy /\ service.turn \notin crossed /\ store.exposed \subseteq store.paid
      /\ store.open \subseteq store.paid /\ DOMAIN store = StoreDomain
      /\ DOMAIN service = {"at", "turn", "request", "found", "reply"}
  BY <1>1, Serves
<1>3. store'.exposed \subseteq store'.paid /\ store'.open \subseteq store'.paid
  <2>1. CASE store' = store
    BY <1>2, <2>1
  <2>2. CASE store' = WithReservation
    BY <1>2, <2>2, ReservationEffect
  <2> QED BY <1>1, <2>1, <2>2
<1>4. CASE Goes("provider") /\ store' = WithReservation
  <2>1. Moves("provider")
    BY <1>2, <1>4, GoesMoves
  <2>2. ServiceMove
    BY <1>1, <1>2, <2>1, ServiceMoves
  <2>3. service.turn \in store'.paid
    BY <1>2, <1>4, ReservationEffect
  <2>4. Answerable
    BY <1>3, <2>1, <2>3 DEF Answerable, Moves
  <2> QED BY <2>2, <2>4, AnswerableKeeps
<1>5. ASSUME NEW reply \in {"budget_exhausted", "service_unavailable"}, Replies(reply)
      PROVE  TurnsInv'
  <2>1. Moves("replied") /\ service'.reply = reply
    BY <1>2, <1>5, RepliesMoves
  <2>2. ServiceMove
    BY <1>1, <1>2, <2>1, ServiceMoves
  <2>3. Answerable
    BY <1>1, <1>2, <1>3, <2>1 DEF Answerable, Moves
  <2> QED BY <2>2, <2>3, AnswerableKeeps
<1> QED BY <1>1, <1>4, <1>5

LEMMA CallProviderKeeps ==
    ASSUME TurnsInv, CallProvider
    PROVE  TurnsInv'
<1>1. /\ Serving("provider") /\ UNCHANGED <<loop, exec, store>>
      /\ crossed' = crossed \cup {service.turn}
  BY DEF CallProvider, ServiceOnly
<1>2. /\ Busy /\ service.turn \in store.paid /\ store.exposed \subseteq store.paid
      /\ store.open \subseteq store.paid /\ DOMAIN store = StoreDomain
      /\ DOMAIN service = {"at", "turn", "request", "found", "reply"}
  BY <1>1, Serves
<1>3. \E at \in {"expose", "refund"} : Moves(at)
  <2>1. CASE Goes("refund")
    BY <1>2, <2>1, GoesMoves
  <2>2. ASSUME NEW response \in Responses,
               service' = IF Recorded(service.request, response)
                          THEN [service EXCEPT !.at = "expose", !.found = Len(response)]
                          ELSE [service EXCEPT !.at = "refund"]
        PROVE  \E at \in {"expose", "refund"} : Moves(at)
    <3>1. PICK found : found = Len(response)
      OBVIOUS
    <3>2. \/ service' = [service EXCEPT !.at = "expose", !.found = found]
          \/ service' = [service EXCEPT !.at = "refund"]
      BY <2>2, <3>1
    <3>3. CASE service' = [service EXCEPT !.at = "expose", !.found = found]
      BY <1>2, <3>3 DEF Moves
    <3>4. CASE service' = [service EXCEPT !.at = "refund"]
      BY <1>2, <3>4 DEF Moves
    <3> QED BY <3>2, <3>3, <3>4
  <2> QED BY <2>1, <2>2 DEF CallProvider
<1>4. PICK at \in {"expose", "refund"} : Moves(at)
  BY <1>3
<1>5. ServiceMove
  BY <1>1, <1>2, <1>4, ServiceMoves
<1>6. Answerable
  BY <1>1, <1>2, <1>4 DEF Answerable, Moves
<1> QED BY <1>5, <1>6, AnswerableKeeps

LEMMA ExposeKeeps ==
    ASSUME TurnsInv, Expose
    PROVE  TurnsInv'
<1>1. /\ Serving("expose") /\ UNCHANGED <<loop, exec, crossed>>
      /\ store' \in {store, WithExposure}
      /\ (Goes("settle") /\ store' = WithExposure) \/ Goes("refund")
  BY DEF Expose, ServiceOnly, Served, Lost
<1>2. /\ Busy /\ service.turn \in store.paid /\ store.exposed \subseteq store.paid
      /\ store.open \subseteq store.paid /\ DOMAIN store = StoreDomain
      /\ service.turn \in crossed
      /\ DOMAIN service = {"at", "turn", "request", "found", "reply"}
  BY <1>1, Serves
<1>3. /\ store'.exposed \subseteq store'.paid /\ store'.open \subseteq store'.paid
      /\ service.turn \in store'.paid
  <2>1. CASE store' = store
    BY <1>2, <2>1
  <2>2. CASE store' = WithExposure
    BY <1>2, <2>2, ExposureEffect
  <2> QED BY <1>1, <2>1, <2>2
<1>4. CASE Goes("settle") /\ store' = WithExposure
  <2>1. Moves("settle")
    BY <1>2, <1>4, GoesMoves
  <2>2. ServiceMove
    BY <1>1, <1>2, <2>1, ServiceMoves
  <2>3. service.turn \in store'.exposed
    BY <1>2, <1>4, ExposureEffect
  <2>4. Answerable
    BY <1>1, <1>2, <1>3, <2>1, <2>3 DEF Answerable, Moves
  <2> QED BY <2>2, <2>4, AnswerableKeeps
<1>5. CASE Goes("refund")
  <2>1. Moves("refund")
    BY <1>2, <1>5, GoesMoves
  <2>2. ServiceMove
    BY <1>1, <1>2, <2>1, ServiceMoves
  <2>3. Answerable
    BY <1>3, <2>1 DEF Answerable, Moves
  <2> QED BY <2>2, <2>3, AnswerableKeeps
<1> QED BY <1>1, <1>4, <1>5

LEMMA SettlementKeeps ==
    ASSUME TurnsInv, NEW at \in {"settle", "refund"}, Serving(at),
           UNCHANGED <<loop, exec, crossed>>, store' \in {store, WithSettlement},
           \/ at = "settle" /\ store' = WithSettlement /\ Replies("evidence")
           \/ Replies("service_unavailable")
    PROVE  TurnsInv'
<1>1. /\ Busy /\ store.exposed \subseteq store.paid
      /\ store.open \subseteq store.paid /\ DOMAIN store = StoreDomain
      /\ at = "settle" => service.turn \in store.exposed /\ service.turn \in crossed
      /\ DOMAIN service = {"at", "turn", "request", "found", "reply"}
  BY Serves
<1>2. store'.exposed \subseteq store'.paid /\ store'.open \subseteq store'.paid
  <2>1. CASE store' = store
    BY <1>1, <2>1
  <2>2. CASE store' = WithSettlement
    BY <1>1, <2>2, SettlementEffect
  <2> QED BY <2>1, <2>2
<1>3. CASE at = "settle" /\ store' = WithSettlement /\ Replies("evidence")
  <2>1. Moves("replied") /\ service'.reply = "evidence"
    BY <1>1, <1>3, RepliesMoves
  <2>2. ServiceMove
    BY <1>1, <2>1, ServiceMoves
  <2>3. service.turn \in store'.exposed /\ service.turn \notin store'.open
    BY <1>1, <1>3, SettlementEffect
  <2>4. service'.reply \notin PolicyRefusals
    BY <2>1, NoPolicyRefusal DEF NoPolicy
  <2>5. Answerable
    BY <1>1, <1>2, <1>3, <2>1, <2>3, <2>4 DEF Answerable, Moves
  <2> QED BY <2>2, <2>5, AnswerableKeeps
<1>4. CASE Replies("service_unavailable")
  <2>1. Moves("replied") /\ service'.reply = "service_unavailable"
    BY <1>1, <1>4, RepliesMoves
  <2>2. ServiceMove
    BY <1>1, <2>1, ServiceMoves
  <2>3. service'.reply \notin PolicyRefusals
    BY <2>1, NoPolicyRefusal DEF NoPolicy
  <2>4. Answerable
    BY <1>2, <2>1, <2>3 DEF Answerable, Moves
  <2> QED BY <2>2, <2>4, AnswerableKeeps
<1> QED BY <1>3, <1>4

LEMMA SettleKeeps ==
    ASSUME TurnsInv, Settle
    PROVE  TurnsInv'
<1>1. /\ Serving("settle") /\ UNCHANGED <<loop, exec, crossed>>
      /\ store' \in {store, WithSettlement}
      /\ (store' = WithSettlement /\ Replies("evidence")) \/ Replies("service_unavailable")
  BY DEF Settle, ServiceOnly, Served, Lost
<1> QED BY <1>1, SettlementKeeps
LEMMA RefundKeeps ==
    ASSUME TurnsInv, Refund
    PROVE  TurnsInv'
<1>1. /\ Serving("refund") /\ UNCHANGED <<loop, exec, crossed>>
      /\ store' \in {store, WithSettlement} /\ Replies("service_unavailable")
  BY DEF Refund, ServiceOnly, Lost
<1> QED BY <1>1, SettlementKeeps
-----------------------------------------------------------------------------
(* The loop's and the world's actions.                                      *)

LEMMA EndsKeeps ==
    ASSUME TurnsInv, UNCHANGED <<exec, service, crossed>>, SameLog, NEW reason,
           Fail(reason) \/ Ends(reason)
    PROVE  TurnsInv'
<1>1. Resting
  BY DEF Resting
<1>2. LoopMove
  BY DEF LoopMove, TurnsInv, ShapeOK, Fail, Ends
<1> QED BY <1>1, <1>2, LoopMoves

LEMMA CheckBudgetKeeps ==
    ASSUME TurnsInv, CheckBudget
    PROVE  TurnsInv'
<1>1. UNCHANGED <<exec, service, crossed>> /\ SameLog
  BY StoreSameLog DEF CheckBudget
<1>2. CASE Fail("authority_unavailable")
  BY <1>1, <1>2, EndsKeeps
<1>3. CASE loop.at = "check" /\ loop' = [loop EXCEPT !.at = "turn"]
  <2>1. LoopMove
    BY <1>3 DEF LoopMove, TurnsInv, ShapeOK, Asking
  <2> QED BY <1>1, <2>1, LoopMoves DEF Resting
<1> QED BY <1>2, <1>3 DEF CheckBudget
LEMMA WorkerFailsKeeps ==
    ASSUME TurnsInv, WorkerFails
    PROVE  TurnsInv'
<1>1. UNCHANGED <<exec, service, crossed>> /\ SameLog /\ \E reason : Fail(reason)
  BY StoreSameLog DEF WorkerFails
<1> QED BY <1>1, EndsKeeps
LEMMA WorkerIsDoneKeeps ==
    ASSUME TurnsInv, WorkerIsDone
    PROVE  TurnsInv'
<1>1. UNCHANGED <<exec, service, crossed>> /\ SameLog
  BY StoreSameLog DEF WorkerIsDone
<1>2. CASE Ends("completed")
  BY <1>1, <1>2, EndsKeeps
<1>3. CASE loop.at = "turn" /\ loop' = [loop EXCEPT !.at = "complete"]
  <2>1. LoopMove
    BY <1>3 DEF LoopMove, TurnsInv, ShapeOK, Asking
  <2> QED BY <1>1, <2>1, LoopMoves DEF Resting
<1> QED BY <1>2, <1>3 DEF WorkerIsDone
LEMMA CompleteKeeps ==
    ASSUME TurnsInv, Complete
    PROVE  TurnsInv'
<1>1. /\ UNCHANGED <<exec, service, crossed>> /\ store' \in {store, WithCompletion}
      /\ \E reason : Fail(reason) \/ Ends(reason)
  BY DEF Complete, Served, Lost
<1>2. SameLog
  BY <1>1, StoreSameLog, CompletionSameLog DEF TurnsInv
<1> QED BY <1>1, <1>2, EndsKeeps
LEMMA ToolThrowsKeeps ==
    ASSUME TurnsInv, ToolThrows
    PROVE  TurnsInv'
<1>1. UNCHANGED <<exec, service, crossed>> /\ SameLog /\ \E reason : Fail(reason)
  BY StoreSameLog DEF ToolThrows
<1> QED BY <1>1, EndsKeeps
LEMMA FailClosedKeeps ==
    ASSUME TurnsInv, FailClosed
    PROVE  TurnsInv'
<1>1. /\ UNCHANGED <<exec, service, crossed>>
      /\ store' \in {store, Touched, WithInterruption, [store EXCEPT !.status = "revoked"]}
      /\ \E reason : Ends(reason)
  BY DEF FailClosed, Served, Lost
<1>2. SameLog
  BY <1>1, StoreSameLog, TouchedSameLog, InterruptionSameLog, RevokedSameLog DEF TurnsInv
<1> QED BY <1>1, <1>2, EndsKeeps
LEMMA DeadlineKeeps ==
    ASSUME TurnsInv, Deadline
    PROVE  TurnsInv'
<1>1. /\ UNCHANGED <<store, service, crossed>> /\ Fail("expired")
      /\ \E late : exec' = [exec EXCEPT !.late = late]
  BY DEF Deadline
<1>2. SameLog
  BY <1>1, StoreSameLog
<1>3. Resting
  BY <1>1, <1>2 DEF Resting, TurnsInv, ShapeOK
<1>4. LoopMove
  BY <1>1 DEF LoopMove, TurnsInv, ShapeOK, Fail
<1> QED BY <1>3, <1>4, LoopMoves

LEMMA RevokePlanKeeps ==
    ASSUME TurnsInv, RevokePlan
    PROVE  TurnsInv'
<1>1. UNCHANGED <<loop, exec, service, crossed>> /\ store' = [store EXCEPT !.planRevoked = TRUE]
  BY DEF RevokePlan
<1>2. SameLog
  BY <1>1 DEF TurnsInv, ShapeOK, SameLog, SamePapers, Records
<1> QED BY <1>1, <1>2, WorldKeeps
LEMMA AroundKeeps ==
    ASSUME TurnsInv, Lapse \/ SupervisorCloses \/ ChildTimed \/ ChildMoves \/ OpenResearch
    PROVE  TurnsInv'
<1>1. UNCHANGED <<store, loop, exec, service, crossed>>
  <2>1. CASE Lapse
    BY <2>1 DEF Lapse
  <2>2. CASE SupervisorCloses
    BY <2>2 DEF SupervisorCloses
  <2>3. CASE ChildTimed
    BY <2>3 DEF ChildTimed, ChildBecomes
  <2>4. CASE ChildMoves
    BY <2>4 DEF ChildMoves, ChildBecomes
  <2>5. CASE OpenResearch
    BY <2>5 DEF OpenResearch
  <2> QED BY <2>1, <2>2, <2>3, <2>4, <2>5
<1>2. SameLog
  BY <1>1, StoreSameLog
<1> QED BY <1>1, <1>2, WorldKeeps
-----------------------------------------------------------------------------
(* A turn's execution begins, and its result is told.                       *)

Opening == {"research", "broker", "refusal", "status", "command", "local"}
LEMMA OpeningSteps ==
    ASSUME NEW s \in Opening
    PROVE  s \in Scripts /\ Written(s)[1] = 0
<1>1. CASE s = "research"
  BY <1>1 DEF Written, Scripts
<1>2. CASE s = "broker"
  BY <1>2 DEF Written, Scripts
<1>3. CASE s = "refusal"
  BY <1>3 DEF Written, Scripts
<1>4. CASE s = "status"
  BY <1>4 DEF Written, Scripts
<1>5. CASE s = "command"
  BY <1>5 DEF Written, Scripts
<1>6. CASE s = "local"
  BY <1>6 DEF Written, Scripts
<1> QED BY <1>1, <1>2, <1>3, <1>4, <1>5, <1>6 DEF Opening

Begun(n, tool) ==
    /\ DOMAIN exec' = {"state", "turn", "tool", "todo", "denied", "revoked", "reason", "late"}
    /\ exec'.turn = n /\ exec'.tool = tool
Opened(s) ==
    /\ exec'.state = "running" /\ exec'.todo = StepsOf(s)
    /\ exec'.denied = IF s \in Denials THEN TRUE ELSE FALSE
LEMMA StartedBegins ==
    ASSUME NEW n, NEW tool \in Tools, exec' \in Started(n, tool)
    PROVE  /\ Begun(n, tool)
           /\ exec'.state = "threw" \/ \E s \in Opening : Opened(s) /\ tool \in ToolsOf(s)
<1> DEFINE e == [state |-> "running", turn |-> n, tool |-> tool, todo |-> <<>>, denied |-> FALSE,
                 revoked |-> FALSE, reason |-> "none", late |-> FALSE]
<1>1. tool \in {"research", "read", "merge", "command", "status"}
  BY DEF Tools, External
<1>2. \/ \E reason : exec' = Thrown(e, reason)
      \/ tool \in External /\ exec' = Denying(e, RefusalSteps)
      \/ tool \notin External /\ exec' = Denying(e, <<"violation", "value">>)
      \/ tool = "research" /\ exec' = Turning(e, ResearchSteps)
      \/ tool \in {"read", "merge"} /\ exec' = Turning(e, BrokerSteps)
      \/ tool = "status" /\ exec' = Turning(e, <<"consume", "value">>)
      \/ tool = "command" /\ exec' = Turning(e, <<"consume", "command", "value">>)
  <2>1. CASE RuntimeState # "active"
    BY <2>1 DEF Started
  <2>2. CASE RuntimeState = "active" /\ tool \notin Granted
    BY <2>2 DEF Started
  <2>3. CASE RuntimeState = "active" /\ tool \in Granted
    <3>1. CASE tool = "research"
      BY <2>3, <3>1 DEF Started
    <3>2. CASE tool \in {"read", "merge"}
      BY <2>3, <3>2 DEF Started
    <3>3. CASE tool = "status"
      BY <2>3, <3>3 DEF Started
    <3>4. CASE tool = "command"
      BY <2>3, <3>4 DEF Started, External
    <3> QED BY <1>1, <3>1, <3>2, <3>3, <3>4
  <2> QED BY <2>1, <2>2, <2>3
<1>3. ASSUME NEW reason, exec' = Thrown(e, reason)
      PROVE  Begun(n, tool) /\ exec'.state = "threw"
  BY <1>3 DEF Thrown, Begun
<1>4. ASSUME NEW steps, NEW s \in Opening, steps = StepsOf(s), s \notin Denials,
             exec' = Turning(e, steps)
      PROVE  Begun(n, tool) /\ Opened(s)
  BY <1>4 DEF Turning, Begun, Opened
<1>5. ASSUME NEW steps, NEW s \in Opening, steps = StepsOf(s), s \in Denials,
             exec' = Denying(e, steps)
      PROVE  Begun(n, tool) /\ Opened(s)
  BY <1>5 DEF Denying, Begun, Opened
<1> HIDE DEF e
<1>6. CASE tool \in External /\ exec' = Denying(e, RefusalSteps)
  <2>1. "refusal" \in Opening /\ "refusal" \in Denials /\ RefusalSteps = StepsOf("refusal")
        /\ ToolsOf("refusal") = External
    BY DEF Opening, Denials, StepsOf, ToolsOf
  <2> QED BY <1>5, <1>6, <2>1
<1>7. CASE tool \notin External /\ exec' = Denying(e, <<"violation", "value">>)
  <2>1. "local" \in Opening /\ "local" \in Denials /\ <<"violation", "value">> = StepsOf("local")
        /\ ToolsOf("local") = Tools \ External
    BY DEF Opening, Denials, StepsOf, ToolsOf
  <2> QED BY <1>5, <1>7, <2>1
<1>8. CASE tool = "research" /\ exec' = Turning(e, ResearchSteps)
  <2>1. "research" \in Opening /\ "research" \notin Denials /\ ResearchSteps = StepsOf("research")
        /\ ToolsOf("research") = {"research"}
    BY DEF Opening, Denials, StepsOf, ToolsOf
  <2> QED BY <1>4, <1>8, <2>1
<1>9. CASE tool \in {"read", "merge"} /\ exec' = Turning(e, BrokerSteps)
  <2>1. "broker" \in Opening /\ "broker" \notin Denials /\ BrokerSteps = StepsOf("broker")
        /\ ToolsOf("broker") = {"read", "merge"}
    BY DEF Opening, Denials, StepsOf, ToolsOf
  <2> QED BY <1>4, <1>9, <2>1
<1>10. CASE tool = "status" /\ exec' = Turning(e, <<"consume", "value">>)
  <2>1. "status" \in Opening /\ "status" \notin Denials /\ <<"consume", "value">> = StepsOf("status")
        /\ "status" \in ToolsOf("status")
    BY DEF Opening, Denials, StepsOf, ToolsOf, Tools, External
  <2> QED BY <1>4, <1>10, <2>1
<1>11. CASE tool = "command" /\ exec' = Turning(e, <<"consume", "command", "value">>)
  <2>1. "command" \in Opening /\ "command" \notin Denials
        /\ <<"consume", "command", "value">> = StepsOf("command")
        /\ "command" \in ToolsOf("command")
    BY DEF Opening, Denials, StepsOf, ToolsOf, Tools, External
  <2> QED BY <1>4, <1>11, <2>1
<1> QED BY <1>2, <1>3, <1>6, <1>7, <1>8, <1>9, <1>10, <1>11

LEMMA WorkerAsksKeeps ==
    ASSUME TurnsInv, WorkerAsks
    PROVE  TurnsInv'
<1> DEFINE n == loop.turn
<1>1. ShapeOK /\ LoopOK /\ ServiceOK /\ ExecOK /\ ToldOK /\ n \in Turns
  BY DEF TurnsInv, ShapeOK
<1>2. /\ loop.at = "turn" /\ UNCHANGED <<store, service, crossed>>
      /\ loop' = [loop EXCEPT !.at = "tool"]
  BY DEF WorkerAsks
<1>3. PICK tool \in Tools : loop.tools /\ exec' \in Started(n, tool)
  BY DEF WorkerAsks, MayAsk
<1>4. /\ Begun(n, tool)
      /\ exec'.state = "threw" \/ \E s \in Opening : Opened(s) /\ tool \in ToolsOf(s)
  BY <1>3, StartedBegins
<1>5. /\ loop'.at = "tool" /\ loop'.turn = n /\ loop'.told = loop.told /\ loop'.tools = loop.tools
      /\ DOMAIN loop' = DOMAIN loop
  BY <1>1, <1>2 DEF ShapeOK
<1>6. store.log[n] = <<>> /\ n \notin crossed
  BY <1>1, <1>2 DEF LoopOK, Asking
<1>7. n < MaxTurns
  BY <1>1, <1>3 DEF LoopOK
<1>8. ~Busy /\ (service.at = "replied" => service.turn < n)
  <2>1. \/ exec.state = "none" /\ exec.tool = "status"
        \/ exec.state = "returned" /\ exec.turn < loop.turn
    BY <1>1, <1>2 DEF LoopOK, Asking
  <2>2. exec.turn \in Int /\ loop.turn \in Int
    BY <1>1 DEF ShapeOK, Turns
  <2> QED BY <1>1, <2>1, <2>2 DEF ServiceOK
<1>9. exec'.state \in {"running", "threw"}
  BY <1>4 DEF Opened
<1>10. ShapeOK'
  BY <1>1, <1>2, <1>3, <1>4, <1>5, <1>9 DEF ShapeOK, Begun
<1>11. LoopOK'
  <2>1. exec'.turn = n
    BY <1>4 DEF Begun
  <2> QED BY <1>1, <1>2, <1>5, <1>7, <1>9, <2>1 DEF LoopOK, Asking
<1>12. ~Busy'
  BY <1>2, <1>8 DEF Busy
<1>13. ServiceOK'
  <2>1. Accounted(service.turn) => Accounted(service.turn)'
    BY <1>2 DEF Accounted
  <2> QED BY <1>1, <1>2, <1>5, <1>8, <1>12, <2>1 DEF ServiceOK
<1>14. ExecOK'
  <2>1. CASE exec'.state = "threw"
    BY <2>1 DEF ExecOK, Failing
  <2>2. ASSUME NEW s \in Opening, Opened(s), tool \in ToolsOf(s)
        PROVE  ExecOK'
    <3>1. s \in Scripts /\ Written(s)[1] = 0
      BY OpeningSteps
    <3>2. Length(s) \in 2..7 /\ Len(StepsOf(s)) = Length(s)
      BY <3>1, EveryScript DEF Length
    <3>3. PICK S : StepsOf(s) \in Seq(S)
      BY <3>1, EveryScript
    <3>4. SubSeq(StepsOf(s), 1, Len(StepsOf(s))) = StepsOf(s)
      BY <3>3, SubSeqFull
    <3>5. Placed(s, 1)'
      BY <1>4, <2>2, <3>2, <3>4 DEF Placed, Begun, Opened
    <3>6. exec'.turn = n /\ exec'.tool = tool
      BY <1>4 DEF Begun
    <3>7. Logged(exec.turn, Written(s)[1], exec.denied)'
      BY <1>2, <1>6, <3>1, <3>6 DEF Logged
    <3>8. StepsOf(s)[1] # "plan" /\ 1 <= Len(StepsOf(s))
      <4>1. 1 \in 1..Length(s)
        BY <3>2
      <4>2. StepFacts(s, 1)
        BY <3>1, <4>1, EveryScript
      <4> QED BY <3>2, <4>2 DEF StepFacts
    <3>9. exec'.turn \notin crossed'
      BY <1>2, <1>6, <3>6
    <3>10. s \notin {"success", "denial"} /\ ~(1 > 1) /\ 1 # 6
      BY DEF Opening
    <3>11. Known(s, 1)'
      BY <1>12, <3>7, <3>8, <3>9, <3>10 DEF Known
    <3>12. 1 \in 1..Length(s) + 1
      BY <3>2
    <3> QED BY <3>1, <3>5, <3>11, <3>12, PlacedExec
  <2> QED BY <1>4, <2>1, <2>2
<1>15. ToldOK'
  <2>1. ToldFrame
    BY <1>2, <1>5 DEF ToldFrame, Accounted
  <2> QED BY <1>1, <2>1, ToldStays
<1> QED BY <1>10, <1>11, <1>13, <1>14, <1>15 DEF TurnsInv
\* What an execution that has returned leaves of its turn.
LEMMA EndsWritten ==
    /\ Written("success")[6] = 4 /\ Written("denial")[6] = 4 /\ Written("refusal")[7] = 4
    /\ Length("success") = 5 /\ Length("denial") = 5 /\ Length("refusal") = 6
<1>1. Written("success")[6] = 4 /\ Written("denial")[6] = 4 /\ Written("refusal")[7] = 4
  BY DEF Written
<1>2. Length("success") = 5 /\ Length("denial") = 5 /\ Length("refusal") = 6
  BY SuccessScript, DenialScript, RefusalScript DEF ScriptFacts
<1> QED BY <1>1, <1>2
LEMMA TrailOfFour ==
    ASSUME NEW n \in Turns, NEW denied, store.log \in [Turns -> Seq(Events)], Logged(n, 4, denied)
    PROVE  /\ Types(store.log[n]) = Trail
           /\ \A i \in 2..4 : store.log[n][i].denied = denied
<1>1. PICK log : log = store.log[n]
  OBVIOUS
<1>2. Len(log) = 4 /\ DOMAIN log = 1..4
  <2>1. log \in Seq(Events)
    BY <1>1
  <2> HIDE DEF Events
  <2>2. Len(log) = 4
    BY <1>1 DEF Logged
  <2> QED BY <2>1, <2>2, LenProperties
<1>3. \A i \in 1..4 : log[i].type = Trail[i]
  BY <1>1 DEF Logged
<1>4. Types(log) = [i \in 1..4 |-> log[i].type]
  BY <1>2 DEF Types
<1>5. Types(log) = [i \in 1..4 |-> Trail[i]]
  BY <1>3, <1>4
<1>6. Trail = [i \in 1..4 |-> Trail[i]]
  BY DEF Trail
<1>7. \A i \in 2..4 : log[i].denied = denied
  BY <1>1 DEF Logged
<1> QED BY <1>1, <1>5, <1>6, <1>7

LEMMA ReturnedExternal ==
    ASSUME ShapeOK, ExecOK, exec.state = "returned", exec.tool \in External
    PROVE  /\ exec.denied \in BOOLEAN
           /\ Audited(exec.turn, exec.denied)
           /\ exec.denied = FALSE =>
                /\ exec.turn \in store.claimed \cap crossed
                /\ exec.tool = "research" => Accounted(exec.turn)
           /\ exec.denied = TRUE /\ exec.tool = "research" => exec.turn \notin crossed
<1>1. PICK s \in Scripts : \E k \in 1..Len(StepsOf(s)) + 1 : Placed(s, k) /\ Known(s, k)
  BY DEF ExecOK, Failing
<1>2. PICK k \in 1..Len(StepsOf(s)) + 1 : Placed(s, k) /\ Known(s, k)
  BY <1>1
<1>3. Len(StepsOf(s)) = Length(s) /\ Length(s) \in 2..7
  BY EveryScript DEF Length
<1>4. k = Length(s) + 1
  <2>1. k > Len(StepsOf(s))
    BY <1>2 DEF Placed
  <2> QED BY <1>3, <2>1
<1>5. s \in {"success", "denial", "refusal"}
  <2>1. s \notin {"research", "broker"}
    BY <1>2, <1>3, <1>4 DEF Known
  <2>2. s \notin {"status", "command", "local"}
    BY <1>2 DEF Placed, ToolsOf, External
  <2> QED BY <2>1, <2>2 DEF Scripts
<1>6. Written(s)[k] = 4 /\ k > 1
  BY <1>4, <1>5, EndsWritten
<1>7. Logged(exec.turn, 4, exec.denied)
  BY <1>2, <1>6 DEF Known
<1>8. exec.denied = IF s \in Denials THEN TRUE ELSE FALSE
  BY <1>2 DEF Placed
<1>9. exec.turn \in store.claimed \cup store.denied
  BY <1>2, <1>5, <1>6 DEF Known
<1>10. PICK n, denied : n = exec.turn /\ denied = exec.denied
  OBVIOUS
<1>11. Types(store.log[n]) = Trail /\ \A i \in 2..4 : store.log[n][i].denied = denied
  <2>1. n \in Turns /\ store.log \in [Turns -> Seq(Events)]
    BY <1>10 DEF ShapeOK
  <2>2. Logged(n, 4, denied)
    BY <1>7, <1>10
  <2> QED BY <2>1, <2>2, TrailOfFour
<1>12. Audited(exec.turn, exec.denied)
  BY <1>9, <1>10, <1>11 DEF Audited
<1>13. CASE s = "success"
  <2>1. exec.denied = FALSE
    BY <1>8, <1>13 DEF Denials
  <2>2. exec.turn \in store.claimed \cap crossed /\ (exec.tool = "research" => Accounted(exec.turn))
    BY <1>2, <1>13 DEF Known
  <2> QED BY <1>12, <2>1, <2>2
<1>14. CASE s \in {"denial", "refusal"}
  <2>1. exec.denied = TRUE
    BY <1>8, <1>14 DEF Denials
  <2>2. exec.tool = "research" => exec.turn \notin crossed
    BY <1>2, <1>14 DEF Known
  <2> QED BY <1>12, <2>1, <2>2
<1> QED BY <1>5, <1>13, <1>14

LEMMA ToolReturnsKeeps ==
    ASSUME TurnsInv, ToolReturns
    PROVE  TurnsInv'
<1> DEFINE n == loop.turn
<1>1. ShapeOK /\ LoopOK /\ ServiceOK /\ ExecOK /\ ToldOK /\ n \in Turns
  BY DEF TurnsInv, ShapeOK
<1>2. loop.at = "tool" /\ exec.state = "returned" /\ UNCHANGED <<store, exec, service, crossed>>
  BY DEF ToolReturns
<1>3. SameLog /\ exec.turn = n /\ n < MaxTurns
  BY <1>1, <1>2, StoreSameLog DEF LoopOK
<1>4. CASE Ends("revoked")
  BY <1>2, <1>3, <1>4, EndsKeeps
<1>5. PICK at, result, tools :
        /\ at = IF bounded THEN "check" ELSE "turn"
        /\ result = [tool |-> exec.tool, result |-> IF exec.denied THEN "denied" ELSE "succeeded"]
        /\ tools = (~(exec.denied /\ exec.tool = "research") /\ bounded /\ loop.turn + 1 < MaxTurns)
  OBVIOUS
<1>6. at \in Asking /\ (tools => n + 1 < MaxTurns)
  BY <1>5 DEF Asking
<1>7. CASE loop' = [loop EXCEPT !.at = at, !.turn = n + 1, !.told[n] = result, !.tools = tools]
  <2>1. PICK told : told = loop.told
    OBVIOUS
  <2>2. /\ told \in [Turns -> [tool : Tools \cup {"none"}, result : {"none", "denied", "succeeded"}]]
        /\ n \in Int /\ MaxTurns \in Int /\ n + 1 \in Turns /\ DOMAIN loop = {"at", "turn", "tools", "told", "reason"}
    BY <1>1, <1>3, <2>1, TurnsAssumption DEF ShapeOK, Turns
  <2>3. /\ loop'.at = at /\ loop'.turn = n + 1 /\ loop'.told = [told EXCEPT ![n] = result]
        /\ loop'.tools = tools /\ DOMAIN loop' = DOMAIN loop
    BY <1>7, <2>1, <2>2
  <2>4. result \in [tool : Tools \cup {"none"}, result : {"none", "denied", "succeeded"}]
    BY <1>1, <1>5 DEF ShapeOK
  <2>5. /\ loop'.told \in [Turns -> [tool : Tools \cup {"none"}, result : {"none", "denied", "succeeded"}]]
        /\ loop'.told[n] = result /\ \A t \in Turns \ {n} : loop'.told[t] = told[t]
    BY <1>1, <2>2, <2>3, <2>4
  <2>6. ShapeOK'
    BY <1>1, <1>2, <2>2, <2>3, <2>5 DEF ShapeOK
  <2>7. LoopOK'
    <3>1. loop'.tools => n + 1 < MaxTurns
      BY <1>6, <2>3
    <3>2. loop'.at # "tool" /\ loop'.at \in Asking
      BY <1>6, <2>3 DEF Asking
    <3>3. \A t \in Turns : t >= n + 1 => loop'.told[t] = Nothing
      <4> TAKE t \in Turns
      <4> HAVE t >= n + 1
      <4>1. t # n /\ t >= n /\ t \in Int
        BY <2>2 DEF Turns
      <4>2. loop.told[t] = Nothing
        BY <1>1, <4>1 DEF LoopOK
      <4> QED BY <2>1, <2>5, <4>1, <4>2
    <3>4. \A t \in Turns : t > n + 1 \/ t = n + 1 => store.log[t] = <<>> /\ t \notin crossed
      <4> TAKE t \in Turns
      <4> HAVE t > n + 1 \/ t = n + 1
      <4>1. t > n
        BY <2>2 DEF Turns
      <4> QED BY <1>1, <4>1 DEF LoopOK
    <3>5. exec.turn < n + 1
      BY <1>3, <2>2
    <3> QED BY <1>2, <2>3, <3>1, <3>2, <3>3, <3>4, <3>5 DEF LoopOK
  <2>8. ServiceOK'
    <3>1. ~Busy
      BY <1>1, <1>2 DEF ServiceOK
    <3>2. ~Busy'
      BY <1>2, <3>1 DEF Busy
    <3>3. service.at = "replied" => service.turn < n + 1
      <4>1. service.at = "replied" => service.turn < n \/ service.turn = n
        BY <1>1 DEF ServiceOK
      <4>2. service.turn \in Int
        BY <1>1 DEF ShapeOK, Turns
      <4> QED BY <2>2, <4>1, <4>2
    <3>4. Accounted(service.turn) => Accounted(service.turn)'
      BY <1>2 DEF Accounted
    <3> QED BY <1>1, <1>2, <2>3, <3>2, <3>3, <3>4 DEF ServiceOK
  <2>9. ExecOK'
    <3>1. Resting
      BY <1>2, <1>3 DEF Resting
    <3> QED BY <1>1, <3>1, RestingExec
  <2>10. ASSUME NEW t \in Turns, t # n, NEW toolset, NEW r, Told(t, toolset, r)'
         PROVE  Told(t, toolset, r)
    BY <2>1, <2>5, <2>10 DEF Told
  <2>11. ASSUME NEW toolset, toolset \subseteq External, NEW r,
                NEW m \in Turns, m = n, Told(m, toolset, r)'
         PROVE  /\ exec.tool \in toolset /\ exec.tool \in External
                /\ r = "succeeded" => exec.denied = FALSE
                /\ r = "denied" => exec.denied = TRUE
    <3>1. result.tool \in toolset /\ result.result = r
      BY <2>5, <2>11 DEF Told
    <3>2. exec.tool \in toolset
      BY <1>5, <3>1
    <3>3. r = IF exec.denied THEN "denied" ELSE "succeeded"
      BY <1>5, <3>1
    <3>4. exec.denied \in BOOLEAN
      BY <1>1, <1>2, <2>11, <3>2, ReturnedExternal
    <3> QED BY <2>11, <3>2, <3>3, <3>4
  <2>12. External \subseteq External /\ {"research"} \subseteq External
    BY DEF External
  <2>13. ASSUME NEW t \in Turns PROVE Accounted(t) <=> Accounted(t)'
    BY <1>2 DEF Accounted
  <2>14. ASSUME NEW t \in Turns, NEW d PROVE Audited(t, d) <=> Audited(t, d)'
    BY <1>2 DEF Audited
  <2>15. ASSUME NEW t \in Turns, Told(t, {"research"}, "succeeded")' PROVE Accounted(t)'
    <3>1. CASE t = n
      <4>0. PICK only : only = {"research"}
        OBVIOUS
      <4>1. exec.tool = "research" /\ exec.tool \in External /\ exec.denied = FALSE
        <5>1. Told(t, only, "succeeded")' /\ only \subseteq External
          BY <2>12, <2>15, <4>0 DEF Told
        <5>2. exec.tool \in only /\ exec.tool \in External /\ exec.denied = FALSE
          BY <2>11, <3>1, <5>1
        <5> QED BY <4>0, <5>2
      <4>2. Accounted(exec.turn)
        BY <1>1, <1>2, <4>1, ReturnedExternal
      <4> QED BY <1>3, <2>13, <3>1, <4>2
    <3>2. CASE t # n
      BY <1>1, <2>10, <2>13, <2>15, <3>2 DEF ToldOK
    <3> QED BY <3>1, <3>2
  <2>16. ASSUME NEW t \in Turns, Told(t, External, "succeeded")'
         PROVE  Audited(t, FALSE)' /\ t \in (store.claimed \cap crossed)'
    <3>1. CASE t = n
      <4>1. exec.tool \in External /\ exec.denied = FALSE
        BY <2>11, <2>12, <2>16, <3>1
      <4>2. Audited(exec.turn, exec.denied) /\ exec.turn \in store.claimed \cap crossed
        BY <1>1, <1>2, <4>1, ReturnedExternal
      <4>3. Audited(t, FALSE) /\ t \in store.claimed \cap crossed
        BY <1>3, <3>1, <4>1, <4>2
      <4> QED BY <1>2, <2>14, <4>3
    <3>2. CASE t # n
      <4>1. Audited(t, FALSE) /\ t \in store.claimed \cap crossed
        BY <1>1, <2>10, <2>16, <3>2 DEF ToldOK, FeedbackIsAudited
      <4> QED BY <1>2, <2>14, <4>1
    <3> QED BY <3>1, <3>2
  <2>17. ASSUME NEW t \in Turns, Told(t, External, "denied")'
         PROVE  Audited(t, TRUE)'
    <3>1. CASE t = n
      <4>1. exec.tool \in External /\ exec.denied = TRUE
        BY <2>11, <2>12, <2>17, <3>1
      <4>2. Audited(exec.turn, exec.denied)
        BY <1>1, <1>2, <4>1, ReturnedExternal
      <4>3. Audited(t, TRUE)
        BY <1>3, <3>1, <4>1, <4>2
      <4> QED BY <2>14, <4>3
    <3>2. CASE t # n
      <4>1. Audited(t, TRUE)
        BY <1>1, <2>10, <2>17, <3>2 DEF ToldOK, FeedbackIsAudited
      <4> QED BY <2>14, <4>1
    <3> QED BY <3>1, <3>2
  <2>18. ASSUME NEW t \in Turns, Told(t, {"research"}, "denied")'
         PROVE  t \notin crossed'
    <3>1. CASE t = n
      <4>0. PICK only : only = {"research"}
        OBVIOUS
      <4>1. exec.tool = "research" /\ exec.tool \in External /\ exec.denied = TRUE
        <5>1. Told(t, only, "denied")' /\ only \subseteq External
          BY <2>12, <2>18, <4>0 DEF Told
        <5>2. exec.tool \in only /\ exec.tool \in External /\ exec.denied = TRUE
          BY <2>11, <3>1, <5>1
        <5> QED BY <4>0, <5>2
      <4>2. exec.turn \notin crossed
        BY <1>1, <1>2, <4>1, ReturnedExternal
      <4> QED BY <1>2, <1>3, <3>1, <4>2
    <3>2. CASE t # n
      BY <1>1, <1>2, <2>10, <2>18, <3>2 DEF ToldOK, FeedbackIsAudited
    <3> QED BY <3>1, <3>2
  <2>19. ToldOK'
    BY <2>15, <2>16, <2>17, <2>18 DEF ToldOK, FeedbackIsAudited
  <2> QED BY <2>6, <2>7, <2>8, <2>9, <2>19 DEF TurnsInv
<1>8. Ends("revoked") \/ loop' = [loop EXCEPT !.at = at, !.turn = n + 1, !.told[n] = result, !.tools = tools]
  BY <1>5 DEF ToolReturns
<1> QED BY <1>4, <1>7, <1>8
-----------------------------------------------------------------------------
(* The invariant, and what it says of the turns.                            *)

LEMMA InitTurns == Init => TurnsInv
<1> SUFFICES ASSUME Init PROVE TurnsInv
  OBVIOUS
<1>1. 1 \in Turns /\ 1 < MaxTurns
  BY TurnsAssumption DEF Turns
<1>2. <<>> \in Seq(Events)
  BY EmptySeq
<1>3. ShapeOK
  <2>1. store.log \in [Turns -> Seq(Events)]
    <3>1. store.log = [t \in Turns |-> <<>>]
      BY DEF Init
    <3> HIDE DEF Events
    <3> QED BY <1>2, <3>1
  <2>2. loop.told \in [Turns -> [tool : Tools \cup {"none"}, result : {"none", "denied", "succeeded"}]]
    <3>1. loop.told = [t \in Turns |-> Nothing]
      BY DEF Init
    <3> QED BY <3>1 DEF Nothing
  <2>3. DOMAIN store = StoreDomain
    BY DEF Init, StoreDomain
  <2>4. DOMAIN loop = {"at", "turn", "tools", "told", "reason"} /\ loop.turn = 1
    BY DEF Init
  <2>5. /\ DOMAIN exec = {"state", "turn", "tool", "todo", "denied", "revoked", "reason", "late"}
        /\ exec.state = "none" /\ exec.turn = 1 /\ exec.tool = "status"
    BY DEF Init
  <2>6. DOMAIN service = {"at", "turn", "request", "found", "reply"} /\ service.turn = 1
    BY DEF Init
  <2>7. "status" \in Tools
    BY DEF Tools
  <2> QED BY <1>1, <2>1, <2>2, <2>3, <2>4, <2>5, <2>6, <2>7 DEF ShapeOK, StoreDomain
<1>4. /\ exec.state = "none" /\ exec.tool = "status" /\ exec.turn = 1
      /\ loop.turn = 1 /\ loop.at \in {"check", "turn"}
      /\ crossed = {} /\ service.at = "idle" /\ store.exposed = {} /\ store.open = {}
  BY DEF Init
<1>5. \A t \in Turns : loop.told[t] = Nothing /\ store.log[t] = <<>>
  BY DEF Init
<1>6. LoopOK
  BY <1>1, <1>4, <1>5 DEF LoopOK, Asking
<1>7. ServiceOK
  BY <1>4 DEF ServiceOK, Busy
<1>8. ExecOK
  BY <1>4 DEF ExecOK
<1>9. \A t \in Turns : loop.told[t].tool = "none"
  BY <1>5 DEF Nothing
<1>10. "none" \notin External
  BY DEF External
<1>11. ToldOK
  BY <1>9, <1>10 DEF ToldOK, FeedbackIsAudited, Told
<1> QED BY <1>3, <1>6, <1>7, <1>8, <1>11 DEF TurnsInv

LEMMA NextTurns == TurnsInv /\ [Next]_vars => TurnsInv'
<1> SUFFICES ASSUME TurnsInv, [Next]_vars PROVE TurnsInv'
  OBVIOUS
<1>1. CASE UNCHANGED vars
  <2>1. UNCHANGED <<store, loop, exec, service, crossed>>
    BY <1>1 DEF vars
  <2> QED BY <2>1, StoreSameLog, WorldKeeps
<1>2. CASE DispatcherStep
  BY <1>2, ClaimKeeps, AuditKeeps, RecordViolationKeeps, InterruptKeeps, ReadBudgetKeeps,
     MakeValueKeeps, RunCommandKeeps, CheckSessionKeeps, ReadPlanKeeps, FindTargetKeeps,
     AskBrokerKeeps, AroundKeeps, ResearchOpenedKeeps, AskResearchKeeps DEF DispatcherStep
<1>3. CASE ServiceStep
  BY <1>3, GuardRequestKeeps, ReserveKeeps, CallProviderKeeps, ExposeKeeps, SettleKeeps,
     RefundKeeps DEF ServiceStep
<1>4. CASE LoopStep
  BY <1>4, CheckBudgetKeeps, WorkerFailsKeeps, CompleteKeeps, ToolReturnsKeeps, ToolThrowsKeeps,
     FailClosedKeeps DEF LoopStep
<1>5. CASE Answered \/ ClientGivesUp \/ WorkerAsks \/ WorkerIsDone \/ Deadline
  BY <1>5, AnsweredKeeps, ClientGivesUpKeeps, WorkerAsksKeeps, WorkerIsDoneKeeps, DeadlineKeeps
<1>6. CASE Lapse \/ SupervisorCloses \/ ChildTimed \/ ChildMoves \/ RevokePlan
  BY <1>6, AroundKeeps, RevokePlanKeeps
<1> QED BY <1>1, <1>2, <1>3, <1>4, <1>5, <1>6 DEF Next

\* Every execution is somewhere in the list of steps it works off, with as much
\* of its trail written as is behind it, the research service works for the
\* execution that asked it last, and nothing of a turn happens before its
\* worker is asked (TrustedWorkerToolDispatcher.execute, the coordinator's
\* loop, DurableCredentialHoldingResearchService).
THEOREM TurnsInOrder == Spec => []TurnsInv
<1>1. Init => TurnsInv
  BY InitTurns
<1>2. TurnsInv /\ [Next]_vars => TurnsInv'
  BY NextTurns
<1> QED BY <1>1, <1>2, PTL DEF Spec

\* No evidence reaches a worker unless it was retrieved, recorded as exposed and
\* settled, and no provider is called without a charge, whatever call is lost.
THEOREM TurnsAccounted == Spec => []EvidenceIsAccounted
<1>1. TurnsInv => EvidenceIsAccounted
  <2> SUFFICES ASSUME TurnsInv PROVE EvidenceIsAccounted
    OBVIOUS
  <2>1. \A t \in Turns : Told(t, {"research"}, "succeeded") =>
                           t \in (store.exposed \cap crossed) \ store.open
    BY DEF TurnsInv, ToldOK, Accounted
  <2>2. /\ service.at \in {"expose", "settle", "refund"} => service.turn \in store.paid
        /\ store.exposed \cup store.open \subseteq store.paid
    BY DEF TurnsInv, ServiceOK
  <2> QED BY <2>1, <2>2 DEF EvidenceIsAccounted
<1> QED BY <1>1, TurnsInOrder, PTL

\* What a worker is told of an external tool has its whole trail, in order and
\* with that outcome; a denied research request never reached the provider.
THEOREM TurnsAudited == Spec => []FeedbackIsAudited
<1>1. TurnsInv => FeedbackIsAudited
  BY DEF TurnsInv, ToldOK
<1> QED BY <1>1, TurnsInOrder, PTL
=============================================================================
