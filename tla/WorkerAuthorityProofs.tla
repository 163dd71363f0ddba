------------------------ MODULE WorkerAuthorityProofs ------------------------
(* Theorems about WorkerAuthority, for every set of sessions, executions    *)
(* and digests, every policy, every budget and every bound.                 *)
EXTENDS WorkerAuthority, FiniteSums, SequenceTheorems

-----------------------------------------------------------------------------
(* Type correctness.                                                       *)

\* The empty store is well typed.
LEMMA InitTypeOK == Init => TypeOK
BY BoundsAssumption DEF Init, TypeOK, Times, SessionRows, Statuses, AbsentSession,
   NoBudget, BudgetRecords

\* The steps that neither create nor end a session, nor record anything of it
\* in the tables that the proofs below are about.
Quiet ==
    \/ \E s \in Sessions :
        \/ StoreSessionPlan(s) \/ RevokeSessionPlan(s) \/ ConsumeToolCall(s)
        \/ \E b \in Bindings : RecordWorkerAuditEvent(s, b)
        \/ \E requested \in 1..MaxRequested : ReserveResearch(s, requested)
        \/ \E r \in DOMAIN reservations[s], accepted \in 0..MaxRequested :
                SettleResearchResults(s, r, accepted)
    \/ Crash \/ Tick \/ StepBack

LEMMA QuietKeeps ==
    Quiet => UNCHANGED <<sessions, boundary, executions, bornIn>> /\ boot' = boot
<1> USE DEF tables, history, Serving
<1>1. ASSUME NEW s \in Sessions, StoreSessionPlan(s) \/ RevokeSessionPlan(s) \/ ConsumeToolCall(s)
      PROVE  UNCHANGED <<sessions, boundary, executions, bornIn>> /\ boot' = boot
  BY <1>1 DEF StoreSessionPlan, RevokeSessionPlan, ConsumeToolCall
<1>2. ASSUME NEW s \in Sessions, NEW b \in Bindings, RecordWorkerAuditEvent(s, b)
      PROVE  UNCHANGED <<sessions, boundary, executions, bornIn>> /\ boot' = boot
  BY <1>2 DEF RecordWorkerAuditEvent
<1>3. ASSUME NEW s \in Sessions, NEW requested, ReserveResearch(s, requested)
      PROVE  UNCHANGED <<sessions, boundary, executions, bornIn>> /\ boot' = boot
  BY <1>3 DEF ReserveResearch
<1>4. ASSUME NEW s \in Sessions, NEW r, NEW accepted, SettleResearchResults(s, r, accepted)
      PROVE  UNCHANGED <<sessions, boundary, executions, bornIn>> /\ boot' = boot
  BY <1>4 DEF SettleResearchResults
<1>5. CASE Crash \/ Tick \/ StepBack
  BY <1>5 DEF Crash, Tick, StepBack
<1>. QED BY <1>1, <1>2, <1>3, <1>4, <1>5 DEF Quiet

\* Storing a well-typed row keeps the table's type.
LEMMA SetStatusTypeOK ==
    ASSUME TypeOK, NEW s \in Sessions, NEW status \in Statuses
    PROVE  [sessions EXCEPT ![s].status = status] \in [Sessions -> SessionRows]
BY DEF TypeOK, SessionRows

\* A violation record keeps the types of the two tables it writes.
LEMMA RecordViolationTypeOK ==
    ASSUME TypeOK, NEW s \in Sessions, NEW b \in Bindings, NEW code \in Codes,
           RecordViolation(s, b, code)
    PROVE  /\ sessions' \in [Sessions -> SessionRows]
           /\ boundary' \in [Sessions -> Seq(BoundaryRows)]
           /\ UNCHANGED <<budgets, plan, executions, audit, reservations>>
<1>1. \A d \in {"continue", "revoked"} : ViolationRow(b, code, d) \in BoundaryRows
  BY DEF ViolationRow, BoundaryRows, Severity, TypeOK
<1>2. PICK d \in {"continue", "revoked"} :
         boundary' = [boundary EXCEPT ![s] = Append(@, ViolationRow(b, code, d))]
  BY DEF RecordViolation
<1>3. boundary' \in [Sessions -> Seq(BoundaryRows)]
  BY <1>1, <1>2 DEF TypeOK
<1>4. sessions' \in [Sessions -> SessionRows]
  <2>1. UNCHANGED sessions \/ sessions' = [sessions EXCEPT ![s].status = "revoked"]
    BY DEF RecordViolation
  <2>2. "revoked" \in Statuses /\ sessions \in [Sessions -> SessionRows]
    BY DEF Statuses, TypeOK
  <2>. QED BY <2>1, <2>2, SetStatusTypeOK
<1>5. UNCHANGED <<budgets, plan, executions, audit, reservations>>
  BY DEF RecordViolation
<1>6. QED BY <1>3, <1>4, <1>5

\* Marking a session expired keeps the sessions table's type.
LEMMA ExpireIfDueTypeOK ==
    ASSUME TypeOK, NEW s \in Sessions, ExpireIfDue(s)
    PROVE  sessions' \in [Sessions -> SessionRows]
<1>1. UNCHANGED sessions \/ sessions' = [sessions EXCEPT ![s].status = "expired"]
  BY DEF ExpireIfDue
<1>2. "expired" \in Statuses /\ sessions \in [Sessions -> SessionRows]
  BY DEF Statuses, TypeOK
<1>. QED BY <1>1, <1>2, SetStatusTypeOK

\* Every operation of the store, crash, restart and clock step keeps the types.
LEMMA NextTypeOK == TypeOK /\ [Next]_vars => TypeOK'
<1> SUFFICES ASSUME TypeOK, [Next]_vars PROVE TypeOK'
  OBVIOUS
<1> USE DEF vars, tables, history, Serving
<1>1. ASSUME NEW s \in Sessions, NEW initial \in InitialBudgets,
             NEW expiresAt \in 1..(MaxTime + 1), CreateSession(s, initial, expiresAt)
      PROVE  TypeOK'
  <2> DEFINE row == [status |-> "active", startsAt |-> now, expiresAt |-> expiresAt]
  <2>1. row \in SessionRows /\ initial \in BudgetRecords
    BY BudgetsAssumption, BoundsAssumption DEF TypeOK, SessionRows, Statuses
  <2>2. sessions' = [sessions EXCEPT ![s] = row]
    BY <1>1 DEF CreateSession
  <2> HIDE DEF row
  <2>3. sessions' \in [Sessions -> SessionRows]
    BY <2>1, <2>2 DEF TypeOK
  <2>4. budgets' \in [Sessions -> BudgetRecords] /\ granted' \in [Sessions -> BudgetRecords]
    BY <1>1, <2>1 DEF CreateSession, TypeOK
  <2>5. bornIn' \in [Sessions -> Nat]
    BY <1>1 DEF CreateSession, TypeOK
  <2>. QED BY <1>1, <2>3, <2>4, <2>5 DEF CreateSession, TypeOK
<1>2. ASSUME NEW s \in Sessions, StoreSessionPlan(s) \/ RevokeSessionPlan(s)
      PROVE  TypeOK'
  BY <1>2 DEF StoreSessionPlan, RevokeSessionPlan, TypeOK
<1>3. ASSUME NEW s \in Sessions, ConsumeToolCall(s) PROVE TypeOK'
  <2> DEFINE row == budgets[s]
  <2>1. row \in BudgetRecords /\ row.toolCalls - 1 \in Nat
    BY <1>3 DEF ConsumeToolCall, TypeOK, BudgetRecords
  <2>2. budgets' = [budgets EXCEPT ![s] = [row EXCEPT !.toolCalls = row.toolCalls - 1]]
    BY <1>3 DEF ConsumeToolCall
  <2>3. [row EXCEPT !.toolCalls = row.toolCalls - 1] \in BudgetRecords
    BY <2>1 DEF BudgetRecords
  <2>4. budgets' \in [Sessions -> BudgetRecords]
    BY <2>2, <2>3 DEF TypeOK
  <2>5. QED BY <1>3, <2>4 DEF ConsumeToolCall, TypeOK
<1>4. ASSUME NEW s \in Sessions, NEW b \in Bindings, NEW tool \in Tools,
             ConsumeWorkerExecution(s, b, tool)
      PROVE  TypeOK'
  <2>1. CASE ExpireIfDue(s)
    BY <1>4, <2>1, ExpireIfDueTypeOK DEF ConsumeWorkerExecution, ExpireIfDue, TypeOK
  <2>2. CASE \E code \in {"execution_replay", "volume_exhausted"} : RecordViolation(s, b, code)
    BY <1>4, <2>2, RecordViolationTypeOK
       DEF ConsumeWorkerExecution, TypeOK, Codes, OrdinaryCodes, CriticalCodes
  <2>3. CASE ClaimExecution(s, b, tool)
    <3>1. [session |-> s, binding |-> b, tool |-> tool] \in ExecutionRows
      BY DEF ExecutionRows
    <3>2. budgets' \in [Sessions -> BudgetRecords]
      <4> DEFINE row == budgets[s]
                 calls == row.toolCalls - ToolCallCost(tool)
                 commands == row.localCommands - LocalCommandCost(tool)
      <4>1. row \in BudgetRecords /\ calls \in Nat /\ commands \in Nat
        <5>1. row \in BudgetRecords
          BY DEF TypeOK
        <5>2. row.toolCalls \in Nat /\ row.localCommands \in Nat
          BY <5>1 DEF BudgetRecords
        <5>3. row.toolCalls >= 1 /\ row.localCommands >= LocalCommandCost(tool)
          BY <2>3 DEF ClaimExecution, Affordable
        <5>4. ToolCallCost(tool) \in {0, 1} /\ LocalCommandCost(tool) \in {0, 1}
          BY DEF ToolCallCost, LocalCommandCost
        <5>. QED BY <5>1, <5>2, <5>3, <5>4
      <4>2. budgets' = [budgets EXCEPT ![s] =
                [row EXCEPT !.toolCalls = calls, !.localCommands = commands]]
        BY <2>3, <4>1 DEF ClaimExecution, TypeOK, BudgetRecords
      <4>3. [row EXCEPT !.toolCalls = calls, !.localCommands = commands] \in BudgetRecords
        BY <4>1 DEF BudgetRecords
      <4>4. QED BY <4>2, <4>3 DEF TypeOK
    <3>3. QED BY <1>4, <2>3, <3>1, <3>2 DEF ConsumeWorkerExecution, ClaimExecution, TypeOK
  <2>4. QED BY <1>4, <2>1, <2>2, <2>3 DEF ConsumeWorkerExecution
<1>5. ASSUME NEW s \in Sessions, NEW b \in Bindings, NEW code \in Codes,
             RecordWorkerViolation(s, b, code)
      PROVE  TypeOK'
  <2>1. CASE ExpireIfDue(s)
    BY <1>5, <2>1, ExpireIfDueTypeOK DEF RecordWorkerViolation, ExpireIfDue, TypeOK
  <2>2. CASE RecordViolation(s, b, code)
    BY <1>5, <2>2, RecordViolationTypeOK DEF RecordWorkerViolation, TypeOK
  <2>3. QED BY <1>5, <2>1, <2>2 DEF RecordWorkerViolation
<1>6. ASSUME NEW s \in Sessions, NEW b \in Bindings, InterruptWorkerSession(s, b)
      PROVE  TypeOK'
  <2>1. CASE ExpireIfDue(s)
    BY <1>6, <2>1, ExpireIfDueTypeOK DEF InterruptWorkerSession, ExpireIfDue, TypeOK
  <2>2. CASE Usable(s) /\ ~ExpireIfDue(s)
    <3> DEFINE row == [binding |-> b, kind |-> "interruption", severity |-> "failure",
                       disposition |-> "interrupted", at |-> now]
    <3>1. row \in BoundaryRows
      BY DEF BoundaryRows, TypeOK
    <3>2. boundary' = [boundary EXCEPT ![s] = Append(@, row)]
      BY <1>6, <2>2 DEF InterruptWorkerSession
    <3>3. boundary' \in [Sessions -> Seq(BoundaryRows)]
      BY <3>1, <3>2 DEF TypeOK
    <3>4. sessions' \in [Sessions -> SessionRows]
      <4>1. sessions' = [sessions EXCEPT ![s].status = "interrupted"]
        BY <1>6, <2>2 DEF InterruptWorkerSession, SetStatus
      <4>2. "interrupted" \in Statuses
        BY DEF Statuses
      <4>. QED BY <4>1, <4>2, SetStatusTypeOK
    <3>5. QED BY <1>6, <2>2, <3>3, <3>4 DEF InterruptWorkerSession, TypeOK
  <2>3. QED BY <1>6, <2>1, <2>2 DEF InterruptWorkerSession
<1>7. ASSUME NEW s \in Sessions, NEW b \in Bindings, RecordWorkerAuditEvent(s, b)
      PROVE  TypeOK'
  <2>1. AuditRow("worker.step", b) \in AuditRows
    BY DEF AuditRow, AuditRows, TypeOK
  <2>2. audit' \in [Sessions -> Seq(AuditRows)]
    BY <1>7, <2>1 DEF RecordWorkerAuditEvent, TypeOK
  <2>3. QED BY <1>7, <2>2 DEF RecordWorkerAuditEvent, TypeOK
<1>8. ASSUME NEW s \in Sessions, NEW b \in Bindings, CompleteWorkerSession(s, b)
      PROVE  TypeOK'
  <2>1. CASE ExpireIfDue(s)
    BY <1>8, <2>1, ExpireIfDueTypeOK DEF CompleteWorkerSession, ExpireIfDue, TypeOK
  <2>2. CASE Usable(s) /\ ~ExpireIfDue(s)
    <3> DEFINE ending == <<AuditRow("worker.completion.returned", b),
                           AuditRow("session.terminal", b)>>
    <3>1. ending \in Seq(AuditRows)
      BY DEF AuditRow, AuditRows, TypeOK
    <3>2. audit' = [audit EXCEPT ![s] = @ \o ending]
      BY <1>8, <2>2 DEF CompleteWorkerSession
    <3>3. audit' \in [Sessions -> Seq(AuditRows)]
      BY <3>1, <3>2 DEF TypeOK
    <3>4. sessions' \in [Sessions -> SessionRows]
      <4>1. sessions' = [sessions EXCEPT ![s].status = "completed"]
        BY <1>8, <2>2 DEF CompleteWorkerSession, SetStatus
      <4>2. "completed" \in Statuses
        BY DEF Statuses
      <4>. QED BY <4>1, <4>2, SetStatusTypeOK
    <3>5. QED BY <1>8, <2>2, <3>3, <3>4 DEF CompleteWorkerSession, TypeOK
  <2>3. QED BY <1>8, <2>1, <2>2 DEF CompleteWorkerSession
<1>9. ASSUME NEW s \in Sessions, NEW requested \in 1..MaxRequested, ReserveResearch(s, requested)
      PROVE  TypeOK'
  <2> DEFINE row == [reserved |-> requested, accepted |-> 0, settled |-> FALSE]
  <2>1. row \in ReservationRows
    BY PolicyAssumption DEF ReservationRows
  <2>2. reservations' = [reservations EXCEPT ![s] = Append(@, row)]
    BY <1>9 DEF ReserveResearch
  <2>3. reservations' \in [Sessions -> Seq(ReservationRows)]
    BY <2>1, <2>2 DEF TypeOK
  <2>4. budgets' \in [Sessions -> BudgetRecords]
    <3> DEFINE old == budgets[s]
               calls == old.toolCalls - 1
               requests == old.researchRequests - 1
               results == old.researchResults - requested
    <3>1. old \in BudgetRecords /\ calls \in Nat /\ requests \in Nat /\ results \in Nat
      <4>1. old \in BudgetRecords /\ requested \in Nat
        BY PolicyAssumption DEF TypeOK
      <4>2. old.toolCalls >= 1 /\ old.researchRequests >= 1 /\ old.researchResults >= requested
        BY <1>9 DEF ReserveResearch
      <4>3. QED BY <4>1, <4>2 DEF BudgetRecords
    <3>2. budgets' = [budgets EXCEPT ![s] =
              [old EXCEPT !.toolCalls = calls, !.researchRequests = requests,
                          !.researchResults = results]]
      BY <1>9, <3>1 DEF ReserveResearch, TypeOK, BudgetRecords
    <3>3. [old EXCEPT !.toolCalls = calls, !.researchRequests = requests,
                      !.researchResults = results] \in BudgetRecords
      BY <3>1 DEF BudgetRecords
    <3>4. QED BY <3>2, <3>3 DEF TypeOK
  <2>5. QED BY <1>9, <2>3, <2>4 DEF ReserveResearch, TypeOK
<1>10. ASSUME NEW s \in Sessions, NEW r \in DOMAIN reservations[s],
              NEW accepted \in 0..MaxRequested, SettleResearchResults(s, r, accepted)
       PROVE  TypeOK'
  <2> DEFINE old == reservations[s][r]
             new == [old EXCEPT !.accepted = accepted, !.settled = TRUE]
  <2>1. reservations[s] \in Seq(ReservationRows) /\ old \in ReservationRows
    BY DEF TypeOK
  <2>2. new \in ReservationRows
    BY <2>1 DEF ReservationRows
  <2>3. reservations' = [reservations EXCEPT ![s] = [@ EXCEPT ![r] = new]]
    BY <1>10 DEF SettleResearchResults
  <2>4. [reservations[s] EXCEPT ![r] = new] \in Seq(ReservationRows)
    BY <2>1, <2>2
  <2>5. reservations' \in [Sessions -> Seq(ReservationRows)]
    BY <2>3, <2>4 DEF TypeOK
  <2>6. old.reserved - accepted \in Nat
    <3>1. old.reserved \in Nat /\ accepted \in Nat
      BY <2>1, PolicyAssumption DEF ReservationRows
    <3>2. accepted <= old.reserved
      BY <1>10 DEF SettleResearchResults
    <3>. QED BY <3>1, <3>2
  <2>7. budgets' \in [Sessions -> BudgetRecords]
    <3> DEFINE row == budgets[s]
               results == row.researchResults + (old.reserved - accepted)
    <3>1. row \in BudgetRecords /\ results \in Nat
      <4>1. row \in BudgetRecords
        BY DEF TypeOK
      <4>2. row.researchResults \in Nat
        BY <4>1 DEF BudgetRecords
      <4>. HIDE DEF row
      <4>. QED BY <2>6, <4>1, <4>2
    <3>2. budgets' = [budgets EXCEPT ![s] = [row EXCEPT !.researchResults = results]]
      BY <1>10 DEF SettleResearchResults
    <3>3. [row EXCEPT !.researchResults = results] \in BudgetRecords
      BY <3>1 DEF BudgetRecords
    <3>4. QED BY <3>2, <3>3 DEF TypeOK
  <2>8. QED BY <1>10, <2>5, <2>7 DEF SettleResearchResults, TypeOK
<1>11. CASE Crash
  BY <1>11 DEF Crash, TypeOK
<1>12. CASE Restart
  <2>1. sessions' \in [Sessions -> SessionRows]
    BY <1>12 DEF Restart, TypeOK, SessionRows, Statuses
  <2>2. QED BY <1>12, <2>1 DEF Restart, TypeOK
<1>13. CASE Tick \/ StepBack
  BY <1>13, BoundsAssumption DEF Tick, StepBack, TypeOK, Times
<1>14. CASE UNCHANGED vars
  BY <1>14 DEF TypeOK
<1>15. QED
  BY <1>1, <1>2, <1>3, <1>4, <1>5, <1>6, <1>7, <1>8, <1>9, <1>10, <1>11, <1>12,
     <1>13, <1>14 DEF Next

\* Every table keeps rows of its columns' types: no operation of the store, no
\* crash and no movement of the clock takes a budget below zero.
THEOREM TypeCorrect == Spec => []TypeOK
<1>1. QED BY InitTypeOK, NextTypeOK, PTL DEF Spec

-----------------------------------------------------------------------------
(* Revocation is a function of the durable log.                            *)

\* An event triggers or not by the rows up to it: later ones do not matter.
LEMMA TriggersOfPrefix ==
    ASSUME NEW log \in Seq(BoundaryRows), NEW row \in BoundaryRows, NEW i \in DOMAIN log
    PROVE  Triggers(Append(log, row), i) <=> Triggers(log, i)
<1> DEFINE longer == Append(log, row)
<1>1. /\ i \in 1..Len(log)
      /\ longer \in Seq(BoundaryRows)
      /\ Len(longer) = Len(log) + 1
      /\ \A j \in 1..Len(log) : longer[j] = log[j]
  OBVIOUS
<1>2. SubSeq(longer, 1, i) = SubSeq(log, 1, i)
  BY <1>1
<1>3. QED BY <1>1, <1>2 DEF Triggers

\* What recordWorkerViolationInTransaction does: the new row, and revocation
\* exactly when that row is a trigger of the log it ends.
LEMMA RecordViolationTriggers ==
    ASSUME TypeOK, NEW s \in Sessions, NEW b \in Bindings, NEW code \in Codes,
           RecordViolation(s, b, code)
    PROVE  \E row \in BoundaryRows :
              /\ boundary' = [boundary EXCEPT ![s] = Append(@, row)]
              /\ sessions' = IF Triggers(Append(boundary[s], row), Len(boundary[s]) + 1)
                             THEN [sessions EXCEPT ![s].status = "revoked"]
                             ELSE sessions
<1> DEFINE first == ViolationRow(b, code, "continue")
           inserted == Append(boundary[s], first)
           revoke == \/ Severity(code) = "critical"
                     \/ Cardinality(OrdinaryInWindow(inserted, now)) >= RepeatThreshold
           row == ViolationRow(b, code, IF revoke THEN "revoked" ELSE "continue")
           final == Append(boundary[s], row)
           last == Len(boundary[s]) + 1
<1>1. first \in BoundaryRows /\ row \in BoundaryRows /\ boundary[s] \in Seq(BoundaryRows)
  BY DEF ViolationRow, BoundaryRows, Severity, TypeOK
<1>2. /\ boundary' = [boundary EXCEPT ![s] = Append(@, row)]
      /\ sessions' = IF revoke THEN [sessions EXCEPT ![s].status = "revoked"] ELSE sessions
  BY DEF RecordViolation
<1>3. /\ DOMAIN inserted = 1..last /\ DOMAIN final = 1..last
      /\ final[last] = row /\ inserted[last] = first
      /\ \A i \in 1..Len(boundary[s]) : inserted[i] = boundary[s][i] /\ final[i] = boundary[s][i]
  BY <1>1
<1>4. row.at = now /\ row.kind = "violation" /\ row.severity = Severity(code)
  BY DEF ViolationRow
<1>5. first.at = now /\ first.kind = "violation" /\ first.severity = Severity(code)
  BY DEF ViolationRow
<1>6. OrdinaryInWindow(inserted, now) = OrdinaryInWindow(final, now)
  <2> HIDE DEF inserted, final, row, first
  <2>1. \A i \in 1..last : /\ inserted[i].kind = final[i].kind
                           /\ inserted[i].severity = final[i].severity
                           /\ inserted[i].at = final[i].at
    BY <1>1, <1>3, <1>4, <1>5
  <2>2. QED BY <1>3, <2>1 DEF OrdinaryInWindow
<1>7. SubSeq(final, 1, last) = final
  BY <1>1, <1>3
<1>8. Triggers(final, last) <=> revoke
  <2> HIDE DEF inserted, final, row, first
  <2>1. Triggers(final, last) <=>
            \/ Severity(code) = "critical"
            \/ Cardinality(OrdinaryInWindow(final, now)) >= RepeatThreshold
    BY <1>3, <1>4, <1>7 DEF Triggers
  <2>2. QED BY <1>6, <2>1
<1>9. QED BY <1>1, <1>2, <1>8

RevokedByLogOf(status, log) ==
    /\ (status = "revoked") <=> \E i \in DOMAIN log : Triggers(log, i)
    /\ \A i \in DOMAIN log : Triggers(log, i) => i = Len(log)

\* A row added to a log that has no trigger keeps the log's account of the
\* session's status.
LEMMA AppendKeepsAccount ==
    ASSUME NEW log \in Seq(BoundaryRows), NEW row \in BoundaryRows, NEW status,
           \A i \in DOMAIN log : ~Triggers(log, i),
           (status = "revoked") <=> Triggers(Append(log, row), Len(log) + 1)
    PROVE  RevokedByLogOf(status, Append(log, row))
<1> DEFINE longer == Append(log, row)
<1>1. DOMAIN longer = 1..(Len(log) + 1) /\ Len(longer) = Len(log) + 1 /\ DOMAIN log = 1..Len(log)
      /\ Len(log) \in Nat
  OBVIOUS
<1>2. \A i \in DOMAIN log : ~Triggers(longer, i)
  BY TriggersOfPrefix
<1> HIDE DEF longer
<1>3. \A i \in DOMAIN longer : Triggers(longer, i) => i = Len(longer)
  BY <1>1, <1>2
<1>4. Len(longer) \in DOMAIN longer
  BY <1>1
<1>5. QED BY <1>1, <1>3, <1>4 DEF RevokedByLogOf, longer

\* A step that leaves the log alone and neither makes nor unmakes a revocation.
LEMMA SameAccount ==
    ASSUME RevokedByLog, NEW s \in Sessions, boundary'[s] = boundary[s],
           (sessions'[s].status = "revoked") <=> (sessions[s].status = "revoked")
    PROVE  RevokedByLogOf(sessions'[s].status, boundary'[s])
BY DEF RevokedByLog, RevokedByLogOf

\* Every step keeps revocation a function of the log: only an operation on a
\* usable session, whose log has no trigger, appends to it.
LEMMA NextRevokedByLog == TypeOK /\ RevokedByLog /\ [Next]_vars => RevokedByLog'
<1> SUFFICES ASSUME TypeOK, RevokedByLog, [Next]_vars, NEW x \in Sessions
             PROVE  RevokedByLogOf(sessions'[x].status, boundary'[x])
  BY DEF RevokedByLog, RevokedByLogOf, Triggers, OrdinaryInWindow
<1> USE DEF vars, tables, history, Serving
<1>0. \A s \in Sessions : Usable(s) =>
          /\ sessions[s].status = "active"
          /\ \A i \in DOMAIN boundary[s] : ~Triggers(boundary[s], i)
  BY DEF Usable, Active, RevokedByLog
<1>a. ASSUME NEW s \in Sessions, NEW b \in Bindings, NEW code \in Codes, Usable(s),
             RecordViolation(s, b, code)
      PROVE  RevokedByLogOf(sessions'[x].status, boundary'[x])
  <2>1. PICK row \in BoundaryRows :
            /\ boundary' = [boundary EXCEPT ![s] = Append(@, row)]
            /\ sessions' = IF Triggers(Append(boundary[s], row), Len(boundary[s]) + 1)
                           THEN [sessions EXCEPT ![s].status = "revoked"]
                           ELSE sessions
    BY <1>a, RecordViolationTriggers
  <2>2. CASE x = s
    <3>1. boundary'[s] = Append(boundary[s], row) /\ boundary[s] \in Seq(BoundaryRows)
      BY <2>1 DEF TypeOK
    <3>2. sessions[s].status = "active" /\ \A i \in DOMAIN boundary[s] : ~Triggers(boundary[s], i)
      BY <1>a, <1>0
    <3>3. sessions'[s].status = "revoked" <=>
              Triggers(Append(boundary[s], row), Len(boundary[s]) + 1)
      BY <2>1, <3>2 DEF TypeOK, SessionRows
    <3>4. QED BY <2>2, <3>1, <3>2, <3>3, AppendKeepsAccount
  <2>3. CASE x # s
    BY <2>1, <2>3, SameAccount DEF TypeOK
  <2>4. QED BY <2>2, <2>3
<1>b. ASSUME NEW s \in Sessions, ExpireIfDue(s)
      PROVE  RevokedByLogOf(sessions'[x].status, boundary'[x])
  <2>1. sessions'[x].status = "revoked" <=> sessions[x].status = "revoked"
    BY <1>b DEF ExpireIfDue, Active, TypeOK, SessionRows
  <2>2. QED BY <1>b, <2>1, SameAccount DEF ExpireIfDue
<1>1. ASSUME NEW s \in Sessions, NEW initial \in InitialBudgets,
             NEW expiresAt \in 1..(MaxTime + 1), CreateSession(s, initial, expiresAt)
      PROVE  RevokedByLogOf(sessions'[x].status, boundary'[x])
  <2>1. sessions'[x].status = "revoked" <=> sessions[x].status = "revoked"
    BY <1>1 DEF CreateSession, Exists, TypeOK, SessionRows
  <2>2. QED BY <1>1, <2>1, SameAccount DEF CreateSession
<1>2. ASSUME NEW s \in Sessions, NEW b \in Bindings, NEW tool \in Tools,
             ConsumeWorkerExecution(s, b, tool)
      PROVE  RevokedByLogOf(sessions'[x].status, boundary'[x])
  <2>1. CASE \E code \in {"execution_replay", "volume_exhausted"} :
                 Usable(s) /\ RecordViolation(s, b, code)
    BY <1>a, <2>1 DEF Codes, OrdinaryCodes, CriticalCodes
  <2>2. CASE ClaimExecution(s, b, tool)
    BY <2>2, SameAccount DEF ClaimExecution
  <2>3. QED BY <1>2, <1>b, <2>1, <2>2 DEF ConsumeWorkerExecution
<1>3. ASSUME NEW s \in Sessions, NEW b \in Bindings, NEW code \in Codes,
             RecordWorkerViolation(s, b, code)
      PROVE  RevokedByLogOf(sessions'[x].status, boundary'[x])
  BY <1>3, <1>a, <1>b DEF RecordWorkerViolation
<1>4. ASSUME NEW s \in Sessions, NEW b \in Bindings, InterruptWorkerSession(s, b)
      PROVE  RevokedByLogOf(sessions'[x].status, boundary'[x])
  <2> DEFINE row == [binding |-> b, kind |-> "interruption", severity |-> "failure",
                     disposition |-> "interrupted", at |-> now]
  <2>1. CASE /\ Usable(s)
             /\ boundary' = [boundary EXCEPT ![s] = Append(@, row)]
             /\ sessions' = [sessions EXCEPT ![s].status = "interrupted"]
    <3>1. CASE x = s
      <4>1. row \in BoundaryRows /\ boundary[s] \in Seq(BoundaryRows)
        BY DEF BoundaryRows, TypeOK
      <4>2. boundary'[s] = Append(boundary[s], row) /\ sessions'[s].status = "interrupted"
        BY <2>1 DEF TypeOK, SessionRows
      <4>3. ~Triggers(Append(boundary[s], row), Len(boundary[s]) + 1)
        <5>1. Append(boundary[s], row)[Len(boundary[s]) + 1] = row
          BY <4>1
        <5>2. QED BY <5>1 DEF Triggers
      <4>4. \A i \in DOMAIN boundary[s] : ~Triggers(boundary[s], i)
        BY <2>1, <1>0
      <4>5. QED BY <3>1, <4>1, <4>2, <4>3, <4>4, AppendKeepsAccount
    <3>2. CASE x # s
      BY <2>1, <3>2, SameAccount DEF TypeOK
    <3>3. QED BY <3>1, <3>2
  <2>2. QED BY <1>4, <1>b, <2>1 DEF InterruptWorkerSession, SetStatus
<1>5. ASSUME NEW s \in Sessions, NEW b \in Bindings, CompleteWorkerSession(s, b)
      PROVE  RevokedByLogOf(sessions'[x].status, boundary'[x])
  <2>1. CASE /\ Usable(s)
             /\ boundary' = boundary
             /\ sessions' = [sessions EXCEPT ![s].status = "completed"]
    <3>1. sessions'[x].status = "revoked" <=> sessions[x].status = "revoked"
      BY <1>0, <2>1 DEF TypeOK, SessionRows
    <3>2. QED BY <2>1, <3>1, SameAccount
  <2>2. QED BY <1>5, <1>b, <2>1 DEF CompleteWorkerSession, SetStatus
<1>6. CASE Restart
  <2>1. sessions'[x].status = "revoked" <=> sessions[x].status = "revoked"
    BY <1>6 DEF Restart, Active, TypeOK, SessionRows
  <2>2. QED BY <1>6, <2>1, SameAccount DEF Restart
<1>7. CASE UNCHANGED <<sessions, boundary>>
  BY <1>7, SameAccount
<1>8. CASE Quiet
  BY <1>7, <1>8, QuietKeeps
<1>9. CASE UNCHANGED vars
  BY <1>7, <1>9
<1>. QED BY <1>1, <1>2, <1>3, <1>4, <1>5, <1>6, <1>8, <1>9 DEF Next, Quiet

\* A session is revoked exactly when the log of its boundary events ends in one
\* that the policy revokes on: recordWorkerViolationInTransaction, under every
\* interleaving of the operations and every movement of the clock.
THEOREM RevocationByLog == Spec => []RevokedByLog
<1>1. Init => RevokedByLog
  BY DEF Init, RevokedByLog, AbsentSession
<1>2. QED BY <1>1, InitTypeOK, NextTypeOK, NextRevokedByLog, PTL DEF Spec

\* A finite set of naturals that is not empty has a largest element.
LEMMA LargestIndex ==
    ASSUME NEW n \in Nat, NEW S \in SUBSET (1..n), S # {}
    PROVE  \E m \in S : \A i \in S : i <= m
<1> DEFINE Upper == {k \in Nat : \A i \in S : i <= k}
<1>1. Upper \subseteq Nat /\ n \in Upper
  OBVIOUS
<1>2. PICK m \in Upper : \A k \in Upper : ~(<<k, m>> \in OpToRel(<, Nat))
  BY <1>1, WFMin, NatLessThanWellFounded, Zenon
<1>3. \A k \in Upper : ~(k < m)
  BY <1>2 DEF OpToRel
<1>4. m \in S
  <2> SUFFICES ASSUME m \notin S PROVE FALSE
    OBVIOUS
  <2>1. PICK i \in S : TRUE
    OBVIOUS
  <2>2. m - 1 \in Upper
    BY <2>1
  <2>3. QED BY <1>3, <2>2
<1>5. QED BY <1>4

\* The threshold of ADR-0019 on every log that is in time order: three
\* ordinary violations inside one inclusive window revoke.
THEOREM ThresholdRevokes == Spec => []ThirdInWindowRevokes
<1>1. TypeOK /\ RevokedByLog => ThirdInWindowRevokes
  <2> SUFFICES ASSUME TypeOK, RevokedByLog, NEW s \in Sessions,
                      Chronological(boundary[s]), WindowIsFull(s)
               PROVE  sessions[s].status = "revoked"
    BY DEF ThirdInWindowRevokes
  <2> DEFINE log == boundary[s]
  <2>1. log \in Seq(BoundaryRows) /\ Len(log) \in Nat /\ DOMAIN log = 1..Len(log)
    BY DEF TypeOK
  <2>2. PICK at \in Times : Cardinality(OrdinaryInWindow(log, at)) >= RepeatThreshold
    BY DEF WindowIsFull
  <2> DEFINE S == OrdinaryInWindow(log, at)
  <2>3. S \in SUBSET (1..Len(log)) /\ IsFiniteSet(S)
    <3>1. S \in SUBSET (1..Len(log))
      BY <2>1 DEF OrdinaryInWindow
    <3>2. IsFiniteSet(1..Len(log))
      BY <2>1, FS_Interval
    <3> HIDE DEF S
    <3>3. QED BY <3>1, <3>2, FS_Subset
  <2>4. S # {}
    BY <2>2, FS_EmptySet, PolicyAssumption
  <2>5. PICK m \in S : \A i \in S : i <= m
    BY <2>1, <2>3, <2>4, LargestIndex
  <2> DEFINE prefix == SubSeq(log, 1, m)
             W == OrdinaryInWindow(prefix, log[m].at)
  <2>6. /\ m \in 1..Len(log) /\ DOMAIN prefix = 1..m
        /\ \A i \in 1..m : prefix[i] = log[i]
    BY <2>1, <2>3
  <2>7. \A i \in 1..Len(log) : log[i].at \in Int
    <3>1. \A i \in 1..Len(log) : log[i] \in BoundaryRows
      BY <2>1
    <3>2. QED BY <3>1, BoundsAssumption DEF BoundaryRows, Times
  <2>8. S \subseteq W
    <3> SUFFICES ASSUME NEW i \in S PROVE i \in W
      OBVIOUS
    <3>1. i \in 1..m /\ i \in DOMAIN log /\ m \in DOMAIN log /\ i <= m
      BY <2>1, <2>3, <2>5, <2>6
    <3>2. /\ log[i].kind = "violation" /\ log[i].severity = "ordinary"
          /\ at - WindowSeconds <= log[i].at /\ log[i].at <= at /\ log[m].at <= at
      BY DEF OrdinaryInWindow
    <3>3. log[i].at <= log[m].at
      BY <3>1 DEF Chronological
    <3>4. log[m].at - WindowSeconds <= log[i].at
      BY <2>1, <2>7, <3>1, <3>2, PolicyAssumption DEF Times
    <3> HIDE DEF prefix, log, S
    <3>5. QED BY <2>6, <3>1, <3>2, <3>3, <3>4 DEF OrdinaryInWindow
  <2>9. IsFiniteSet(W) /\ Cardinality(W) >= RepeatThreshold
    <3>1. W \in SUBSET (1..m)
      BY <2>6 DEF OrdinaryInWindow
    <3>2. IsFiniteSet(W)
      BY <2>6, <3>1, FS_Interval, FS_Subset
    <3>3. Cardinality(S) <= Cardinality(W) /\ Cardinality(S) \in Nat /\ Cardinality(W) \in Nat
      BY <2>3, <2>8, <3>2, FS_Subset, FS_CardinalityType
    <3>4. QED BY <2>2, <3>2, <3>3, PolicyAssumption
  <2>10. Triggers(log, m)
    <3>1. log[m].kind = "violation"
      BY DEF OrdinaryInWindow
    <3>2. QED BY <2>9, <3>1 DEF Triggers
  <2>11. QED BY <2>1, <2>6, <2>10 DEF RevokedByLog
<1>2. QED BY <1>1, TypeCorrect, RevocationByLog, PTL

-----------------------------------------------------------------------------
(* Claims.                                                                  *)

\* A claim adds an execution no earlier one collides with; nothing else
\* touches the table.
LEMMA NextClaimedOnce == ClaimedOnce /\ [Next]_vars => ClaimedOnce'
<1> SUFFICES ASSUME ClaimedOnce, [Next]_vars PROVE ClaimedOnce'
  OBVIOUS
<1> USE DEF vars, tables, history, Serving
<1>1. ASSUME NEW s \in Sessions, NEW b \in Bindings, NEW tool \in Tools,
             ClaimExecution(s, b, tool)
      PROVE  ClaimedOnce'
  <2> DEFINE row == [session |-> s, binding |-> b, tool |-> tool]
  <2>1. executions' = executions \cup {row}
    BY <1>1 DEF ClaimExecution
  <2>2. \A e \in executions :
            /\ e.binding.id # row.binding.id
            /\ ~(e.session = row.session /\ e.binding.digest = row.binding.digest)
    BY <1>1 DEF ClaimExecution, PriorExecution
  <2>3. QED BY <2>1, <2>2 DEF ClaimedOnce
<1>2. ASSUME UNCHANGED executions PROVE ClaimedOnce'
  BY <1>2 DEF ClaimedOnce
<1>3. ASSUME NEW s \in Sessions, NEW b \in Bindings, NEW tool \in Tools,
             ConsumeWorkerExecution(s, b, tool)
      PROVE  UNCHANGED executions \/ ClaimExecution(s, b, tool)
  BY <1>3 DEF ConsumeWorkerExecution, ExpireIfDue, RecordViolation
<1>4. ASSUME NEW s \in Sessions, NEW b \in Bindings,
             \/ \E code \in Codes : RecordWorkerViolation(s, b, code)
             \/ InterruptWorkerSession(s, b)
             \/ RecordWorkerAuditEvent(s, b)
             \/ CompleteWorkerSession(s, b)
      PROVE  UNCHANGED executions
  BY <1>4 DEF RecordWorkerViolation, InterruptWorkerSession, RecordWorkerAuditEvent,
              CompleteWorkerSession, ExpireIfDue, RecordViolation
<1>5. CASE UNCHANGED vars \/ Crash \/ Restart \/ Tick \/ StepBack
  BY <1>2, <1>5 DEF Crash, Restart, Tick, StepBack
<1>6. ASSUME NEW s, NEW initial, NEW expiresAt, CreateSession(s, initial, expiresAt)
      PROVE  UNCHANGED executions
  BY <1>6 DEF CreateSession
<1>7. CASE Quiet
  BY <1>2, <1>7, QuietKeeps
<1>. QED BY <1>1, <1>2, <1>3, <1>4, <1>5, <1>6, <1>7 DEF Next, Quiet

\* An execution id is claimed by one session only, and a digest once per
\* session, across every session, restart and movement of the clock.
THEOREM ClaimsAreUnique == Spec => []ClaimedOnce
<1>1. Init => ClaimedOnce
  BY DEF Init, ClaimedOnce
<1>2. QED BY <1>1, NextClaimedOnce, PTL DEF Spec

-----------------------------------------------------------------------------
(* Restarts.                                                                *)

\* Only its creation makes a session active; a restart leaves none active.
LEMMA ActiveIsOld ==
    ASSUME TypeOK, [Next]_vars, NEW x \in Sessions, sessions'[x].status = "active"
    PROVE  \/ sessions[x].status = "active" /\ bornIn'[x] = bornIn[x] /\ boot' = boot
           \/ bornIn'[x] = boot'
<1> USE DEF vars, tables, history, Serving
<1>1. ASSUME NEW s \in Sessions, NEW status \in Statuses \ {"active"},
             SetStatus(s, status), UNCHANGED <<bornIn, boot>>
      PROVE  sessions[x].status = "active" /\ bornIn'[x] = bornIn[x] /\ boot' = boot
  BY <1>1 DEF SetStatus, TypeOK, SessionRows
<1>2. ASSUME NEW s \in Sessions, NEW initial \in InitialBudgets,
             NEW expiresAt \in 1..(MaxTime + 1), CreateSession(s, initial, expiresAt)
      PROVE  \/ sessions[x].status = "active" /\ bornIn'[x] = bornIn[x] /\ boot' = boot
             \/ bornIn'[x] = boot'
  BY <1>2 DEF CreateSession, TypeOK
<1>3. CASE Restart
  BY <1>3 DEF Restart, Active, TypeOK, SessionRows
<1>4. CASE UNCHANGED <<sessions, bornIn, boot>>
  BY <1>4
<1>5. ASSUME NEW s \in Sessions, ExpireIfDue(s), UNCHANGED <<bornIn, boot>>
      PROVE  sessions[x].status = "active" /\ bornIn'[x] = bornIn[x] /\ boot' = boot
  BY <1>1, <1>5 DEF ExpireIfDue, SetStatus, Statuses
<1>6. ASSUME NEW s \in Sessions, NEW b \in Bindings, NEW code \in Codes,
             RecordViolation(s, b, code), UNCHANGED <<bornIn, boot>>
      PROVE  sessions[x].status = "active" /\ bornIn'[x] = bornIn[x] /\ boot' = boot
  <2>1. UNCHANGED sessions \/ SetStatus(s, "revoked")
    BY <1>6 DEF RecordViolation, SetStatus
  <2>2. QED BY <1>1, <1>6, <2>1 DEF Statuses
<1>7. \A code \in {"execution_replay", "volume_exhausted"} : code \in Codes
  BY DEF Codes, OrdinaryCodes, CriticalCodes
<1>8. ASSUME NEW s \in Sessions, NEW b \in Bindings, NEW tool \in Tools,
             ConsumeWorkerExecution(s, b, tool)
      PROVE  sessions[x].status = "active" /\ bornIn'[x] = bornIn[x] /\ boot' = boot
  BY <1>5, <1>6, <1>7, <1>8 DEF ConsumeWorkerExecution, ClaimExecution
<1>9. ASSUME NEW s \in Sessions, NEW b \in Bindings, NEW code \in Codes,
             RecordWorkerViolation(s, b, code)
      PROVE  sessions[x].status = "active" /\ bornIn'[x] = bornIn[x] /\ boot' = boot
  BY <1>5, <1>6, <1>9 DEF RecordWorkerViolation
<1>10. ASSUME NEW s \in Sessions, NEW b \in Bindings,
              InterruptWorkerSession(s, b) \/ CompleteWorkerSession(s, b)
       PROVE  sessions[x].status = "active" /\ bornIn'[x] = bornIn[x] /\ boot' = boot
  BY <1>1, <1>5, <1>10 DEF InterruptWorkerSession, CompleteWorkerSession, Statuses
<1>11. CASE Quiet
  <2>1. sessions' = sessions /\ bornIn' = bornIn /\ boot' = boot
    BY <1>11, QuietKeeps
  <2>. QED BY <2>1
<1>12. CASE UNCHANGED vars
  BY <1>12
<1>. QED BY <1>2, <1>3, <1>8, <1>9, <1>10, <1>11, <1>12 DEF Next, Quiet

\* No active session was created by an earlier service process than the last.
THEOREM RestartEndsSessions == Spec => []NoSurvivorOfRestart
<1>1. Init => NoSurvivorOfRestart
  BY DEF Init, NoSurvivorOfRestart, Active, AbsentSession
<1>2. TypeOK /\ NoSurvivorOfRestart /\ [Next]_vars => NoSurvivorOfRestart'
  BY ActiveIsOld DEF NoSurvivorOfRestart, Active
<1>3. QED BY <1>1, <1>2, TypeCorrect, PTL DEF Spec

-----------------------------------------------------------------------------
(* What a step can do to one session.                                       *)

\* The rows of session x in the tables its end must freeze.
RowsOf(x) == <<sessions[x], budgets[x], boundary[x], audit[x], ExecutionsOf(x, Tools)>>

\* A step that changes those rows either runs an operation on the usable
\* session, or does one of four other things.
Created(x) ==
    /\ ~Exists(x)
    /\ sessions'[x].status = "active"
    /\ UNCHANGED <<boundary[x], audit[x], reservations[x], ExecutionsOf(x, Tools)>>
Ended(x) ==
    /\ Active(x)
    /\ sessions'[x].status # "absent"
    /\ UNCHANGED <<budgets[x], boundary[x], audit[x], reservations[x], ExecutionsOf(x, Tools)>>
Refunded(x) ==
    /\ reservations[x] # <<>>
    /\ Len(reservations'[x]) = Len(reservations[x])
    /\ \E d \in Nat : budgets'[x] = [budgets[x] EXCEPT !.researchResults = @ + d]
    /\ UNCHANGED <<sessions[x], boundary[x], audit[x], ExecutionsOf(x, Tools)>>
Operated(x) ==
    /\ Usable(x)
    /\ sessions'[x].status # "absent"
Untouched(x) == UNCHANGED <<RowsOf(x), reservations[x]>>

Fate(x) == Untouched(x) \/ Created(x) \/ Ended(x) \/ Refunded(x) \/ Operated(x)

\* An operation on session s that finds it usable, touches no other session
\* and does not unmake s.
LEMMA OperatedFate ==
    ASSUME TypeOK, NEW x \in Sessions, NEW s \in Sessions, Usable(s),
           NEW status \in Statuses \ {"absent"},
           SetStatus(s, status) \/ UNCHANGED sessions,
           s # x => UNCHANGED <<budgets[x], boundary[x], audit[x], reservations[x],
                                ExecutionsOf(x, Tools)>>
    PROVE  Fate(x)
<1>1. CASE s = x
  BY <1>1 DEF Fate, Operated, Usable, Active, SetStatus, TypeOK, SessionRows
<1>2. CASE s # x
  BY <1>2 DEF Fate, Untouched, RowsOf, SetStatus, TypeOK
<1>3. QED BY <1>1, <1>2

\* An operation that finds session s unusable, marks it expired at most.
LEMMA ExpireFate ==
    ASSUME TypeOK, NEW x \in Sessions, NEW s \in Sessions, ExpireIfDue(s)
    PROVE  Fate(x)
<1>1. UNCHANGED <<budgets[x], boundary[x], audit[x], reservations[x], ExecutionsOf(x, Tools)>>
  BY DEF ExpireIfDue, ExecutionsOf
<1>2. CASE s = x
  BY <1>1, <1>2 DEF Fate, Untouched, RowsOf, Ended, ExpireIfDue, Active, TypeOK, SessionRows
<1>3. CASE s # x
  BY <1>1, <1>3 DEF Fate, Untouched, RowsOf, ExpireIfDue, TypeOK
<1>4. QED BY <1>2, <1>3

\* A violation recorded of a usable session.
LEMMA ViolationFate ==
    ASSUME TypeOK, NEW x \in Sessions, NEW s \in Sessions, NEW b \in Bindings,
           NEW code \in Codes, Usable(s), RecordViolation(s, b, code)
    PROVE  Fate(x)
<1>1. SetStatus(s, "revoked") \/ UNCHANGED sessions
  BY DEF RecordViolation, SetStatus
<1>2. s # x => UNCHANGED <<budgets[x], boundary[x], audit[x], reservations[x],
                           ExecutionsOf(x, Tools)>>
  BY DEF RecordViolation, ExecutionsOf, TypeOK
<1>3. "revoked" \in Statuses \ {"absent"}
  BY DEF Statuses
<1>4. QED BY <1>1, <1>2, <1>3, OperatedFate

\* Every step does one of these things to every session.
LEMMA NextFate == ASSUME TypeOK, [Next]_vars, NEW x \in Sessions PROVE Fate(x)
<1> USE DEF vars, tables, history, Serving
<1>1. ASSUME NEW s \in Sessions, NEW initial \in InitialBudgets,
             NEW expiresAt \in 1..(MaxTime + 1), CreateSession(s, initial, expiresAt)
      PROVE  Fate(x)
  BY <1>1 DEF CreateSession, Fate, Untouched, RowsOf, Created, ExecutionsOf, TypeOK
<1>2. ASSUME NEW s \in Sessions,
             StoreSessionPlan(s) \/ RevokeSessionPlan(s) \/ Crash \/ Tick \/ StepBack
                \/ UNCHANGED vars
      PROVE  Fate(x)
  BY <1>2 DEF StoreSessionPlan, RevokeSessionPlan, Crash, Tick, StepBack, Fate, Untouched,
              RowsOf, ExecutionsOf
<1>3. "completed" \in Statuses \ {"absent"} /\ "interrupted" \in Statuses \ {"absent"}
  BY DEF Statuses
<1>4. ASSUME NEW s \in Sessions, ConsumeToolCall(s) PROVE Fate(x)
  <2>1. s # x => UNCHANGED <<budgets[x], boundary[x], audit[x], reservations[x],
                             ExecutionsOf(x, Tools)>>
    BY <1>4 DEF ConsumeToolCall, ExecutionsOf, TypeOK
  <2>2. QED BY <1>3, <1>4, <2>1, OperatedFate DEF ConsumeToolCall
<1>5. ASSUME NEW s \in Sessions, NEW b \in Bindings, NEW tool \in Tools,
             ConsumeWorkerExecution(s, b, tool)
      PROVE  Fate(x)
  <2>1. CASE ExpireIfDue(s)
    BY <2>1, ExpireFate
  <2>2. ASSUME NEW code \in {"execution_replay", "volume_exhausted"},
               Usable(s), RecordViolation(s, b, code)
        PROVE  Fate(x)
    BY <2>2, ViolationFate DEF Codes, OrdinaryCodes, CriticalCodes
  <2>3. CASE ClaimExecution(s, b, tool)
    <3>1. s # x => UNCHANGED <<budgets[x], boundary[x], audit[x], reservations[x],
                               ExecutionsOf(x, Tools)>>
      BY <2>3 DEF ClaimExecution, ExecutionsOf, TypeOK
    <3>2. Usable(s) /\ UNCHANGED sessions
      BY <2>3 DEF ClaimExecution
    <3>3. QED BY <1>3, <3>1, <3>2, OperatedFate
  <2>4. QED BY <1>5, <2>1, <2>2, <2>3 DEF ConsumeWorkerExecution
<1>6. ASSUME NEW s \in Sessions, NEW b \in Bindings, NEW code \in Codes,
             RecordWorkerViolation(s, b, code)
      PROVE  Fate(x)
  BY <1>6, ExpireFate, ViolationFate DEF RecordWorkerViolation
<1>7. ASSUME NEW s \in Sessions, NEW b \in Bindings,
             InterruptWorkerSession(s, b) \/ CompleteWorkerSession(s, b)
      PROVE  Fate(x)
  <2>1. CASE ExpireIfDue(s)
    BY <2>1, ExpireFate
  <2>2. CASE Usable(s) /\ ~ExpireIfDue(s)
    <3>1. SetStatus(s, "interrupted") \/ SetStatus(s, "completed")
      BY <1>7, <2>2 DEF InterruptWorkerSession, CompleteWorkerSession
    <3>2. s # x => UNCHANGED <<budgets[x], boundary[x], audit[x], reservations[x],
                               ExecutionsOf(x, Tools)>>
      BY <1>7, <2>2 DEF InterruptWorkerSession, CompleteWorkerSession, ExecutionsOf, TypeOK
    <3>3. QED BY <1>3, <2>2, <3>1, <3>2, OperatedFate
  <2>3. QED BY <1>7, <2>1, <2>2 DEF InterruptWorkerSession, CompleteWorkerSession
<1>8. ASSUME NEW s \in Sessions, NEW b \in Bindings, RecordWorkerAuditEvent(s, b)
      PROVE  Fate(x)
  <2>1. s # x => UNCHANGED <<budgets[x], boundary[x], audit[x], reservations[x],
                             ExecutionsOf(x, Tools)>>
    BY <1>8 DEF RecordWorkerAuditEvent, ExecutionsOf, TypeOK
  <2>2. QED BY <1>3, <1>8, <2>1, OperatedFate DEF RecordWorkerAuditEvent
<1>9. ASSUME NEW s \in Sessions, NEW requested \in 1..MaxRequested, ReserveResearch(s, requested)
      PROVE  Fate(x)
  <2>1. s # x => UNCHANGED <<budgets[x], boundary[x], audit[x], reservations[x],
                             ExecutionsOf(x, Tools)>>
    BY <1>9 DEF ReserveResearch, ExecutionsOf, TypeOK
  <2>2. QED BY <1>3, <1>9, <2>1, OperatedFate DEF ReserveResearch
<1>10. ASSUME NEW s \in Sessions, NEW r \in DOMAIN reservations[s],
              NEW accepted \in 0..MaxRequested, SettleResearchResults(s, r, accepted)
       PROVE  Fate(x)
  <2>1. UNCHANGED <<sessions[x], boundary[x], audit[x], ExecutionsOf(x, Tools)>>
    BY <1>10 DEF SettleResearchResults, ExecutionsOf
  <2>2. CASE s = x
    <3> DEFINE d == reservations[x][r].reserved - accepted
    <3>1. reservations[x] \in Seq(ReservationRows) /\ reservations[x][r] \in ReservationRows
      BY <2>2 DEF TypeOK
    <3>2. d \in Nat
      <4>1. reservations[x][r].reserved \in Nat /\ accepted \in Nat
        BY <3>1, PolicyAssumption DEF ReservationRows
      <4>2. accepted <= reservations[x][r].reserved
        BY <1>10, <2>2 DEF SettleResearchResults
      <4>. QED BY <4>1, <4>2
    <3>3. budgets'[x] = [budgets[x] EXCEPT !.researchResults = @ + d]
      BY <1>10, <2>2 DEF SettleResearchResults, TypeOK
    <3>4. /\ reservations[x] # <<>>
          /\ reservations'[x] = [reservations[x] EXCEPT
                  ![r] = [@ EXCEPT !.accepted = accepted, !.settled = TRUE]]
      BY <1>10, <2>2, <3>1 DEF SettleResearchResults, TypeOK
    <3>5. Len(reservations'[x]) = Len(reservations[x])
      BY <3>1, <3>4
    <3>6. QED BY <2>1, <3>2, <3>3, <3>4, <3>5 DEF Fate, Refunded
  <2>3. CASE s # x
    BY <1>10, <2>1, <2>3 DEF SettleResearchResults, Fate, Untouched, RowsOf, TypeOK
  <2>4. QED BY <2>2, <2>3
<1>11. CASE Restart
  <2>1. UNCHANGED <<budgets[x], boundary[x], audit[x], reservations[x], ExecutionsOf(x, Tools)>>
    BY <1>11 DEF Restart, ExecutionsOf
  <2>2. sessions'[x] = IF Active(x) THEN [sessions[x] EXCEPT !.status = "interrupted"]
                       ELSE sessions[x]
    BY <1>11 DEF Restart
  <2>3. QED BY <2>1, <2>2 DEF Fate, Untouched, RowsOf, Ended, TypeOK, SessionRows
<1>12. QED
  BY <1>1, <1>2, <1>4, <1>5, <1>6, <1>7, <1>8, <1>9, <1>10, <1>11 DEF Next

-----------------------------------------------------------------------------
(* Ends and charges.                                                        *)

\* The end of a session is final: no status, claim, boundary event, audit
\* event or charge follows it, and only the results of a research reservation
\* can still be refunded.
THEOREM EndsAreFinal == Spec => EndIsFinal
<1>1. ASSUME TypeOK, [Next]_vars, NEW s \in Sessions, Exists(s), ~Active(s)
      PROVE  /\ sessions'[s] = sessions[s]
             /\ ExecutionsOf(s, Tools)' = ExecutionsOf(s, Tools)
             /\ boundary'[s] = boundary[s]
             /\ audit'[s] = audit[s]
             /\ Len(reservations'[s]) = Len(reservations[s])
             /\ [budgets'[s] EXCEPT !.researchResults = 0] =
                    [budgets[s] EXCEPT !.researchResults = 0]
             /\ budgets'[s].researchResults >= budgets[s].researchResults
  <2>1. budgets[s] \in BudgetRecords
    BY <1>1 DEF TypeOK
  <2>2. Untouched(s) \/ Refunded(s)
    BY <1>1, NextFate DEF Fate, Created, Ended, Operated, Usable
  <2>3. CASE Untouched(s)
    BY <2>1, <2>3 DEF Untouched, RowsOf, BudgetRecords
  <2>4. CASE Refunded(s)
    <3>1. PICK d \in Nat : budgets'[s] = [budgets[s] EXCEPT !.researchResults = @ + d]
      BY <2>4 DEF Refunded
    <3>2. [budgets'[s] EXCEPT !.researchResults = 0] = [budgets[s] EXCEPT !.researchResults = 0]
      BY <2>1, <3>1 DEF BudgetRecords
    <3>3. budgets'[s].researchResults = budgets[s].researchResults + d
      BY <2>1, <3>1 DEF BudgetRecords
    <3>4. budgets'[s].researchResults >= budgets[s].researchResults
      BY <2>1, <3>3 DEF BudgetRecords
    <3>5. QED BY <2>4, <3>2, <3>4 DEF Refunded
  <2>5. QED BY <2>2, <2>3, <2>4
<1>2. TypeOK /\ [Next]_vars => [\A s \in Sessions : Exists(s) /\ ~Active(s) =>
        /\ sessions'[s] = sessions[s]
        /\ ExecutionsOf(s, Tools)' = ExecutionsOf(s, Tools)
        /\ boundary'[s] = boundary[s]
        /\ audit'[s] = audit[s]
        /\ Len(reservations'[s]) = Len(reservations[s])
        /\ [budgets'[s] EXCEPT !.researchResults = 0] =
               [budgets[s] EXCEPT !.researchResults = 0]
        /\ budgets'[s].researchResults >= budgets[s].researchResults]_vars
  BY <1>1
<1>3. QED BY <1>2, TypeCorrect, PTL DEF Spec, EndIsFinal

\* A session that does not exist has neither budget nor reservations.
AbsentIsEmpty ==
    \A s \in Sessions : ~Exists(s) => budgets[s] = NoBudget /\ reservations[s] = <<>>

\* Nothing is granted to a session before it is created.
LEMMA AbsentStaysEmpty == Spec => []AbsentIsEmpty
<1>1. Init => AbsentIsEmpty
  BY DEF Init, AbsentIsEmpty
<1>2. TypeOK /\ AbsentIsEmpty /\ [Next]_vars => AbsentIsEmpty'
  <2> SUFFICES ASSUME TypeOK, AbsentIsEmpty, [Next]_vars, NEW s \in Sessions, ~Exists(s)'
               PROVE  budgets'[s] = NoBudget /\ reservations'[s] = <<>>
    BY DEF AbsentIsEmpty
  <2>1. Untouched(s) \/ Refunded(s)
    BY NextFate DEF Fate, Created, Ended, Operated, Exists
  <2>2. ~Exists(s)
    BY <2>1 DEF Untouched, Refunded, RowsOf, Exists
  <2>3. Untouched(s)
    BY <2>1, <2>2 DEF AbsentIsEmpty, Refunded
  <2>4. QED BY <2>2, <2>3 DEF AbsentIsEmpty, Untouched, RowsOf
<1>3. QED BY <1>1, <1>2, TypeCorrect, PTL DEF Spec

\* Nothing is charged or claimed outside the session's lifetime, although a
\* session whose time has passed may still be marked active.
THEOREM ChargesInLifetime == Spec => ChargedInLifetime
<1>1. ASSUME TypeOK, AbsentIsEmpty, [Next]_vars, NEW s \in Sessions,
             \/ \E r \in DOMAIN budgets[s] : budgets'[s][r] < budgets[s][r]
             \/ ExecutionsOf(s, Tools)' # ExecutionsOf(s, Tools),
             TypeOK'
      PROVE  sessions[s].startsAt <= now /\ now < sessions[s].expiresAt
  <2>1. budgets[s] \in BudgetRecords /\ budgets'[s] \in BudgetRecords
    BY <1>1 DEF TypeOK
  <2>2. DOMAIN budgets[s] = {"toolCalls", "localCommands", "researchRequests", "researchResults"}
    BY <2>1 DEF BudgetRecords
  <2>3. ASSUME UNCHANGED budgets[s], UNCHANGED ExecutionsOf(s, Tools) PROVE FALSE
    BY <1>1, <2>1, <2>2, <2>3 DEF BudgetRecords
  <2>4. ~Untouched(s) /\ ~Ended(s)
    BY <2>3 DEF Untouched, RowsOf, Ended
  <2>5. ~Created(s)
    BY <1>1, <2>1, <2>2 DEF Created, AbsentIsEmpty, NoBudget, BudgetRecords
  <2>6. ASSUME Refunded(s) PROVE FALSE
    <3>1. PICK d \in Nat : budgets'[s] = [budgets[s] EXCEPT !.researchResults = @ + d]
      BY <2>6 DEF Refunded
    <3>2. UNCHANGED ExecutionsOf(s, Tools)
      BY <2>6 DEF Refunded
    <3>3. PICK r \in DOMAIN budgets[s] : budgets'[s][r] < budgets[s][r]
      BY <1>1, <3>2
    <3>4. budgets'[s][r] = budgets[s][r] \/ budgets'[s][r] = budgets[s][r] + d
      BY <2>1, <2>2, <3>1 DEF BudgetRecords
    <3>5. budgets[s][r] \in Nat
      BY <2>1, <2>2 DEF BudgetRecords
    <3>6. QED BY <3>3, <3>4, <3>5
  <2>7. Usable(s)
    BY <1>1, <2>4, <2>5, <2>6, NextFate DEF Fate, Operated
  <2>8. QED BY <2>7 DEF Usable, InLifetime
<1>2. TypeOK /\ TypeOK' /\ AbsentIsEmpty /\ [Next]_vars => [\A s \in Sessions :
        \/ \E r \in DOMAIN budgets[s] : budgets'[s][r] < budgets[s][r]
        \/ ExecutionsOf(s, Tools)' # ExecutionsOf(s, Tools)
        => sessions[s].startsAt <= now /\ now < sessions[s].expiresAt]_vars
  BY <1>1
<1>3. QED BY <1>2, TypeCorrect, AbsentStaysEmpty, PTL DEF Spec, ChargedInLifetime

-----------------------------------------------------------------------------
(* The audit log.                                                           *)

\* The account a log gives of a session of this status. Beyond what
\* AuditIsAccount says, the completion that was returned is followed by the
\* terminal event: without it an active session could end its log with a
\* completion and the next worker step would come between the two.
AccountOf(log, status) ==
    /\ Chronological(log)
    /\ \A i \in DOMAIN log :
        /\ log[i].type = "session.terminal" => i = Len(log) /\ status = "completed"
        /\ log[i].type = "worker.completion.returned" =>
                /\ i = Len(log) - 1
                /\ log[i + 1].binding = log[i].binding
                /\ log[i + 1].type = "session.terminal"
    /\ status = "completed" => log # <<>> /\ log[Len(log)].type = "session.terminal"

AuditInv == \A s \in Sessions : AccountOf(audit[s], sessions[s].status)

\* In a log in time order whose last event is not after t, none is.
LEMMA LastIsLatest ==
    ASSUME NEW log \in Seq(AuditRows), Chronological(log), NEW t \in Nat,
           log # <<>> => log[Len(log)].at <= t
    PROVE  \A i \in DOMAIN log : log[i].at <= t
<1> SUFFICES ASSUME NEW i \in DOMAIN log PROVE log[i].at <= t
  OBVIOUS
<1>1. DOMAIN log = 1..Len(log) /\ Len(log) \in Nat
  OBVIOUS
<1>2. i <= Len(log) /\ Len(log) \in DOMAIN log /\ log # <<>>
  BY <1>1
<1>3. log[i].at <= log[Len(log)].at
  BY <1>2 DEF Chronological
<1>4. log[i].at \in Int /\ log[Len(log)].at \in Int
  <2>1. log[i] \in AuditRows /\ log[Len(log)] \in AuditRows
    BY <1>1, <1>2
  <2>. QED BY <2>1, BoundsAssumption DEF AuditRows, Times
<1>. QED BY <1>2, <1>3, <1>4

\* An event not earlier than the last keeps a log in time order.
LEMMA AppendInTime ==
    ASSUME NEW log \in Seq(AuditRows), Chronological(log), NEW row \in AuditRows,
           log # <<>> => log[Len(log)].at <= row.at
    PROVE  Chronological(Append(log, row))
<1> DEFINE longer == Append(log, row)
<1>1. /\ Len(log) \in Nat /\ DOMAIN log = 1..Len(log) /\ DOMAIN longer = 1..(Len(log) + 1)
      /\ longer[Len(log) + 1] = row
      /\ \A i \in 1..Len(log) : longer[i] = log[i]
  OBVIOUS
<1>2. row.at \in Nat
  BY BoundsAssumption DEF AuditRows, Times
<1>3. \A i \in DOMAIN log : log[i].at <= row.at
  BY <1>2, LastIsLatest
<1> HIDE DEF longer
<1>4. ASSUME NEW i \in DOMAIN longer, NEW j \in DOMAIN longer, i <= j
      PROVE  longer[i].at <= longer[j].at
  <2>1. CASE j \in 1..Len(log)
    BY <1>1, <1>4, <2>1 DEF Chronological
  <2>2. CASE j = Len(log) + 1 /\ i \in 1..Len(log)
    BY <1>1, <1>3, <2>2
  <2>3. CASE j = Len(log) + 1 /\ i = j
    BY <1>1, <1>2, <2>3
  <2>. QED BY <1>1, <1>4, <2>1, <2>2, <2>3
<1>. QED BY <1>4 DEF Chronological, longer

\* A worker step is recorded of a session that has not completed.
LEMMA StepKeepsAccount ==
    ASSUME NEW log \in Seq(AuditRows), NEW status, AccountOf(log, status),
           status # "completed", NEW row \in AuditRows, row.type = "worker.step",
           log # <<>> => log[Len(log)].at <= row.at
    PROVE  AccountOf(Append(log, row), status)
<1> DEFINE longer == Append(log, row)
<1>1. /\ Len(log) \in Nat /\ DOMAIN log = 1..Len(log) /\ DOMAIN longer = 1..(Len(log) + 1)
      /\ Len(longer) = Len(log) + 1
      /\ longer[Len(log) + 1] = row
      /\ \A i \in 1..Len(log) : longer[i] = log[i]
  OBVIOUS
<1>2. Chronological(longer)
  BY AppendInTime DEF AccountOf
<1>3. \A i \in DOMAIN log : log[i].type # "session.terminal"
  BY DEF AccountOf
<1>4. \A i \in DOMAIN log : log[i].type # "worker.completion.returned"
  <2> SUFFICES ASSUME NEW i \in DOMAIN log, log[i].type = "worker.completion.returned"
               PROVE  FALSE
    OBVIOUS
  <2>1. i = Len(log) - 1 /\ log[i + 1].type = "session.terminal"
    BY DEF AccountOf
  <2>2. i + 1 \in DOMAIN log
    BY <1>1, <2>1
  <2>. QED BY <1>3, <2>1, <2>2
<1> HIDE DEF longer
<1>5. \A i \in DOMAIN longer : longer[i].type # "session.terminal"
                            /\ longer[i].type # "worker.completion.returned"
  <2> SUFFICES ASSUME NEW i \in DOMAIN longer
               PROVE  /\ longer[i].type # "session.terminal"
                      /\ longer[i].type # "worker.completion.returned"
    OBVIOUS
  <2>1. CASE i \in 1..Len(log)
    BY <1>1, <1>3, <1>4, <2>1
  <2>2. CASE i = Len(log) + 1
    BY <1>1, <2>2
  <2>. QED BY <1>1, <2>1, <2>2
<1>. QED BY <1>2, <1>5 DEF AccountOf, longer

\* A session that has not completed completes: the two events end its log.
LEMMA EndKeepsAccount ==
    ASSUME NEW log \in Seq(AuditRows), NEW status, AccountOf(log, status),
           status # "completed", NEW row \in AuditRows, NEW end \in AuditRows,
           row.type = "worker.completion.returned", end.type = "session.terminal",
           row.binding = end.binding, row.at = end.at,
           log # <<>> => log[Len(log)].at <= row.at
    PROVE  AccountOf(log \o <<row, end>>, "completed")
<1> DEFINE longer == Append(log, row)
           longest == Append(longer, end)
           n == Len(log)
<1>1. /\ n \in Nat /\ DOMAIN log = 1..n /\ longer \in Seq(AuditRows) /\ Len(longer) = n + 1
      /\ longer # <<>> /\ longer[n + 1] = row
      /\ DOMAIN longest = 1..(n + 2) /\ Len(longest) = n + 2
      /\ longest[n + 1] = row /\ longest[n + 2] = end
      /\ \A i \in 1..n : longest[i] = log[i]
  OBVIOUS
<1>2. longest = log \o <<row, end>>
  OBVIOUS
<1>3. Chronological(longest)
  <2>1. Chronological(longer)
    BY AppendInTime DEF AccountOf
  <2>2. row.at \in Int
    BY BoundsAssumption DEF AuditRows, Times
  <2>3. longer[Len(longer)].at <= end.at
    BY <1>1, <2>2
  <2>. HIDE DEF longer
  <2>. QED BY <1>1, <2>1, <2>3, AppendInTime
<1>4. \A i \in DOMAIN log : log[i].type # "session.terminal"
  BY DEF AccountOf
<1>5. \A i \in DOMAIN log : log[i].type # "worker.completion.returned"
  <2> SUFFICES ASSUME NEW i \in DOMAIN log, log[i].type = "worker.completion.returned"
               PROVE  FALSE
    OBVIOUS
  <2>1. i = Len(log) - 1 /\ log[i + 1].type = "session.terminal"
    BY DEF AccountOf
  <2>2. i + 1 \in DOMAIN log
    BY <1>1, <2>1
  <2>. QED BY <1>4, <2>1, <2>2
<1> HIDE DEF longer, longest, n
<1>6. ASSUME NEW i \in DOMAIN longest
      PROVE  /\ longest[i].type = "session.terminal" => i = Len(longest)
             /\ longest[i].type = "worker.completion.returned" =>
                    /\ i = Len(longest) - 1
                    /\ longest[i + 1].binding = longest[i].binding
                    /\ longest[i + 1].type = "session.terminal"
  <2>1. CASE i \in 1..n
    BY <1>1, <1>4, <1>5, <2>1
  <2>2. CASE i = n + 1
    <3>1. i + 1 = n + 2 /\ i = Len(longest) - 1
      BY <1>1, <2>2
    <3>. QED BY <1>1, <2>2, <3>1
  <2>3. CASE i = n + 2
    BY <1>1, <2>3
  <2>. QED BY <1>1, <2>1, <2>2, <2>3
<1>7. longest # <<>> /\ longest[Len(longest)].type = "session.terminal"
  BY <1>1
<1>8. AccountOf(longest, "completed")
  BY <1>3, <1>6, <1>7 DEF AccountOf
<1>. QED BY <1>2, <1>8

\* Every step keeps the account of every session.
LEMMA NextAuditInv == TypeOK /\ AuditInv /\ [Next]_vars => AuditInv'
<1> SUFFICES ASSUME TypeOK, AuditInv, [Next]_vars, NEW x \in Sessions
             PROVE  AccountOf(audit'[x], sessions'[x].status)
  BY DEF AuditInv
<1> USE DEF vars, tables, history, Serving
<1>0. AccountOf(audit[x], sessions[x].status) /\ audit[x] \in Seq(AuditRows)
  BY DEF AuditInv, TypeOK
<1>a. ASSUME UNCHANGED audit,
             sessions'[x].status = "completed" <=> sessions[x].status = "completed"
      PROVE  AccountOf(audit'[x], sessions'[x].status)
  BY <1>0, <1>a DEF AccountOf
<1>b. ASSUME NEW s \in Sessions, ExpireIfDue(s)
      PROVE  AccountOf(audit'[x], sessions'[x].status)
  <2>1. sessions'[x].status = "completed" <=> sessions[x].status = "completed"
    BY <1>b DEF ExpireIfDue, Active, TypeOK, SessionRows
  <2>. QED BY <1>a, <1>b, <2>1 DEF ExpireIfDue
<1>c. ASSUME NEW s \in Sessions, Usable(s), NEW status \in {"revoked", "interrupted"},
             SetStatus(s, status) \/ UNCHANGED sessions, UNCHANGED audit
      PROVE  AccountOf(audit'[x], sessions'[x].status)
  <2>1. sessions[s].status = "active" /\ sessions \in [Sessions -> SessionRows]
    BY <1>c DEF Usable, Active, TypeOK
  <2>2. sessions'[x].status = "completed" <=> sessions[x].status = "completed"
    <3>1. CASE UNCHANGED sessions
      BY <3>1
    <3>2. CASE sessions' = [sessions EXCEPT ![s].status = status]
      BY <2>1, <3>2 DEF SessionRows
    <3>. QED BY <1>c, <3>1, <3>2 DEF SetStatus
  <2>. QED BY <1>a, <1>c, <2>2
<1>d. ASSUME NEW s \in Sessions, NEW b \in Bindings, NEW code \in Codes, Usable(s),
             RecordViolation(s, b, code)
      PROVE  AccountOf(audit'[x], sessions'[x].status)
  BY <1>c, <1>d DEF RecordViolation, SetStatus
<1>1. ASSUME NEW s \in Sessions, NEW initial \in InitialBudgets,
             NEW expiresAt \in 1..(MaxTime + 1), CreateSession(s, initial, expiresAt)
      PROVE  AccountOf(audit'[x], sessions'[x].status)
  <2>1. sessions'[x].status = "completed" <=> sessions[x].status = "completed"
    BY <1>1 DEF CreateSession, Exists, TypeOK, SessionRows
  <2>. QED BY <1>1, <1>a, <2>1 DEF CreateSession
<1>2. ASSUME NEW s \in Sessions, NEW b \in Bindings, NEW tool \in Tools,
             ConsumeWorkerExecution(s, b, tool)
      PROVE  AccountOf(audit'[x], sessions'[x].status)
  <2>1. CASE \E code \in {"execution_replay", "volume_exhausted"} :
                 Usable(s) /\ RecordViolation(s, b, code)
    BY <1>d, <2>1 DEF Codes, OrdinaryCodes, CriticalCodes
  <2>2. CASE ClaimExecution(s, b, tool)
    BY <1>a, <2>2 DEF ClaimExecution
  <2>. QED BY <1>2, <1>b, <2>1, <2>2 DEF ConsumeWorkerExecution
<1>3. ASSUME NEW s \in Sessions, NEW b \in Bindings, NEW code \in Codes,
             RecordWorkerViolation(s, b, code)
      PROVE  AccountOf(audit'[x], sessions'[x].status)
  BY <1>3, <1>b, <1>d DEF RecordWorkerViolation
<1>4. ASSUME NEW s \in Sessions, NEW b \in Bindings, InterruptWorkerSession(s, b)
      PROVE  AccountOf(audit'[x], sessions'[x].status)
  BY <1>4, <1>b, <1>c DEF InterruptWorkerSession
<1>5. ASSUME NEW s \in Sessions, NEW b \in Bindings, RecordWorkerAuditEvent(s, b)
      PROVE  AccountOf(audit'[x], sessions'[x].status)
  <2>1. PICK row : row = AuditRow("worker.step", b)
    OBVIOUS
  <2>2. row \in AuditRows /\ row.type = "worker.step" /\ row.at = now
    BY <2>1 DEF AuditRow, AuditRows, TypeOK
  <2>3. CASE x = s
    <3>1. audit'[x] = Append(audit[x], row) /\ sessions'[x] = sessions[x]
      BY <1>5, <2>1, <2>3 DEF RecordWorkerAuditEvent, TypeOK
    <3>2. sessions[x].status # "completed"
      BY <1>5, <2>3 DEF RecordWorkerAuditEvent, Usable, Active
    <3>3. audit[x] # <<>> => audit[x][Len(audit[x])].at <= row.at
      BY <1>5, <2>2, <2>3 DEF RecordWorkerAuditEvent, AuditClockOk
    <3>. QED BY <1>0, <2>2, <3>1, <3>2, <3>3, StepKeepsAccount
  <2>4. CASE x # s
    BY <1>0, <1>5, <2>4 DEF RecordWorkerAuditEvent, TypeOK
  <2>. QED BY <2>3, <2>4
<1>6. ASSUME NEW s \in Sessions, NEW b \in Bindings, CompleteWorkerSession(s, b)
      PROVE  AccountOf(audit'[x], sessions'[x].status)
  <2> SUFFICES ASSUME ~ExpireIfDue(s) PROVE AccountOf(audit'[x], sessions'[x].status)
    BY <1>b
  <2>1. PICK row, end : row = AuditRow("worker.completion.returned", b)
                     /\ end = AuditRow("session.terminal", b)
    OBVIOUS
  <2>2. /\ row \in AuditRows /\ end \in AuditRows /\ row.at = now /\ end.at = now
        /\ row.type = "worker.completion.returned" /\ end.type = "session.terminal"
        /\ row.binding = end.binding
    BY <2>1 DEF AuditRow, AuditRows, TypeOK
  <2>3. /\ Usable(s) /\ AuditClockOk(s)
        /\ audit' = [audit EXCEPT ![s] = @ \o <<row, end>>]
        /\ SetStatus(s, "completed")
    BY <1>6, <2>1 DEF CompleteWorkerSession
  <2>4. CASE x = s
    <3>1. audit'[x] = audit[x] \o <<row, end>> /\ sessions'[x].status = "completed"
      BY <2>3, <2>4 DEF SetStatus, TypeOK, SessionRows
    <3>2. sessions[x].status # "completed"
      BY <2>3, <2>4 DEF Usable, Active
    <3>3. audit[x] # <<>> => audit[x][Len(audit[x])].at <= row.at
      BY <2>2, <2>3, <2>4 DEF AuditClockOk
    <3>. QED BY <1>0, <2>2, <3>1, <3>2, <3>3, EndKeepsAccount
  <2>5. CASE x # s
    BY <1>0, <2>3, <2>5 DEF SetStatus, TypeOK
  <2>. QED BY <2>4, <2>5
<1>7. CASE Restart
  <2>1. sessions'[x].status = "completed" <=> sessions[x].status = "completed"
    BY <1>7 DEF Restart, Active, TypeOK, SessionRows
  <2>. QED BY <1>7, <1>a, <2>1 DEF Restart
<1>8. CASE UNCHANGED <<sessions, audit>>
  BY <1>8, <1>a
<1>9. ASSUME NEW s \in Sessions, StoreSessionPlan(s) \/ RevokeSessionPlan(s) \/ ConsumeToolCall(s)
      PROVE  UNCHANGED <<sessions, audit>>
  BY <1>9 DEF StoreSessionPlan, RevokeSessionPlan, ConsumeToolCall
<1>10. ASSUME NEW s \in Sessions, NEW requested, ReserveResearch(s, requested)
       PROVE  UNCHANGED <<sessions, audit>>
  BY <1>10 DEF ReserveResearch
<1>11. ASSUME NEW s \in Sessions, NEW r, NEW accepted, SettleResearchResults(s, r, accepted)
       PROVE  UNCHANGED <<sessions, audit>>
  BY <1>11 DEF SettleResearchResults
<1>12. Crash \/ Tick \/ StepBack \/ UNCHANGED vars => UNCHANGED <<sessions, audit>>
  BY DEF Crash, Tick, StepBack
<1>. HIDE DEF vars, tables, history, Serving
<1>. QED
  BY <1>1, <1>2, <1>3, <1>4, <1>5, <1>6, <1>7, <1>8, <1>9, <1>10, <1>11, <1>12 DEF Next

\* The audit log of a session reads in time order although the clock may be set
\* back, and ends with the two completion events exactly when the session
\* completed (appendNextAuditEventInTransaction and completeWorkerSession).
THEOREM AuditAccounts == Spec => []AuditIsAccount
<1>1. Init => AuditInv
  BY DEF Init, AuditInv, AccountOf, AbsentSession, Chronological
<1>2. AuditInv => AuditIsAccount
  BY DEF AuditInv, AccountOf, AuditIsAccount
<1>. QED BY <1>1, <1>2, InitTypeOK, NextTypeOK, NextAuditInv, PTL DEF Spec

-----------------------------------------------------------------------------
(* Budgets.                                                                 *)

\* What the reservations of a session hold back from its results.
HeldBack(log) == SumFunction([r \in DOMAIN log |-> Held(log[r])])

\* What was granted is what remains and what the tables say was spent: calls of
\* the broker, reservations, executions that cost a call and local commands.
Conserved(grant, left, calls, counted, commands, log) ==
    /\ grant.toolCalls = left.toolCalls + calls + Len(log) + counted
    /\ grant.localCommands = left.localCommands + commands
    /\ grant.researchRequests = left.researchRequests + Len(log)
    /\ grant.researchResults = left.researchResults + HeldBack(log)

Counted(s) == Cardinality(ExecutionsOf(s, Tools \ {"external"}))
Commands(s) == Cardinality(ExecutionsOf(s, {"guardian.local_command"}))
ConservedFor(s) ==
    Conserved(granted[s], budgets[s], brokerCalls[s], Counted(s), Commands(s), reservations[s])

\* Conservation over a finite table of executions, and nothing granted to a
\* session that does not exist: its creation starts every count from zero.
BudgetInv ==
    /\ IsFiniteSet(executions)
    /\ \A s \in Sessions : ConservedFor(s) /\ (~Exists(s) => granted[s] = NoBudget)

LEMMA HeldNat ==
    ASSUME NEW row \in ReservationRows PROVE Held(row) \in Nat
BY PolicyAssumption DEF Held, ReservationRows

LEMMA HeldBackNat ==
    ASSUME NEW log \in Seq(ReservationRows) PROVE HeldBack(log) \in Nat
<1>1. PICK f : f = [r \in DOMAIN log |-> Held(log[r])]
  OBVIOUS
<1>2. DOMAIN log = 1..Len(log) /\ Len(log) \in Int
  OBVIOUS
<1>3. IsFiniteSet(DOMAIN log)
  BY <1>2, FS_Interval
<1>4. f \in [DOMAIN log -> Nat]
  BY <1>1, <1>2, HeldNat
<1>. QED BY <1>1, <1>3, <1>4, SumNat DEF HeldBack

LEMMA HeldBackNothing == HeldBack(<<>>) = 0
<1>1. PICK f : f = [r \in DOMAIN <<>> |-> Held(<<>>[r])]
  OBVIOUS
<1>2. DOMAIN f = {}
  BY <1>1
<1>. QED BY <1>1, <1>2, SumOfNone DEF HeldBack

\* A reservation adds what it holds.
LEMMA HeldBackAppends ==
    ASSUME NEW log \in Seq(ReservationRows), NEW row \in ReservationRows
    PROVE  HeldBack(Append(log, row)) = HeldBack(log) + Held(row)
<1>1. PICK longer : longer = Append(log, row)
  OBVIOUS
<1>2. PICK n : n = Len(log)
  OBVIOUS
<1>3. /\ n \in Nat /\ DOMAIN log = 1..n /\ DOMAIN longer = 1..(n + 1)
      /\ longer[n + 1] = row /\ longer \in Seq(ReservationRows)
      /\ \A i \in 1..n : longer[i] = log[i]
  BY <1>1, <1>2
<1>4. PICK f, g : /\ f = [r \in 1..(n + 1) |-> Held(longer[r])]
                  /\ g = [r \in 1..n |-> Held(log[r])]
  OBVIOUS
<1>5. f \in [1..(n + 1) -> Nat]
  BY <1>3, <1>4, HeldNat
<1>6. g = [i \in 1..n |-> f[i]]
  BY <1>3, <1>4
<1>7. SumFunction(f) = SumFunction(g) + f[n + 1]
  BY <1>3, <1>5, <1>6, SumAppends
<1>8. f[n + 1] = Held(row)
  BY <1>3, <1>4
<1>9. HeldBack(longer) = SumFunction(f) /\ HeldBack(log) = SumFunction(g)
  BY <1>3, <1>4 DEF HeldBack
<1>. QED BY <1>1, <1>7, <1>8, <1>9

\* A settled reservation holds what was accepted instead.
LEMMA HeldBackSettles ==
    ASSUME NEW log \in Seq(ReservationRows), NEW r \in DOMAIN log,
           NEW row \in ReservationRows
    PROVE  HeldBack([log EXCEPT ![r] = row]) + Held(log[r]) = HeldBack(log) + Held(row)
<1>1. PICK new, S : new = [log EXCEPT ![r] = row] /\ S = DOMAIN log
  OBVIOUS
<1>2. /\ S = 1..Len(log) /\ Len(log) \in Int /\ r \in S
      /\ DOMAIN new = S /\ new[r] = row /\ \A i \in S \ {r} : new[i] = log[i]
  BY <1>1
<1>3. IsFiniteSet(S)
  BY <1>2, FS_Interval
<1>4. PICK f, g : f = [i \in S |-> Held(log[i])] /\ g = [i \in S |-> Held(new[i])]
  OBVIOUS
<1>5. f \in [S -> Nat] /\ Held(row) \in Nat
  BY <1>1, <1>2, <1>4, HeldNat
<1>6. g \in [S -> Nat] /\ g[r] = Held(row) /\ Part(g, S \ {r}) = Part(f, S \ {r})
  BY <1>2, <1>4, <1>5 DEF Part
<1>7. SumFunction(g) + f[r] = SumFunction(f) + Held(row)
  <2>1. f \in [S -> Nat] /\ g \in [S -> Nat] /\ r \in S /\ IsFiniteSet(S)
        /\ Part(g, S \ {r}) = Part(f, S \ {r})
    BY <1>2, <1>3, <1>5, <1>6
  <2>2. SumFunction(g) + f[r] = SumFunction(f) + g[r]
    BY <2>1, SumDiffers
  <2>. QED BY <1>6, <2>2
<1>8. f[r] = Held(log[r])
  BY <1>2, <1>4
<1>9. HeldBack(new) = SumFunction(g) /\ HeldBack(log) = SumFunction(f)
  BY <1>1, <1>2, <1>4 DEF HeldBack
<1>. QED BY <1>1, <1>7, <1>8, <1>9

\* The counts of a finite table of executions are numbers.
LEMMA CountsNat ==
    ASSUME BudgetInv, NEW s \in Sessions
    PROVE  /\ \A tools : IsFiniteSet(ExecutionsOf(s, tools))
           /\ Counted(s) \in Nat /\ Commands(s) \in Nat
<1>1. ASSUME NEW tools PROVE IsFiniteSet(ExecutionsOf(s, tools))
  <2>1. ExecutionsOf(s, tools) \in SUBSET executions
    BY DEF ExecutionsOf
  <2>. QED BY <2>1, FS_Subset DEF BudgetInv
<1>. QED BY <1>1, FS_CardinalityType DEF Counted, Commands

\* A step that leaves alone every row the account of session x reads.
LEMMA SameConserved ==
    ASSUME BudgetInv, NEW x \in Sessions,
           UNCHANGED <<granted[x], budgets[x], brokerCalls[x], reservations[x],
                       ExecutionsOf(x, Tools)>>
    PROVE  ConservedFor(x)'
<1>1. \A tools \in SUBSET Tools :
          ExecutionsOf(x, tools) = {e \in ExecutionsOf(x, Tools) : e.tool \in tools}
  BY DEF ExecutionsOf
<1>2. \A tools \in SUBSET Tools :
          ExecutionsOf(x, tools)' = {e \in ExecutionsOf(x, Tools)' : e.tool \in tools}
  BY DEF ExecutionsOf
<1>3. Tools \ {"external"} \in SUBSET Tools /\ {"guardian.local_command"} \in SUBSET Tools
  BY DEF Tools
<1>4. Counted(x)' = Counted(x) /\ Commands(x)' = Commands(x)
  BY <1>1, <1>2, <1>3 DEF Counted, Commands
<1>5. ConservedFor(x)
  BY DEF BudgetInv
<1>. QED BY <1>4, <1>5 DEF ConservedFor, Conserved, HeldBack

\* A claim adds one execution to the table, and one to each count it is in.
LEMMA ClaimCounts ==
    ASSUME TypeOK, BudgetInv, NEW s \in Sessions, NEW b \in Bindings, NEW tool \in Tools,
           ClaimExecution(s, b, tool)
    PROVE  /\ IsFiniteSet(executions')
           /\ Counted(s)' = Counted(s) + ToolCallCost(tool)
           /\ Commands(s)' = Commands(s) + LocalCommandCost(tool)
<1>1. PICK row : row = [session |-> s, binding |-> b, tool |-> tool]
  OBVIOUS
<1>2. row.session = s /\ row.binding = b /\ row.tool = tool
  BY <1>1
<1>3. executions' = executions \cup {row}
  BY <1>1 DEF ClaimExecution
<1>4. row \notin executions
  BY <1>2 DEF ClaimExecution, PriorExecution
<1>5. IsFiniteSet(executions')
  BY <1>3, FS_AddElement DEF BudgetInv
<1>6. ASSUME NEW tools
      PROVE  Cardinality(ExecutionsOf(s, tools)') =
                 Cardinality(ExecutionsOf(s, tools)) + (IF tool \in tools THEN 1 ELSE 0)
  <2>1. PICK old, new : old = ExecutionsOf(s, tools) /\ new = ExecutionsOf(s, tools)'
    OBVIOUS
  <2>2. IsFiniteSet(old) /\ row \notin old /\ Cardinality(old) \in Nat
    <3>1. IsFiniteSet(old) /\ row \notin old
      BY <1>4, <2>1, CountsNat DEF ExecutionsOf
    <3>. QED BY <3>1, FS_CardinalityType
  <2>3. CASE tool \in tools
    <3>1. new = old \cup {row}
      BY <1>2, <1>3, <2>1, <2>3 DEF ExecutionsOf
    <3>2. Cardinality(new) = Cardinality(old) + 1
      BY <2>2, <3>1, FS_AddElement
    <3>. QED BY <2>1, <2>3, <3>2
  <2>4. CASE tool \notin tools
    <3>1. new = old
      BY <1>2, <1>3, <2>1, <2>4 DEF ExecutionsOf
    <3>. QED BY <2>1, <2>2, <2>4, <3>1
  <2>. QED BY <2>3, <2>4
<1>7. Counted(s)' = Counted(s) + (IF tool \in Tools \ {"external"} THEN 1 ELSE 0)
  BY <1>6 DEF Counted
<1>8. Commands(s)' = Commands(s) + (IF tool \in {"guardian.local_command"} THEN 1 ELSE 0)
  BY <1>6 DEF Commands
<1>9. (IF tool \in Tools \ {"external"} THEN 1 ELSE 0) = ToolCallCost(tool)
      /\ (IF tool \in {"guardian.local_command"} THEN 1 ELSE 0) = LocalCommandCost(tool)
  BY DEF ToolCallCost, LocalCommandCost
<1>. QED BY <1>5, <1>7, <1>8, <1>9

\* The steps that charge or refund a session keep its account.
LEMMA ChargesConserve ==
    ASSUME TypeOK, BudgetInv, NEW s \in Sessions,
           granted' = granted, UNCHANGED executions,
           \/ ConsumeToolCall(s)
           \/ \E requested \in 1..MaxRequested : ReserveResearch(s, requested)
           \/ \E r \in DOMAIN reservations[s], accepted \in 0..MaxRequested :
                  SettleResearchResults(s, r, accepted)
    PROVE  ConservedFor(s)'
<1> USE DEF vars, tables, history, Serving
<1>1. Counted(s)' = Counted(s) /\ Commands(s)' = Commands(s)
  BY DEF Counted, Commands, ExecutionsOf
<1>2. /\ Conserved(granted[s], budgets[s], brokerCalls[s], Counted(s), Commands(s),
                   reservations[s])
      /\ Counted(s) \in Nat /\ Commands(s) \in Nat
  BY CountsNat DEF BudgetInv, ConservedFor
<1>3. PICK counted, commands : counted = Counted(s) /\ commands = Commands(s)
  OBVIOUS
<1>4. PICK log, left : log = reservations[s] /\ left = budgets[s]
  OBVIOUS
<1>5. /\ log \in Seq(ReservationRows) /\ Len(log) \in Nat /\ HeldBack(log) \in Nat
      /\ left \in BudgetRecords /\ brokerCalls[s] \in Nat /\ granted[s] \in BudgetRecords
  BY <1>4, HeldBackNat DEF TypeOK
<1>6. /\ left.toolCalls \in Nat /\ left.localCommands \in Nat
      /\ left.researchRequests \in Nat /\ left.researchResults \in Nat
  BY <1>5 DEF BudgetRecords
<1>7. /\ granted[s].toolCalls = left.toolCalls + brokerCalls[s] + Len(log) + counted
      /\ granted[s].localCommands = left.localCommands + commands
      /\ granted[s].researchRequests = left.researchRequests + Len(log)
      /\ granted[s].researchResults = left.researchResults + HeldBack(log)
      /\ counted \in Nat /\ commands \in Nat
  BY <1>2, <1>3, <1>4 DEF Conserved
<1>8. PICK a, c, q, u, k, m, h \in Nat :
          /\ a = left.toolCalls /\ c = left.localCommands
          /\ q = left.researchRequests /\ u = left.researchResults
          /\ k = brokerCalls[s] /\ m = Len(log) /\ h = HeldBack(log)
  BY <1>5, <1>6
<1>9. /\ granted[s].toolCalls = a + k + m + counted
      /\ granted[s].localCommands = c + commands
      /\ granted[s].researchRequests = q + m
      /\ granted[s].researchResults = u + h
      /\ counted \in Nat /\ commands \in Nat
  BY <1>7, <1>8
<1>10. SUFFICES Conserved(granted[s], budgets'[s], brokerCalls'[s], counted, commands,
                         reservations'[s])
  BY <1>1, <1>3 DEF ConservedFor
<1>11. CASE ConsumeToolCall(s)
  <2>0. brokerCalls'[s] = brokerCalls[s] + 1 /\ reservations'[s] = log
    BY <1>4, <1>11 DEF ConsumeToolCall, TypeOK
  <2>1. budgets'[s] = [left EXCEPT !.toolCalls = @ - 1]
    BY <1>4, <1>11 DEF ConsumeToolCall, TypeOK
  <2>2. /\ budgets'[s].toolCalls = left.toolCalls - 1
        /\ budgets'[s].localCommands = left.localCommands
        /\ budgets'[s].researchRequests = left.researchRequests
        /\ budgets'[s].researchResults = left.researchResults
    BY <1>5, <2>1 DEF BudgetRecords
  <2>10. /\ budgets'[s].toolCalls = a - 1 /\ budgets'[s].localCommands = c
        /\ budgets'[s].researchRequests = q /\ budgets'[s].researchResults = u
        /\ brokerCalls'[s] = k + 1 /\ Len(reservations'[s]) = m
        /\ HeldBack(reservations'[s]) = h
    BY <1>8, <2>0, <2>2
  <2>. QED BY <1>9, <2>10 DEF Conserved
<1>12. ASSUME NEW requested \in 1..MaxRequested, ReserveResearch(s, requested)
       PROVE  Conserved(granted[s], budgets'[s], brokerCalls'[s], counted, commands,
                        reservations'[s])
  <2>1. PICK row : row = [reserved |-> requested, accepted |-> 0, settled |-> FALSE]
    OBVIOUS
  <2>2. row \in ReservationRows /\ Held(row) = requested /\ requested \in Nat
    BY <2>1, PolicyAssumption DEF ReservationRows, Held
  <2>3. reservations'[s] = Append(log, row) /\ brokerCalls'[s] = brokerCalls[s]
    BY <1>4, <1>12, <2>1 DEF ReserveResearch, TypeOK
  <2>4. HeldBack(reservations'[s]) = HeldBack(log) + requested
        /\ Len(reservations'[s]) = Len(log) + 1
    BY <1>5, <2>2, <2>3, HeldBackAppends
  <2>5. budgets'[s] = [left EXCEPT !.toolCalls = @ - 1, !.researchRequests = @ - 1,
                                   !.researchResults = @ - requested]
    BY <1>4, <1>5, <1>12 DEF ReserveResearch, TypeOK, BudgetRecords
  <2>6. /\ budgets'[s].toolCalls = left.toolCalls - 1
        /\ budgets'[s].localCommands = left.localCommands
        /\ budgets'[s].researchRequests = left.researchRequests - 1
        /\ budgets'[s].researchResults = left.researchResults - requested
    BY <1>5, <2>5 DEF BudgetRecords
  <2>10. /\ budgets'[s].toolCalls = a - 1 /\ budgets'[s].localCommands = c
        /\ budgets'[s].researchRequests = q - 1 /\ budgets'[s].researchResults = u - requested
        /\ brokerCalls'[s] = k /\ Len(reservations'[s]) = m + 1
        /\ HeldBack(reservations'[s]) = h + requested
    BY <1>8, <2>3, <2>4, <2>6
  <2>. QED BY <1>9, <2>10, <2>2 DEF Conserved
<1>13. ASSUME NEW r \in DOMAIN reservations[s], NEW accepted \in 0..MaxRequested,
              SettleResearchResults(s, r, accepted)
       PROVE  Conserved(granted[s], budgets'[s], brokerCalls'[s], counted, commands,
                        reservations'[s])
  <2>1. PICK old, row : old = log[r] /\ row = [old EXCEPT !.accepted = accepted, !.settled = TRUE]
    OBVIOUS
  <2>2. old \in ReservationRows /\ r \in DOMAIN log
    BY <1>4, <1>5, <2>1
  <2>3. ~old.settled /\ accepted \in Nat /\ old.reserved \in Nat /\ accepted <= old.reserved
    <3>1. ~old.settled /\ accepted <= old.reserved
      BY <1>4, <1>13, <2>1 DEF SettleResearchResults
    <3>2. accepted \in Nat /\ old.reserved \in Nat
      BY <2>2, PolicyAssumption DEF ReservationRows
    <3>. QED BY <3>1, <3>2
  <2>4. row \in ReservationRows /\ Held(row) = accepted /\ Held(old) = old.reserved
    BY <2>1, <2>2, <2>3 DEF ReservationRows, Held
  <2>5. reservations'[s] = [log EXCEPT ![r] = row] /\ brokerCalls'[s] = brokerCalls[s]
    BY <1>4, <1>13, <2>1 DEF SettleResearchResults, TypeOK
  <2>6. HeldBack(reservations'[s]) + old.reserved = HeldBack(log) + accepted
        /\ Len(reservations'[s]) = Len(log)
    BY <1>5, <2>1, <2>2, <2>4, <2>5, HeldBackSettles
  <2>7. HeldBack(reservations'[s]) \in Nat
    <3>1. reservations'[s] \in Seq(ReservationRows)
      BY <1>5, <2>2, <2>4, <2>5
    <3>. QED BY <3>1, HeldBackNat
  <2>8. budgets'[s] = [left EXCEPT !.researchResults = @ + (old.reserved - accepted)]
    BY <1>4, <1>13, <2>1 DEF SettleResearchResults, TypeOK
  <2>9. /\ budgets'[s].toolCalls = left.toolCalls
        /\ budgets'[s].localCommands = left.localCommands
        /\ budgets'[s].researchRequests = left.researchRequests
        /\ budgets'[s].researchResults = left.researchResults + (old.reserved - accepted)
    BY <1>5, <2>8 DEF BudgetRecords
  <2>10. /\ budgets'[s].toolCalls = a /\ budgets'[s].localCommands = c
        /\ budgets'[s].researchRequests = q /\ budgets'[s].researchResults = u + (old.reserved - accepted)
        /\ brokerCalls'[s] = k /\ Len(reservations'[s]) = m
        /\ HeldBack(reservations'[s]) = h - (old.reserved - accepted)
    <3>1. PICK held \in Nat : held = HeldBack(reservations'[s])
      BY <2>7
    <3>2. held + old.reserved = h + accepted
      BY <1>8, <2>6, <3>1
    <3>3. held = h - (old.reserved - accepted)
      BY <2>3, <3>2
    <3>. QED BY <1>8, <2>5, <2>6, <2>9, <3>1, <3>3
  <2>. QED BY <1>9, <2>10, <2>3 DEF Conserved
<1>. QED BY <1>11, <1>12, <1>13

\* A claim moves its cost from what remains to the executions counted.
LEMMA ClaimConserves ==
    ASSUME TypeOK, BudgetInv, NEW s \in Sessions, NEW b \in Bindings, NEW tool \in Tools,
           ClaimExecution(s, b, tool), UNCHANGED history
    PROVE  ConservedFor(s)'
<1>1. PICK left, counted, commands :
          left = budgets[s] /\ counted = Counted(s) /\ commands = Commands(s)
  OBVIOUS
<1>2. left \in BudgetRecords /\ counted \in Nat /\ commands \in Nat
  BY <1>1, CountsNat DEF TypeOK
<1>3. PICK x, y \in Nat : x = ToolCallCost(tool) /\ y = LocalCommandCost(tool)
  BY DEF ToolCallCost, LocalCommandCost
<1>4. UNCHANGED <<granted[s], brokerCalls[s], reservations[s]>>
  BY DEF history, ClaimExecution
<1>5. budgets'[s] = [left EXCEPT !.toolCalls = @ - x, !.localCommands = @ - y]
  BY <1>1, <1>2, <1>3 DEF ClaimExecution, TypeOK, BudgetRecords
<1>6. /\ budgets'[s].toolCalls = left.toolCalls - x
      /\ budgets'[s].localCommands = left.localCommands - y
      /\ budgets'[s].researchRequests = left.researchRequests
      /\ budgets'[s].researchResults = left.researchResults
  BY <1>2, <1>5 DEF BudgetRecords
<1>7. Counted(s)' = counted + x /\ Commands(s)' = commands + y
  BY <1>1, <1>3, ClaimCounts
<1>8. Conserved(granted[s], left, brokerCalls[s], counted, commands, reservations[s])
  BY <1>1 DEF BudgetInv, ConservedFor
<1>9. PICK a, c, k, m \in Nat :
          /\ a = left.toolCalls /\ c = left.localCommands
          /\ k = brokerCalls[s] /\ m = Len(reservations[s])
  <2>1. brokerCalls[s] \in Nat /\ Len(reservations[s]) \in Nat
    BY DEF TypeOK
  <2>. QED BY <1>2, <2>1 DEF BudgetRecords
<1>10. granted[s].toolCalls = a + k + m + counted /\ granted[s].localCommands = c + commands
  BY <1>8, <1>9 DEF Conserved
<1>11. budgets'[s].toolCalls = a - x /\ budgets'[s].localCommands = c - y
  BY <1>6, <1>9
<1>12. granted[s].toolCalls = budgets'[s].toolCalls + k + m + (counted + x)
       /\ granted[s].localCommands = budgets'[s].localCommands + (commands + y)
  <2>1. counted \in Nat /\ commands \in Nat
    BY <1>2
  <2>2. a + k + m + counted = (a - x) + k + m + (counted + x)
        /\ c + commands = (c - y) + (commands + y)
    BY <2>1
  <2>. QED BY <1>10, <1>11, <2>2
<1>13. Conserved(granted[s], budgets'[s], brokerCalls[s], counted + x, commands + y,
                 reservations[s])
  BY <1>6, <1>8, <1>9, <1>12 DEF Conserved
<1>. QED BY <1>4, <1>7, <1>13 DEF ConservedFor

\* A session is created with nothing spent.
LEMMA CreateConserves ==
    ASSUME TypeOK, BudgetInv, AbsentIsEmpty, NEW s \in Sessions,
           NEW initial \in InitialBudgets, NEW expiresAt \in 1..(MaxTime + 1),
           CreateSession(s, initial, expiresAt)
    PROVE  ConservedFor(s)'
<1>1. /\ ~Exists(s) /\ granted[s] = NoBudget /\ budgets[s] = NoBudget
      /\ reservations[s] = <<>>
  BY DEF CreateSession, BudgetInv, AbsentIsEmpty
<1>2. Conserved(NoBudget, NoBudget, brokerCalls[s], Counted(s), Commands(s), <<>>)
  BY <1>1 DEF BudgetInv, ConservedFor
<1>3. brokerCalls[s] \in Nat /\ Counted(s) \in Nat /\ Commands(s) \in Nat
  BY CountsNat DEF TypeOK
<1>4. brokerCalls[s] = 0 /\ Counted(s) = 0 /\ Commands(s) = 0
  <2>1. Len(<<>>) = 0
    OBVIOUS
  <2>2. 0 = 0 + brokerCalls[s] + Len(<<>>) + Counted(s) /\ 0 = 0 + Commands(s)
    BY <1>2 DEF Conserved, NoBudget
  <2>. QED BY <1>3, <2>1, <2>2
<1>5. initial \in BudgetRecords /\ granted'[s] = initial /\ budgets'[s] = initial
  BY BudgetsAssumption DEF CreateSession, TypeOK
<1>6. brokerCalls'[s] = 0 /\ reservations'[s] = <<>> /\ Counted(s)' = 0 /\ Commands(s)' = 0
  BY <1>1, <1>4 DEF CreateSession, Counted, Commands, ExecutionsOf
<1>7. Conserved(initial, initial, 0, 0, 0, <<>>)
  <2>1. Len(<<>>) = 0
    OBVIOUS
  <2>. QED BY <1>5, <2>1, HeldBackNothing DEF Conserved, BudgetRecords
<1>. QED BY <1>5, <1>6, <1>7 DEF ConservedFor

\* Every step keeps the account of every session.
LEMMA NextBudgetInv == TypeOK /\ AbsentIsEmpty /\ BudgetInv /\ [Next]_vars => BudgetInv'
<1> SUFFICES ASSUME TypeOK, AbsentIsEmpty, BudgetInv, [Next]_vars PROVE BudgetInv'
  OBVIOUS
<1> USE DEF vars, tables, history, Serving
<1>0. ASSUME NEW x \in Sessions, ~Exists(x)', UNCHANGED granted[x]
      PROVE  granted'[x] = NoBudget
  <2>1. Untouched(x) \/ Refunded(x)
    BY <1>0, NextFate DEF Fate, Created, Ended, Operated, Exists
  <2>2. ~Exists(x)
    BY <1>0, <2>1 DEF Untouched, Refunded, RowsOf, Exists
  <2>. QED BY <1>0, <2>2 DEF BudgetInv
<1>a. ASSUME UNCHANGED granted, IsFiniteSet(executions'),
             \A x \in Sessions : ConservedFor(x)'
      PROVE  BudgetInv'
  BY <1>0, <1>a DEF BudgetInv
<1>b. ASSUME UNCHANGED <<granted, budgets, brokerCalls, reservations, executions>>
      PROVE  BudgetInv'
  <2>1. \A x \in Sessions : ConservedFor(x)'
    BY <1>b, SameConserved DEF ExecutionsOf
  <2>. QED BY <1>a, <1>b, <2>1 DEF BudgetInv
<1>c. ASSUME NEW s \in Sessions, UNCHANGED <<granted, executions>>, ConservedFor(s)',
             \A x \in Sessions \ {s} :
                 UNCHANGED <<budgets[x], brokerCalls[x], reservations[x]>>
      PROVE  BudgetInv'
  <2>1. \A x \in Sessions : ConservedFor(x)'
    BY <1>c, SameConserved DEF ExecutionsOf
  <2>. QED BY <1>a, <1>c, <2>1 DEF BudgetInv
<1>1. ASSUME NEW s \in Sessions, NEW initial \in InitialBudgets,
             NEW expiresAt \in 1..(MaxTime + 1), CreateSession(s, initial, expiresAt)
      PROVE  BudgetInv'
  <2>1. ASSUME NEW x \in Sessions PROVE ConservedFor(x)'
    <3>1. CASE x = s
      BY <1>1, <3>1, CreateConserves
    <3>2. CASE x # s
      BY <1>1, <3>2, SameConserved DEF CreateSession, ExecutionsOf, TypeOK
    <3>. QED BY <3>1, <3>2
  <2>2. ASSUME NEW x \in Sessions, ~Exists(x)' PROVE granted'[x] = NoBudget
    <3>1. x # s
      BY <1>1, <2>2 DEF CreateSession, Exists, TypeOK
    <3>2. UNCHANGED granted[x]
      BY <1>1, <3>1 DEF CreateSession, TypeOK
    <3>. QED BY <1>0, <2>2, <3>2
  <2>. QED BY <1>1, <2>1, <2>2 DEF BudgetInv, CreateSession
<1>2. ASSUME NEW s \in Sessions, ConsumeToolCall(s) PROVE BudgetInv'
  <2>1. ConservedFor(s)'
    BY <1>2, ChargesConserve DEF ConsumeToolCall
  <2>. QED BY <1>2, <1>c, <2>1 DEF ConsumeToolCall, TypeOK
<1>3. ASSUME NEW s \in Sessions, NEW b \in Bindings, NEW tool \in Tools,
             ConsumeWorkerExecution(s, b, tool)
      PROVE  BudgetInv'
  <2>1. CASE ClaimExecution(s, b, tool)
    <3>1. ConservedFor(s)' /\ IsFiniteSet(executions')
      BY <1>3, <2>1, ClaimConserves, ClaimCounts DEF ConsumeWorkerExecution
    <3>2. ASSUME NEW x \in Sessions \ {s} PROVE ConservedFor(x)'
      <4>1. UNCHANGED <<granted[x], budgets[x], brokerCalls[x], reservations[x],
                        ExecutionsOf(x, Tools)>>
        BY <1>3, <2>1 DEF ConsumeWorkerExecution, ClaimExecution, ExecutionsOf, TypeOK
      <4>. QED BY <4>1, SameConserved
    <3>. QED BY <1>3, <1>a, <3>1, <3>2 DEF ConsumeWorkerExecution
  <2>2. CASE ~ClaimExecution(s, b, tool)
    BY <1>3, <1>b, <2>2 DEF ConsumeWorkerExecution, ExpireIfDue, RecordViolation
  <2>. QED BY <2>1, <2>2
<1>4. ASSUME NEW s \in Sessions, NEW b \in Bindings,
             \/ \E code \in Codes : RecordWorkerViolation(s, b, code)
             \/ InterruptWorkerSession(s, b)
             \/ RecordWorkerAuditEvent(s, b)
             \/ CompleteWorkerSession(s, b)
      PROVE  UNCHANGED <<granted, budgets, brokerCalls, reservations, executions>>
  BY <1>4 DEF RecordWorkerViolation, InterruptWorkerSession, RecordWorkerAuditEvent,
              CompleteWorkerSession, ExpireIfDue, RecordViolation
<1>5. ASSUME NEW s \in Sessions, NEW requested \in 1..MaxRequested, ReserveResearch(s, requested)
      PROVE  BudgetInv'
  <2>1. ConservedFor(s)'
    BY <1>5, ChargesConserve DEF ReserveResearch
  <2>. QED BY <1>5, <1>c, <2>1 DEF ReserveResearch, TypeOK
<1>6. ASSUME NEW s \in Sessions, NEW r \in DOMAIN reservations[s],
             NEW accepted \in 0..MaxRequested, SettleResearchResults(s, r, accepted)
      PROVE  BudgetInv'
  <2>1. ConservedFor(s)'
    BY <1>6, ChargesConserve DEF SettleResearchResults
  <2>. QED BY <1>6, <1>c, <2>1 DEF SettleResearchResults, TypeOK
<1>7. ASSUME \/ \E s \in Sessions : StoreSessionPlan(s) \/ RevokeSessionPlan(s)
             \/ Crash \/ Restart \/ Tick \/ StepBack \/ UNCHANGED vars
      PROVE  UNCHANGED <<granted, budgets, brokerCalls, reservations, executions>>
  BY <1>7 DEF StoreSessionPlan, RevokeSessionPlan, Crash, Restart, Tick, StepBack
<1>. QED
  BY <1>b, <1>1, <1>2, <1>3, <1>4, <1>5, <1>6, <1>7 DEF Next

\* Conservation: what a session was granted is what remains plus what the rows
\* of the tables say was spent, through the charges of the broker, the research
\* service and the dispatcher, the refunds of settleResearchResults, crashes and
\* restarts: no order of the transactions mints a call or loses one.
THEOREM BudgetIsConserved == Spec => []BudgetConserved
<1>1. Init => BudgetInv
  <2> SUFFICES ASSUME Init PROVE BudgetInv
    OBVIOUS
  <2>1. IsFiniteSet(executions) /\ Cardinality(executions) = 0
    BY FS_EmptySet DEF Init
  <2>2. ASSUME NEW s \in Sessions PROVE ConservedFor(s) /\ granted[s] = NoBudget
    <3>1. granted[s] = NoBudget /\ budgets[s] = NoBudget /\ brokerCalls[s] = 0
          /\ reservations[s] = <<>>
      BY DEF Init
    <3>2. Counted(s) = 0 /\ Commands(s) = 0
      <4>1. \A tools : ExecutionsOf(s, tools) = {}
        BY DEF Init, ExecutionsOf
      <4>. QED BY <4>1, FS_EmptySet DEF Counted, Commands
    <3>3. Len(<<>>) = 0
      OBVIOUS
    <3>4. Conserved(NoBudget, NoBudget, 0, 0, 0, <<>>)
      BY <3>3, HeldBackNothing DEF Conserved, NoBudget
    <3>. QED BY <3>1, <3>2, <3>4 DEF ConservedFor
  <2>. QED BY <2>1, <2>2 DEF BudgetInv
<1>2. BudgetInv => BudgetConserved
  BY DEF BudgetInv, ConservedFor, Conserved, Counted, Commands, HeldBack, BudgetConserved
<1>. QED BY <1>1, <1>2, InitTypeOK, NextTypeOK, AbsentStaysEmpty, NextBudgetInv, PTL DEF Spec
=============================================================================
