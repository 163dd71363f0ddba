----------------------------- MODULE BrokerProofs -----------------------------
(* Theorems about the broker and the two components it is built from, for    *)
(* every set of executions, approvals, requests, plans and model answers:    *)
(* the plans' tables keep what an operator confirmed, the Guardian only ever *)
(* raises the level, and whatever races, is lost or changes under an         *)
(* execution, it sends nothing that was not paid for once and in force.      *)
EXTENDS Broker, TLAPS, FiniteSetTheorems

-----------------------------------------------------------------------------
(***************************************************************************)
(* The session plans.                                                      *)
(***************************************************************************)
(* What a check can do to the tables.                                       *)

\* The row a consumption adds.
RowOf(r) == [request |-> r, version |-> Version, key |-> MutationKey(r)]

\* The tables after a consumption.
Consumption(r) ==
    /\ planExecutions' = planExecutions \cup {RowOf(r)}
    /\ grants' = [grants EXCEPT ![Version] = Charged(Grant, r)]
    /\ pending' = [pending EXCEPT ![r] = None]

\* The conditions under which check answers allowed.
InForce(r) ==
    /\ Version # 0
    /\ sessionActive /\ connected
    /\ r \notin Misbound
    /\ ~Grant.revoked
    /\ ~Expired
    /\ TargetBase(r) # None
    /\ ~Replayed(r)
    /\ ~Exhausted(r)

\* Allowed is the verdict only when every early return was passed.
LEMMA AllowedIsInForce ==
    ASSUME NEW r \in Requests, NEW phase, NEW expected, NEW observed,
           Verdict(r, phase, expected, observed) = "allowed"
    PROVE  InForce(r)
BY DEF Verdict, InForce

\* A check consumes in force, records one proposal, or changes nothing.
LEMMA CheckCases ==
    ASSUME NEW r \in Requests, NEW phase, NEW expected, NEW observed,
           Check(r, phase, expected, observed)
    PROVE  \/ InForce(r) /\ Consumption(r)
           \/ \E reason \in PendingReasons : Block(r, reason)
           \/ UNCHANGED planTables
BY AllowedIsInForce DEF Check, Consumption, RowOf, Grant, PendingReasons

\* So does every step; a step that does none of this stores, revokes or
\* leaves the tables alone.
LEMMA StepCases ==
    ASSUME [PlansNext]_planVars
    PROVE  \/ \E r \in Requests : InForce(r) /\ Consumption(r)
           \/ \E r \in Requests, reason \in PendingReasons : Block(r, reason)
           \/ \E plan \in PlanContents : Store(plan)
           \/ \E v \in DOMAIN grants : Revoke(v)
           \/ UNCHANGED planTables
<1>1. ASSUME NEW r \in Requests, NEW observed \in Bases \cup {None},
             NEW expected \in 0..MaxGrants, NEW phase \in {"inspect", "consume"},
             CheckStep(r, phase, expected, observed)
      PROVE  \/ InForce(r) /\ Consumption(r)
             \/ \E reason \in PendingReasons : Block(r, reason)
             \/ UNCHANGED planTables
  BY <1>1, CheckCases DEF CheckStep
<1>2. ASSUME NEW r \in Requests, NEW reason \in DeferReasons, DeferStep(r, reason)
      PROVE  Block(r, reason) \/ UNCHANGED planTables
  BY <1>2 DEF DeferStep, Defer
<1>3. DeferReasons \subseteq PendingReasons
  BY DEF PendingReasons
<1>4. CASE EndSession \/ RevokeConnection \/ PlansTick \/ UNCHANGED planVars
  BY <1>4 DEF EndSession, RevokeConnection, PlansTick, planVars
<1>5. QED BY <1>1, <1>2, <1>3, <1>4 DEF PlansNext

-----------------------------------------------------------------------------
(* Type correctness.                                                        *)

\* The session's clock, status and connection keep their types.
LEMMA EnvironmentTypeOK ==
    ASSUME PlansTypeOK, [PlansNext]_planVars
    PROVE  clock' \in Nat /\ sessionActive' \in BOOLEAN /\ connected' \in BOOLEAN
<1>1. CASE UNCHANGED <<clock, sessionActive, connected>>
  BY <1>1 DEF PlansTypeOK
<1>2. CASE EndSession \/ RevokeConnection
  BY <1>2, Zenon DEF EndSession, RevokeConnection, PlansTypeOK
<1>3. CASE PlansTick
  <2>1. clock \in Nat /\ clock' = clock + 1
    BY <1>3 DEF PlansTick, PlansTypeOK
  <2>2. clock' \in Nat
    BY <2>1
  <2>3. QED BY <1>3, <2>2, Zenon DEF PlansTick, PlansTypeOK
<1>4. ASSUME NEW plan \in PlanContents, Store(plan)
      PROVE  UNCHANGED <<clock, sessionActive, connected>>
  BY <1>4 DEF Store
<1>5. ASSUME NEW v \in DOMAIN grants, Revoke(v)
      PROVE  UNCHANGED <<clock, sessionActive, connected>>
  BY <1>5 DEF Revoke
<1>6. ASSUME NEW r \in Requests, NEW observed \in Bases \cup {None},
             NEW expected \in 0..MaxGrants, NEW phase \in {"inspect", "consume"},
             CheckStep(r, phase, expected, observed)
      PROVE  UNCHANGED <<clock, sessionActive, connected>>
  BY <1>6 DEF CheckStep
<1>7. ASSUME NEW r \in Requests, NEW reason \in DeferReasons, DeferStep(r, reason)
      PROVE  UNCHANGED <<clock, sessionActive, connected>>
  BY <1>7 DEF DeferStep
<1>8. CASE UNCHANGED planVars
  BY <1>8, <1>1 DEF planVars
<1>9. QED BY <1>1, <1>2, <1>3, <1>4, <1>5, <1>6, <1>7, <1>8 DEF PlansNext

\* The latest grant, when there is one, is a row of the table.
LEMMA GrantType ==
    ASSUME PlansTypeOK, Version # 0
    PROVE  Version \in DOMAIN grants /\ Grant \in GrantRows
<1>1. grants \in Seq(GrantRows)
  BY DEF PlansTypeOK
<1>2. Len(grants) \in Nat /\ DOMAIN grants = 1..Len(grants)
  BY <1>1
<1>3. Len(grants) \in DOMAIN grants
  BY <1>2 DEF Version
<1>4. grants[Len(grants)] \in GrantRows
  BY <1>1, <1>2, <1>3
<1>5. QED BY <1>3, <1>4 DEF Version, Grant

\* A consumption writes well-typed rows.
LEMMA ConsumptionTypeOK ==
    ASSUME PlansTypeOK, NEW r \in Requests, InForce(r), Consumption(r)
    PROVE  /\ grants' \in Seq(GrantRows)
           /\ planExecutions' \subseteq ExecutionRows
           /\ pending' \in [Requests -> PendingReasons \cup {None}]
<1>1. Version \in DOMAIN grants /\ Grant \in GrantRows
  BY GrantType DEF InForce
<1>2. Charged(Grant, r) \in GrantRows
  <2> DEFINE g == Grant
             mutations == IF r \in Mutations THEN g.usedMutations + 1 ELSE g.usedMutations
  <2>1. g.usedActions + 1 \in Nat /\ mutations \in Nat
    BY <1>1 DEF GrantRows
  <2>2. Charged(g, r) = [g EXCEPT !.usedActions = g.usedActions + 1, !.usedMutations = mutations]
    BY DEF Charged
  <2> HIDE DEF g, mutations
  <2>3. g \in GrantRows
    BY <1>1 DEF g
  <2>4. Charged(g, r) \in GrantRows
    BY <2>1, <2>2, <2>3 DEF GrantRows
  <2>5. QED BY <2>4 DEF g
<1>3. grants' = [grants EXCEPT ![Version] = Charged(Grant, r)]
  BY DEF Consumption
<1>4. grants' \in Seq(GrantRows)
  BY <1>1, <1>2, <1>3 DEF PlansTypeOK
<1>5. RowOf(r) \in ExecutionRows
  BY <1>1, RequestsAssumption DEF RowOf, ExecutionRows, MutationKey, Version, PlansTypeOK
<1>6. QED BY <1>4, <1>5 DEF Consumption, PlansTypeOK

\* Every operation on the plan tables keeps their types.
LEMMA NextPlansTypeOK == PlansTypeOK /\ [PlansNext]_planVars => PlansTypeOK'
<1> SUFFICES ASSUME PlansTypeOK, [PlansNext]_planVars PROVE PlansTypeOK'
  OBVIOUS
<1>1. clock' \in Nat /\ sessionActive' \in BOOLEAN /\ connected' \in BOOLEAN
  BY EnvironmentTypeOK
<1>2. ASSUME NEW r \in Requests, InForce(r), Consumption(r) PROVE PlansTypeOK'
  BY <1>1, <1>2, ConsumptionTypeOK DEF PlansTypeOK
<1>3. ASSUME NEW r \in Requests, NEW reason \in PendingReasons, Block(r, reason)
      PROVE  PlansTypeOK'
  BY <1>1, <1>3 DEF Block, PlansTypeOK
<1>4. ASSUME NEW plan \in PlanContents, Store(plan) PROVE PlansTypeOK'
  <2>1. [plan |-> plan, revoked |-> FALSE, usedActions |-> 0, usedMutations |-> 0] \in GrantRows
    BY DEF GrantRows
  <2>2. QED BY <1>1, <1>4, <2>1 DEF Store, PlansTypeOK
<1>5. ASSUME NEW v \in DOMAIN grants, Revoke(v) PROVE PlansTypeOK'
  <2>1. grants[v] \in GrantRows
    BY DEF PlansTypeOK
  <2>2. [grants[v] EXCEPT !.revoked = TRUE] \in GrantRows
    BY <2>1 DEF GrantRows
  <2>3. grants' = [grants EXCEPT ![v] = [grants[v] EXCEPT !.revoked = TRUE]]
    BY <1>5 DEF Revoke
  <2>4. grants' \in Seq(GrantRows)
    BY <2>2, <2>3 DEF PlansTypeOK
  <2>5. QED BY <1>1, <1>5, <2>4 DEF Revoke, PlansTypeOK
<1>6. CASE UNCHANGED planTables
  BY <1>1, <1>6 DEF planTables, PlansTypeOK
<1>7. QED BY <1>2, <1>3, <1>4, <1>5, <1>6, StepCases

\* The plan tables keep rows of their columns' types.
THEOREM PlansTypeCorrect == PlansSpec => []PlansTypeOK
<1>1. PlansInit => PlansTypeOK
  BY DEF PlansInit, PlansTypeOK
<1>2. QED BY <1>1, NextPlansTypeOK, PTL DEF PlansSpec

-----------------------------------------------------------------------------
(* Executions.                                                              *)

\* A request, or a pull request at one head, is executed once over all
\* versions of the plan: a replacement grant does not renew it.
THEOREM PlansExecuteOnce == PlansSpec => []ExecutedOnce
<1>1. PlansInit => ExecutedOnce
  BY DEF PlansInit, ExecutedOnce
<1>2. ExecutedOnce /\ [PlansNext]_planVars => ExecutedOnce'
  <2> SUFFICES ASSUME ExecutedOnce, [PlansNext]_planVars PROVE ExecutedOnce'
    OBVIOUS
  <2>1. ASSUME NEW r \in Requests, InForce(r), Consumption(r) PROVE ExecutedOnce'
    <3>1. \A e \in planExecutions :
              e.request # RowOf(r).request /\ (e.key # None => e.key # RowOf(r).key)
      BY <2>1 DEF InForce, Replayed, RowOf
    <3>2. planExecutions' = planExecutions \cup {RowOf(r)}
      BY <2>1 DEF Consumption
    <3>3. QED BY <3>1, <3>2 DEF ExecutedOnce
  <2>2. ASSUME UNCHANGED planExecutions PROVE ExecutedOnce'
    BY <2>2 DEF ExecutedOnce
  <2>3. QED BY <2>1, <2>2, StepCases DEF Block, Store, Revoke, planTables
<1>3. QED BY <1>1, <1>2, PTL DEF PlansSpec

\* An execution is consumed only from the latest grant, unrevoked and in
\* force, for a target that grant names, while session and connection are
\* active.
THEOREM PlansConsumeInForce == PlansSpec => ConsumedInForce
<1>1. ASSUME PlansTypeOK, [PlansNext]_planVars, NEW e \in planExecutions' \ planExecutions
      PROVE  /\ e.version = Version
             /\ ~Grant.revoked
             /\ clock < Grant.plan.expiresAt
             /\ sessionActive /\ connected
             /\ e.request \notin Misbound
             /\ TargetBase(e.request) \in Bases
  <2>1. PICK r \in Requests : InForce(r) /\ Consumption(r)
    BY <1>1, StepCases DEF Block, Store, Revoke, planTables
  <2>2. e = RowOf(r)
    BY <1>1, <2>1 DEF Consumption
  <2>3. Grant.plan \in PlanRecords /\ clock \in Nat
    BY <1>1, <2>1, GrantType, PlansAssumption DEF InForce, GrantRows, PlansTypeOK
  <2>4. <<Operation(r), ResourceOf[r]>> \in {"read", "merge"} \X Resources
    BY RequestsAssumption DEF Operation
  <2>5. TargetBase(r) \in Bases
    BY <2>1, <2>3, <2>4 DEF InForce, TargetBase, PlanRecords
  <2>6. clock < Grant.plan.expiresAt
    BY <2>1, <2>3 DEF InForce, Expired, PlanRecords
  <2>7. QED BY <2>1, <2>2, <2>5, <2>6 DEF InForce, RowOf
<1>2. PlansTypeOK /\ [PlansNext]_planVars => [\A e \in planExecutions' \ planExecutions :
        /\ e.version = Version
        /\ ~Grant.revoked
        /\ clock < Grant.plan.expiresAt
        /\ sessionActive /\ connected
        /\ e.request \notin Misbound
        /\ TargetBase(e.request) \in Bases]_planVars
  BY <1>1
<1>3. QED BY <1>2, PlansTypeCorrect, PTL DEF PlansSpec, ConsumedInForce

-----------------------------------------------------------------------------
(* Ceilings.                                                                *)

MutationsUnder(v) == {e \in Under(v) : e.key # None}

\* The execution table is finite and names versions that exist, so the next
\* version to be stored has no execution: without this CeilingsHold is not
\* inductive.
CeilingsInv ==
    /\ PlansTypeOK
    /\ IsFiniteSet(planExecutions)
    /\ \A e \in planExecutions : e.version \in DOMAIN grants
    /\ CeilingsHold

\* The ceilings a row of the plan table carries are numbers.
LEMMA GrantCeilings ==
    ASSUME NEW g \in GrantRows
    PROVE  /\ g.usedActions \in Nat /\ g.usedMutations \in Nat
           /\ g.plan.maxActions \in Nat /\ g.plan.maxMutations \in Nat
<1>1. g.plan \in PlanRecords
  BY PlansAssumption DEF GrantRows
<1>2. QED BY <1>1 DEF GrantRows, PlanRecords

\* A consumption adds to the latest version one row, counted as a mutation
\* exactly when its request is one.
LEMMA ConsumptionAdds ==
    ASSUME CeilingsInv, NEW r \in Requests, InForce(r), Consumption(r)
    PROVE  /\ Cardinality(Under(Version)') = Cardinality(Under(Version)) + 1
           /\ Cardinality(MutationsUnder(Version)') =
                  Cardinality(MutationsUnder(Version)) + (IF r \in Mutations THEN 1 ELSE 0)
           /\ \A v \in DOMAIN grants \ {Version} :
                  /\ Under(v)' = Under(v)
                  /\ MutationsUnder(v)' = MutationsUnder(v)
<1>1. RowOf(r) \notin planExecutions
  BY DEF InForce, Replayed, RowOf
<1>2. planExecutions' = planExecutions \cup {RowOf(r)}
  BY DEF Consumption
<1>3. RowOf(r).version = Version /\ (RowOf(r).key # None <=> r \in Mutations)
  BY RequestsAssumption DEF RowOf, MutationKey
<1>4. IsFiniteSet(Under(Version)) /\ IsFiniteSet(MutationsUnder(Version))
  BY FS_Subset DEF CeilingsInv, Under, MutationsUnder
<1>5. Version' = Version
  BY GrantType DEF Consumption, Version, InForce, CeilingsInv, PlansTypeOK
<1>6. Under(Version)' = Under(Version) \cup {RowOf(r)}
  BY <1>2, <1>3, <1>5 DEF Under
<1>7. RowOf(r) \notin Under(Version) /\ RowOf(r) \notin MutationsUnder(Version)
  BY <1>1 DEF Under, MutationsUnder
<1>8. Cardinality(Under(Version)') = Cardinality(Under(Version)) + 1
  BY <1>4, <1>6, <1>7, FS_AddElement
<1>9. MutationsUnder(Version)' = IF r \in Mutations THEN MutationsUnder(Version) \cup {RowOf(r)}
                                                   ELSE MutationsUnder(Version)
  BY <1>3, <1>5, <1>6 DEF MutationsUnder
<1>10. Cardinality(MutationsUnder(Version)) \in Nat
  BY <1>4, FS_CardinalityType
<1>11. Cardinality(MutationsUnder(Version)') =
           Cardinality(MutationsUnder(Version)) + (IF r \in Mutations THEN 1 ELSE 0)
  <2>1. CASE r \in Mutations
    <3>1. MutationsUnder(Version)' = MutationsUnder(Version) \cup {RowOf(r)}
      BY <1>9, <2>1
    <3>2. QED BY <2>1, <3>1, <1>4, <1>7, FS_AddElement
  <2>2. CASE r \notin Mutations
    BY <2>2, <1>9, <1>10
  <2>3. QED BY <2>1, <2>2
<1>12. ASSUME NEW v \in DOMAIN grants \ {Version}
       PROVE  Under(v)' = Under(v) /\ MutationsUnder(v)' = MutationsUnder(v)
  BY <1>2, <1>3 DEF Under, MutationsUnder
<1>13. QED BY <1>8, <1>11, <1>12

\* A check charges what it adds, and only below both ceilings.
LEMMA ConsumptionKeepsCeilings ==
    ASSUME CeilingsInv, NEW r \in Requests, InForce(r), Consumption(r)
    PROVE  CeilingsHold'
<1>1. Version \in DOMAIN grants /\ Grant \in GrantRows
  BY GrantType DEF InForce, CeilingsInv
<1>2. DOMAIN grants' = DOMAIN grants
  BY DEF Consumption
<1>3. /\ Grant.usedActions = Cardinality(Under(Version))
      /\ Grant.usedMutations = Cardinality(MutationsUnder(Version))
      /\ Grant.usedActions <= Grant.plan.maxActions
      /\ Grant.usedMutations <= Grant.plan.maxMutations
  BY <1>1 DEF CeilingsInv, CeilingsHold, Grant, MutationsUnder
<1>4. /\ Grant.usedActions < Grant.plan.maxActions
      /\ r \in Mutations => Grant.usedMutations < Grant.plan.maxMutations
  BY <1>1, GrantCeilings DEF InForce, Exhausted
<1>5. grants'[Version] = Charged(Grant, r)
  BY <1>1 DEF Consumption
<1>6. /\ grants'[Version].plan = Grant.plan
      /\ grants'[Version].usedActions = Grant.usedActions + 1
      /\ grants'[Version].usedMutations = Grant.usedMutations + (IF r \in Mutations THEN 1 ELSE 0)
  <2>1. Grant.usedMutations \in Nat
    BY <1>1, GrantCeilings
  <2>2. QED BY <1>1, <1>5, <2>1 DEF Charged, GrantRows
<1>7. /\ grants'[Version].usedActions = Cardinality(Under(Version)')
      /\ grants'[Version].usedMutations = Cardinality(MutationsUnder(Version)')
  BY <1>3, <1>6, ConsumptionAdds
<1>8. /\ grants'[Version].usedActions <= grants'[Version].plan.maxActions
      /\ grants'[Version].usedMutations <= grants'[Version].plan.maxMutations
  BY <1>1, <1>3, <1>4, <1>6, GrantCeilings
<1>9. Version' = Version
  BY GrantType DEF Consumption, Version, InForce, CeilingsInv, PlansTypeOK
<1>10. ASSUME NEW v \in DOMAIN grants, v # Version
       PROVE  /\ grants'[v] = grants[v]
              /\ Under(v)' = Under(v)
              /\ MutationsUnder(v)' = MutationsUnder(v)
  BY <1>10, ConsumptionAdds DEF Consumption
<1>11. ASSUME NEW v \in DOMAIN grants
       PROVE  /\ grants'[v].usedActions = Cardinality(Under(v)')
              /\ grants'[v].usedMutations = Cardinality(MutationsUnder(v)')
              /\ grants'[v].usedActions <= grants'[v].plan.maxActions
              /\ grants'[v].usedMutations <= grants'[v].plan.maxMutations
  <2>1. CASE v = Version
    BY <2>1, <1>7, <1>8, <1>9
  <2>2. CASE v # Version
    BY <2>2, <1>10 DEF CeilingsInv, CeilingsHold, MutationsUnder
  <2>3. QED BY <2>1, <2>2
<1>12. QED BY <1>2, <1>11 DEF CeilingsHold, MutationsUnder

\* A replacement grant starts with no execution and counters at zero.
LEMMA StoreKeepsCeilings ==
    ASSUME CeilingsInv, NEW plan \in PlanContents, Store(plan)
    PROVE  CeilingsHold'
<1> DEFINE new == [plan |-> plan, revoked |-> FALSE, usedActions |-> 0, usedMutations |-> 0]
           next == Len(grants) + 1
           ran == {e \in planExecutions' : e.version = next}
<1>1. new \in GrantRows /\ plan.maxActions \in Nat /\ plan.maxMutations \in Nat
  BY PlansAssumption DEF GrantRows, PlanRecords
<1>2. grants \in Seq(GrantRows) /\ grants' = Append(grants, new)
  BY DEF CeilingsInv, PlansTypeOK, Store
<1> HIDE DEF new
<1>3. /\ DOMAIN grants' = DOMAIN grants \cup {next}
      /\ grants'[next] = new
      /\ \A v \in DOMAIN grants : grants'[v] = grants[v] /\ v # next
  BY <1>1, <1>2
<1> HIDE DEF next
<1>4. planExecutions' = planExecutions
  BY DEF Store
<1>5. ASSUME NEW v \in DOMAIN grants
      PROVE  /\ grants'[v].usedActions = Cardinality(Under(v)')
             /\ grants'[v].usedMutations = Cardinality({e \in Under(v)' : e.key # None})
             /\ grants'[v].usedActions <= grants'[v].plan.maxActions
             /\ grants'[v].usedMutations <= grants'[v].plan.maxMutations
  BY <1>3, <1>4 DEF CeilingsInv, CeilingsHold, Under
<1>6. /\ grants'[next].usedActions = Cardinality(ran)
      /\ grants'[next].usedMutations = Cardinality({e \in ran : e.key # None})
      /\ grants'[next].usedActions <= grants'[next].plan.maxActions
      /\ grants'[next].usedMutations <= grants'[next].plan.maxMutations
  <2>1. ran = {} /\ {e \in ran : e.key # None} = {}
    BY <1>3, <1>4 DEF CeilingsInv
  <2>2. /\ new.usedActions = 0 /\ new.usedMutations = 0
        /\ new.plan.maxActions \in Nat /\ new.plan.maxMutations \in Nat
    BY <1>1 DEF new
  <2> HIDE DEF ran
  <2>3. QED BY <1>3, <2>1, <2>2, FS_EmptySet
<1>7. QED
  <2> SUFFICES ASSUME NEW v \in DOMAIN grants'
               PROVE  /\ grants'[v].usedActions = Cardinality(Under(v)')
                      /\ grants'[v].usedMutations = Cardinality({e \in Under(v)' : e.key # None})
                      /\ grants'[v].usedActions <= grants'[v].plan.maxActions
                      /\ grants'[v].usedMutations <= grants'[v].plan.maxMutations
    BY DEF CeilingsHold, Under
  <2>1. CASE v = next
    BY <2>1, <1>6 DEF Under
  <2>2. CASE v # next
    BY <2>2, <1>3, <1>5
  <2>3. QED BY <2>1, <2>2

\* Every operation keeps the invariant.
LEMMA NextCeilingsInv == CeilingsInv /\ [PlansNext]_planVars => CeilingsInv'
<1> SUFFICES ASSUME CeilingsInv, [PlansNext]_planVars PROVE CeilingsInv'
  OBVIOUS
<1>1. PlansTypeOK'
  BY NextPlansTypeOK DEF CeilingsInv
<1>2. ASSUME NEW r \in Requests, InForce(r), Consumption(r) PROVE CeilingsInv'
  <2>1. IsFiniteSet(planExecutions')
    BY <1>2, FS_AddElement DEF Consumption, CeilingsInv
  <2>2. \A e \in planExecutions' : e.version \in DOMAIN grants'
    BY <1>2, GrantType DEF Consumption, InForce, RowOf, CeilingsInv
  <2>3. QED BY <1>1, <1>2, <2>1, <2>2, ConsumptionKeepsCeilings DEF CeilingsInv
<1>3. ASSUME NEW plan \in PlanContents, Store(plan) PROVE CeilingsInv'
  <2>1. DOMAIN grants \subseteq DOMAIN grants'
    BY <1>3 DEF Store, CeilingsInv, PlansTypeOK
  <2>2. QED BY <1>1, <1>3, <2>1, StoreKeepsCeilings DEF CeilingsInv, Store
<1>4. ASSUME NEW w \in DOMAIN grants, Revoke(w) PROVE CeilingsInv'
  <2>1. /\ DOMAIN grants' = DOMAIN grants
        /\ planExecutions' = planExecutions
    BY <1>4 DEF Revoke
  <2>2. ASSUME NEW v \in DOMAIN grants
        PROVE  /\ grants'[v].usedActions = grants[v].usedActions
               /\ grants'[v].usedMutations = grants[v].usedMutations
               /\ grants'[v].plan = grants[v].plan
    <3>1. grants[v] \in GrantRows
      BY DEF CeilingsInv, PlansTypeOK
    <3>2. grants'[v] = IF v = w THEN [grants[v] EXCEPT !.revoked = TRUE] ELSE grants[v]
      BY <1>4 DEF Revoke
    <3>3. QED BY <3>1, <3>2 DEF GrantRows
  <2>3. CeilingsHold'
    BY <2>1, <2>2 DEF CeilingsInv, CeilingsHold, Under
  <2>4. QED BY <1>1, <2>1, <2>3 DEF CeilingsInv
<1>5. CASE UNCHANGED <<grants, planExecutions>>
  BY <1>1, <1>5 DEF CeilingsInv, CeilingsHold, Under
<1>6. QED BY <1>2, <1>3, <1>4, <1>5, StepCases DEF Block, planTables

\* The counters of every version of the plan agree with its execution rows
\* and never pass the ceilings its operator confirmed.
THEOREM PlansKeepCeilings == PlansSpec => []CeilingsHold
<1>1. PlansInit => CeilingsInv
  BY FS_EmptySet DEF PlansInit, CeilingsInv, CeilingsHold, PlansTypeOK
<1>2. CeilingsInv => CeilingsHold
  BY DEF CeilingsInv
<1>3. QED BY <1>1, <1>2, NextCeilingsInv, PTL DEF PlansSpec

-----------------------------------------------------------------------------
(* The pending queue.                                                       *)

PendingOf == {q \in Requests : pending[q] # None}

\* The queue holds finitely many proposals, never more than its capacity.
PendingBounded ==
    /\ pending \in [Requests -> PendingReasons \cup {None}]
    /\ IsFiniteSet(PendingOf)
    /\ Cardinality(PendingOf) <= MaxPending

\* What one step may do to a recorded proposal.
ProposalsKept ==
    \A r \in Requests :
        pending[r] # None /\ pending'[r] # pending[r] =>
            /\ pending'[r] = None
            /\ \E e \in planExecutions' \ planExecutions : e.request = r

\* Every step keeps the queue within its capacity and the proposals in it.
LEMMA NextPending ==
    PendingBounded /\ [PlansNext]_planVars => PendingBounded' /\ ProposalsKept
<1> SUFFICES ASSUME PendingBounded, [PlansNext]_planVars PROVE PendingBounded' /\ ProposalsKept
  OBVIOUS
<1>1. Cardinality(PendingOf) \in Nat
  BY FS_CardinalityType DEF PendingBounded
<1>2. ASSUME NEW r \in Requests, InForce(r), Consumption(r) PROVE PendingBounded' /\ ProposalsKept
  <2>1. pending' = [pending EXCEPT ![r] = None]
    BY <1>2 DEF Consumption
  <2>2. PendingOf' = PendingOf \ {r}
    BY <2>1 DEF PendingOf, PendingBounded
  <2>3. IsFiniteSet(PendingOf') /\ Cardinality(PendingOf') <= MaxPending
    <3>1. /\ IsFiniteSet(PendingOf \ {r})
          /\ Cardinality(PendingOf \ {r}) <= Cardinality(PendingOf)
      BY FS_Subset DEF PendingBounded
    <3>2. Cardinality(PendingOf \ {r}) \in Nat
      BY <3>1, FS_CardinalityType
    <3>3. QED BY <1>1, <2>2, <3>1, <3>2, SessionPlansBounds DEF PendingBounded
  <2>4. RowOf(r) \in planExecutions' \ planExecutions /\ RowOf(r).request = r
    BY <1>2 DEF InForce, Replayed, Consumption, RowOf
  <2>5. ProposalsKept
    BY <2>1, <2>4 DEF ProposalsKept, PendingBounded
  <2>6. QED BY <2>1, <2>3, <2>5 DEF PendingBounded
<1>3. CASE UNCHANGED pending
  BY <1>3 DEF PendingBounded, PendingOf, ProposalsKept
<1>4. ASSUME NEW r \in Requests, NEW reason \in PendingReasons, Block(r, reason)
      PROVE  PendingBounded' /\ ProposalsKept
  <2>1. CASE Cardinality(PendingOf) < MaxPending /\ pending[r] = None
    <3>1. pending' = [pending EXCEPT ![r] = reason]
      BY <1>4, <2>1 DEF Block, PendingOf
    <3>2. reason # None
      BY DEF PendingReasons, BlockReasons, DeferReasons, None
    <3>3. PendingOf' = PendingOf \cup {r}
      BY <3>1, <3>2 DEF PendingOf, PendingBounded
    <3>4. IsFiniteSet(PendingOf') /\ Cardinality(PendingOf') <= MaxPending
      <4>1. r \notin PendingOf
        BY <2>1 DEF PendingOf
      <4>2. /\ IsFiniteSet(PendingOf \cup {r})
            /\ Cardinality(PendingOf \cup {r}) = Cardinality(PendingOf) + 1
        BY <4>1, FS_AddElement DEF PendingBounded
      <4>3. QED BY <1>1, <2>1, <3>3, <4>2, SessionPlansBounds
    <3>5. QED BY <2>1, <3>1, <3>4 DEF PendingBounded, ProposalsKept
  <2>2. CASE ~(Cardinality(PendingOf) < MaxPending /\ pending[r] = None)
    BY <1>3, <1>4, <2>2 DEF Block, PendingOf
  <2>3. QED BY <2>1, <2>2
<1>5. QED BY <1>2, <1>3, <1>4, StepCases DEF Store, Revoke, planTables

\* The queue keeps the first proposal of a request until the request is
\* executed, and never passes its capacity.
THEOREM PlansKeepProposals == PlansSpec => PendingIsImmutable
<1>1. PlansInit => PendingBounded
  <2> SUFFICES ASSUME PlansInit PROVE PendingBounded
    OBVIOUS
  <2>1. PendingOf = {}
    BY DEF PlansInit, PendingOf
  <2>2. QED BY <2>1, FS_EmptySet, SessionPlansBounds DEF PlansInit, PendingBounded
<1>2. PendingBounded /\ [PlansNext]_planVars =>
        [/\ \A r \in Requests :
              pending[r] # None /\ pending'[r] # pending[r] =>
                  /\ pending'[r] = None
                  /\ \E e \in planExecutions' \ planExecutions : e.request = r
         /\ Cardinality({r \in Requests : pending'[r] # None}) <= MaxPending]_planVars
  BY NextPending DEF ProposalsKept, PendingBounded, PendingOf
<1>3. QED BY <1>1, <1>2, NextPending, PTL DEF PlansSpec, PendingIsImmutable

-----------------------------------------------------------------------------
(***************************************************************************)
(* The Guardian.                                                           *)
(***************************************************************************)
\* What one model may come to.
LEMMA AdviceType ==
    ASSUME NEW answers \in Answers \X Answers
    PROVE  Advice(answers) \in {Failed, Shapeless} \cup Recommendations
BY GuardianAssumption DEF Advice

LEMMA StricterType ==
    ASSUME NEW floor \in Levels, NEW level \in Levels
    PROVE  /\ Stricter(floor, level) \in {floor, level}
           /\ Rank[Stricter(floor, level)] >= Rank[floor]
           /\ Rank[Stricter(floor, level)] >= Rank[level]
BY DEF Stricter, Levels, Rank

\* The level an advice is turned into is never below the floor, nor below what
\* a certain recommendation or the step-up of an uncertain one asks for
\* (applyGuardianRecommendation).
THEOREM AdviceOnlyRaises ==
    ASSUME NEW floor \in Levels, NEW advice \in {Failed, Shapeless} \cup Recommendations
    PROVE  LET level == ApplyRecommendation(floor, advice) IN
           /\ level \in Levels
           /\ Rank[level] >= Rank[floor]
           /\ advice \in Recommendations =>
                Rank[level] >= Rank[IF advice.certain THEN advice.level ELSE "step_up"]
<1> DEFINE asked == IF advice.certain THEN advice.level ELSE "step_up"
<1>1. CASE advice \in Recommendations
  <2>1. asked \in Levels
    BY <1>1 DEF Recommendations, Levels, Rank
  <2>2. ApplyRecommendation(floor, advice) = Stricter(floor, asked)
    BY <1>1 DEF ApplyRecommendation, Recommendations
  <2> QED BY <2>1, <2>2, StricterType
<1>2. CASE advice \in {Failed, Shapeless}
  <2>1. advice.shape \in {"failed", "shapeless"}
    BY <1>2 DEF Failed, Shapeless
  <2>2. ApplyRecommendation(floor, advice) = "deny" /\ advice \notin Recommendations
    BY <2>1 DEF ApplyRecommendation, Recommendations
  <2> QED BY <2>2 DEF Levels, Rank
<1> QED BY <1>1, <1>2

\* Every opinion a caller gets of the risk service, whatever the two models
\* answer and however the call is refused, keeps the floor or raises it; it
\* keeps the floor of a read or a merge only if the service took the call and a
\* model, the second one only after a shapeless answer of the first, recommended
\* with certainty no more than the floor.
THEOREM GuardianNeverLowers ==
    ASSUME NEW floor \in Levels, NEW refusal, NEW answers \in Answers \X Answers
    PROVE  LET opinion == Opinion(floor, refusal, answers) IN
           /\ opinion.level \in Levels
           /\ Rank[opinion.level] >= Rank[floor]
           /\ opinion.level = floor /\ floor \in {"allow", "confirm"} =>
                /\ refusal = "none"
                /\ \E i \in 1..2 :
                    /\ answers[i] \in Recommendations
                    /\ answers[i].certain /\ Rank[answers[i].level] <= Rank[floor]
                    /\ i = 2 => answers[1].shape = "shapeless"
<1> DEFINE advice == Advice(answers)
           opinion == Opinion(floor, refusal, answers)
<1>1. advice \in {Failed, Shapeless} \cup Recommendations
  BY AdviceType
<1>2. CASE refusal = "none" /\ advice \in Recommendations
  <2>1. opinion.level = ApplyRecommendation(floor, advice)
    BY <1>2 DEF Opinion, Evaluation, Recommendations
  <2>2. advice.certain \in BOOLEAN /\ advice.level \in Levels
    BY <1>2 DEF Recommendations
  <2>3. /\ opinion.level \in Levels
        /\ Rank[opinion.level] >= Rank[floor]
        /\ Rank[opinion.level] >= Rank[IF advice.certain THEN advice.level ELSE "step_up"]
    BY <1>1, <1>2, <2>1, AdviceOnlyRaises
  <2>4. ASSUME opinion.level = floor, floor \in {"allow", "confirm"}
        PROVE  \E i \in 1..2 :
                    /\ answers[i] \in Recommendations
                    /\ answers[i].certain /\ Rank[answers[i].level] <= Rank[floor]
                    /\ i = 2 => answers[1].shape = "shapeless"
    <3>1. advice.certain /\ Rank[advice.level] <= Rank[floor]
      BY <2>2, <2>3, <2>4 DEF Rank, Levels
    <3>2. \/ advice = answers[1]
          \/ advice = answers[2] /\ answers[1].shape = "shapeless"
      BY DEF Advice
    <3> QED BY <1>2, <3>1, <3>2
  <2> QED BY <1>2, <2>3, <2>4
<1>3. CASE refusal # "none" \/ advice \notin Recommendations
  <2>1. advice \notin Recommendations => advice.shape # "recommendation"
    BY <1>1 DEF Failed, Shapeless
  <2>2. opinion.level = "deny"
    BY <1>3, <2>1 DEF Opinion, Evaluation, Unavailable
  <2> QED BY <2>2 DEF Levels, Rank
<1> QED BY <1>2, <1>3

-----------------------------------------------------------------------------
(***************************************************************************)
(* The broker.                                                             *)
(***************************************************************************)
(* The inductive invariant.                                                 *)

Codes == DenialCodes \cup {"ok", None}
Outcomes == {"not_assessed", "unavailable", "uncertain", "preserved", "escalated"}

\* The awaits before and after the Guardian's assent, those after the tool
\* call was charged, and those of a merge only.
Unassessed == {"idle", "attempt", "connections", "inspect", "guardian"}
Paid == {"validate", "read", "consume", "reinspect", "reread", "final", "send", "put"}
Assented == {"approval", "charge"} \cup Paid
Merging == {"consume", "reinspect", "reread", "final", "send", "put"}
Ending == {"defer", "decide"}

ExecRows ==
    [pc: Unassessed \cup Assented \cup Ending \cup {"done"},
     request: Requests \cup {None}, approval: Approvals \cup {None}, startedAt: Nat,
     version: 0..MaxGrants, guardian: Outcomes, base: Bases \cup {None}, tool: BOOLEAN,
     consumed: BOOLEAN, code: Codes]
DecisionRows ==
    [attempt: Execs, allowed: BOOLEAN, tool: BOOLEAN, approval: BOOLEAN, guardian: Outcomes]

\* The variables of the broker and of the tables beside the plans'.
BrokerTypeOK ==
    /\ PlansTypeOK
    /\ Version <= MaxGrants
    /\ exec \in [Execs -> ExecRows]
    /\ approvals \in [Approvals -> [state: {"unissued", "available", "consumed"},
                                    approvedAt: Nat]]
    /\ toolCalls \in 0..ToolCalls
    /\ attempts \subseteq Execs
    /\ decisions \subseteq DecisionRows
    /\ pull \in [head: Resources, base: Bases, state: {"open", "closed", "merged"}]
    /\ puts \in [Execs -> {"unsent", "sent", "merged", "refused"}]

\* Codes that may hide a merge.
Uncertain == {"ok", "audit_unavailable", "provider_failed"}

\* What the locals of an execution say of each other and of its PUT, at each
\* await.
RowOK(row, put) ==
    /\ row.pc # "idle" => row.request \in Requests
    /\ row.pc \in Unassessed =>
        row.guardian = "not_assessed" /\ ~row.tool /\ ~row.consumed /\ put = "unsent"
    /\ row.pc \in Assented =>
        /\ row.guardian = "preserved"
        /\ put = "unsent" <=> row.pc # "put"
        /\ row.version = 0 /\ row.request \in Mutations /\ row.pc # "approval" =>
                row.approval # None
    /\ row.pc \in Paid => row.tool
    /\ row.pc \in Merging \cup {"approval"} => row.request \in Mutations
    /\ row.pc \in {"approval", "consume"} => row.version = 0
    /\ row.pc \in {"reinspect", "reread", "defer"} => row.version # 0
    /\ row.pc \in {"send", "put"} \/ (row.pc = "final" /\ row.version = 0) => row.consumed
    /\ row.consumed \/ put # "unsent" => row.request \in Mutations
    /\ row.pc \in Ending =>
        /\ row.guardian # "preserved" =>
                ~row.tool /\ ~row.consumed /\ put = "unsent" /\ row.code # "ok"
        /\ row.code = "ok" =>
                row.tool /\ (row.request \in Mutations => put = "merged" /\ row.consumed)
    /\ row.pc = "defer" => row.code \in DeferReasons
    /\ row.pc \in Ending \cup {"done"} /\ row.code \notin Uncertain => put \in {"unsent", "refused"}
    /\ row.pc = "done" => ~row.tool /\ ~row.consumed

-----------------------------------------------------------------------------
(* The rows an execution moves through.                                     *)

LEMMA CodeTypes ==
    /\ \A reason \in BlockReasons : PlanDenial(reason) \in DenialCodes \ Uncertain
    /\ DeferReasons \subseteq DenialCodes \ Uncertain
BY DEF BlockReasons, PlanDenial, DenialCodes, DeferReasons, Uncertain

\* A denial keeps everything but the await and the code.
LEMMA DeniedRow ==
    ASSUME NEW row \in ExecRows, NEW code \in Codes
    PROVE  /\ Denied(row, code) \in ExecRows
           /\ Denied(row, code).pc =
                IF row.version # 0 /\ code \in DeferReasons THEN "defer" ELSE "decide"
           /\ Denied(row, code).code = code
           /\ Denied(row, code).request = row.request
           /\ Denied(row, code).approval = row.approval
           /\ Denied(row, code).version = row.version
           /\ Denied(row, code).guardian = row.guardian
           /\ Denied(row, code).tool = row.tool
           /\ Denied(row, code).consumed = row.consumed
BY DEF Denied, ExecRows, Ending

\* A denial before the PUT, or one that does not hide it, is consistent.
LEMMA DeniedOK ==
    ASSUME NEW row \in ExecRows, NEW put, RowOK(row, put),
           row.pc \in (Unassessed \cup Assented) \ {"idle"}, NEW code \in Codes,
           code # "ok", code # None,
           row.pc # "put" \/ code = "provider_failed" \/ put = "refused"
    PROVE  RowOK(Denied(row, code), put)
<1>1. row.pc \notin Ending \cup {"done"}
  BY DEF Unassessed, Assented, Paid, Ending
<1>2. row.guardian # "preserved" => row.pc \in Unassessed
  BY DEF RowOK
<1>. QED
  BY <1>1, <1>2, DeniedRow DEF RowOK, Unassessed, Assented, Paid, Merging, Ending, Uncertain

LEMMA ReturnedRow ==
    ASSUME NEW row \in ExecRows, NEW code \in Codes
    PROVE  /\ Returned(row, code) \in ExecRows
           /\ Returned(row, code).pc = "done"
           /\ Returned(row, code).code = code
           /\ Returned(row, code).request = row.request
           /\ Returned(row, code).approval = row.approval
           /\ Returned(row, code).version = row.version
           /\ Returned(row, code).tool = FALSE
           /\ Returned(row, code).consumed = FALSE
BY DEF Returned, ExecRows, Outcomes

\* So is the return of a row, if its code is not a wrong definite denial.
LEMMA ReturnedOK ==
    ASSUME NEW row \in ExecRows, NEW put, RowOK(row, put), row.pc # "idle",
           NEW code \in Codes,
           code \in Uncertain \/ put \in {"unsent", "refused"}
    PROVE  RowOK(Returned(row, code), put)
BY ReturnedRow DEF RowOK, Unassessed, Assented, Paid, Merging, Ending

\* Only e moves, to a consistent row.
StepOK(e) ==
    /\ exec' = [exec EXCEPT ![e] = exec'[e]]
    /\ exec'[e] \in ExecRows
    /\ RowOK(exec'[e], puts'[e])
    /\ puts' = [puts EXCEPT ![e] = puts'[e]]

LEMMA MovedTo ==
    ASSUME BrokerTypeOK, NEW e \in Execs, NEW row \in ExecRows,
           exec' = [exec EXCEPT ![e] = row], RowOK(row, puts'[e]),
           puts' = puts
    PROVE  StepOK(e)
<1>1. exec'[e] = row
  BY DEF BrokerTypeOK
<1>2. puts' = [puts EXCEPT ![e] = puts'[e]]
  BY DEF BrokerTypeOK
<1>. QED BY <1>1, <1>2 DEF StepOK

LEMMA DenyStep ==
    ASSUME BrokerTypeOK, NEW e \in Execs, RowOK(exec[e], puts[e]),
           NEW code \in Codes, code # "ok", code # None, Deny(e, code),
           exec[e].pc \in (Unassessed \cup Assented) \ {"idle"},
           exec[e].pc # "put" \/ code = "provider_failed" \/ puts[e] = "refused",
           puts' = puts
    PROVE  StepOK(e)
<1>1. exec[e] \in ExecRows
  BY DEF BrokerTypeOK
<1>2. exec' = [exec EXCEPT ![e] = Denied(exec[e], code)]
  BY DEF Deny
<1>3. Denied(exec[e], code) \in ExecRows
  BY <1>1, DeniedRow
<1>4. RowOK(Denied(exec[e], code), puts'[e])
  BY <1>1, DeniedOK
<1>. QED BY <1>2, <1>3, <1>4, MovedTo

LEMMA ReturnStep ==
    ASSUME BrokerTypeOK, NEW e \in Execs, RowOK(exec[e], puts[e]),
           NEW code \in Codes, Return(e, code), exec[e].pc # "idle",
           code \in Uncertain \/ puts[e] \in {"unsent", "refused"},
           puts' = puts
    PROVE  StepOK(e)
<1>1. exec[e] \in ExecRows
  BY DEF BrokerTypeOK
<1>2. exec' = [exec EXCEPT ![e] = Returned(exec[e], code)]
  BY DEF Return
<1>. QED BY <1>1, <1>2, ReturnedRow, ReturnedOK, MovedTo

\* A row that only moves on to the next await.
LEMMA GotoRow ==
    ASSUME BrokerTypeOK, NEW e \in Execs, NEW pc \in Unassessed \cup Assented \cup Ending
    PROVE  /\ [exec[e] EXCEPT !.pc = pc] \in ExecRows
           /\ Goto(e, pc) => exec' = [exec EXCEPT ![e] = [exec[e] EXCEPT !.pc = pc]]
BY DEF BrokerTypeOK, ExecRows, Goto

-----------------------------------------------------------------------------
(* The steps of an execution.                                               *)

LEMMA BeginOK ==
    ASSUME BrokerTypeOK, NEW e \in Execs, RowOK(exec[e], puts[e]),
           NEW r \in Requests, NEW a \in Approvals \cup {None}, Begin(e, r, a)
    PROVE  StepOK(e)
<1> DEFINE row == [exec[e] EXCEPT !.request = r, !.approval = a, !.startedAt = clock]
<1>1. exec[e] \in ExecRows /\ exec[e].pc = "idle" /\ clock \in Nat
  BY DEF BrokerTypeOK, PlansTypeOK, Begin, At
<1>2. row \in ExecRows /\ row.pc = "idle" /\ row.request = r
  BY <1>1 DEF ExecRows
<1>3. puts[e] = "unsent" /\ ~exec[e].tool /\ ~exec[e].consumed /\ exec[e].guardian = "not_assessed"
  BY <1>1 DEF RowOK, Unassessed
<1>4. ASSUME NEW code \in {"audit_unavailable", "not_active"}
      PROVE  Returned(row, code) \in ExecRows /\ RowOK(Returned(row, code), puts[e])
  <2>1. code \in Codes
    BY DEF Codes, DenialCodes
  <2>2. /\ Returned(row, code) \in ExecRows
        /\ Returned(row, code).pc = "done"
        /\ Returned(row, code).request = r
        /\ Returned(row, code).tool = FALSE /\ Returned(row, code).consumed = FALSE
    BY <1>2, <2>1, ReturnedRow
  <2>. QED BY <1>3, <2>2 DEF RowOK, Unassessed, Assented, Paid, Merging, Ending
<1>5. [row EXCEPT !.pc = "attempt"] \in ExecRows /\ RowOK([row EXCEPT !.pc = "attempt"], puts[e])
  BY <1>1, <1>2, <1>3 DEF RowOK, ExecRows, Unassessed, Assented, Paid, Merging, Ending
<1>6. puts' = puts
  BY DEF Begin, githubVars
<1>7. \/ exec' = [exec EXCEPT ![e] = Returned(row, "audit_unavailable")]
      \/ exec' = [exec EXCEPT ![e] = [row EXCEPT !.pc = "attempt"]]
      \/ exec' = [exec EXCEPT ![e] = Returned(row, "not_active")]
  BY DEF Begin
<1>. QED BY <1>4, <1>5, <1>6, <1>7, MovedTo

LEMMA AppendAttemptOK ==
    ASSUME BrokerTypeOK, NEW e \in Execs, RowOK(exec[e], puts[e]),
           NEW replied \in BOOLEAN, AppendAttempt(e, replied)
    PROVE  StepOK(e)
<1>1. exec[e] \in ExecRows /\ exec[e].pc = "attempt" /\ puts' = puts
  BY DEF BrokerTypeOK, AppendAttempt, At, githubVars
<1>2. CASE replied
  <2>1. Goto(e, "connections")
    BY <1>2 DEF AppendAttempt
  <2>2. RowOK([exec[e] EXCEPT !.pc = "connections"], puts[e])
    BY <1>1 DEF RowOK, ExecRows, Unassessed, Assented, Paid, Merging, Ending
  <2>. QED BY <1>1, <2>1, <2>2, GotoRow, MovedTo DEF Unassessed
<1>3. CASE ~replied
  BY <1>1, <1>3, ReturnStep DEF AppendAttempt, Codes, DenialCodes, Uncertain
<1>. QED BY <1>2, <1>3

LEMMA GetConnectionsOK ==
    ASSUME BrokerTypeOK, NEW e \in Execs, RowOK(exec[e], puts[e]), GetConnections(e)
    PROVE  StepOK(e)
<1>1. exec[e] \in ExecRows /\ exec[e].pc = "connections" /\ puts' = puts
  BY DEF BrokerTypeOK, GetConnections, At, githubVars
<1>2. CASE Goto(e, "inspect")
  <2>1. RowOK([exec[e] EXCEPT !.pc = "inspect"], puts[e])
    BY <1>1 DEF RowOK, ExecRows, Unassessed, Assented, Paid, Merging, Ending
  <2>. QED BY <1>1, <1>2, <2>1, GotoRow, MovedTo DEF Unassessed
<1>3. ASSUME NEW code \in {"connection_unavailable", "scope_mismatch"}, Deny(e, code)
      PROVE  StepOK(e)
  BY <1>1, <1>3, DenyStep DEF Codes, DenialCodes, Unassessed, None
<1>. QED BY <1>2, <1>3 DEF GetConnections

\* An execution that has not sent its PUT may be denied for any reason.
LEMMA DenialOK ==
    ASSUME BrokerTypeOK, NEW e \in Execs, RowOK(exec[e], puts[e]),
           exec[e].pc \in (Unassessed \cup Assented) \ {"idle", "put"},
           NEW code \in DenialCodes
    PROVE  Denied(exec[e], code) \in ExecRows /\ RowOK(Denied(exec[e], code), puts[e])
<1>1. exec[e] \in ExecRows
  BY DEF BrokerTypeOK
<1>2. code \in Codes /\ code # "ok" /\ code # None
  BY DEF Codes, DenialCodes, None
<1>. QED BY <1>1, <1>2, DeniedRow, DeniedOK

LEMMA AnsweredOK ==
    ASSUME BrokerTypeOK, NEW e \in Execs, RowOK(exec[e], puts[e]),
           exec[e].pc \in (Unassessed \cup Assented) \ {"idle", "put"},
           NEW replied \in BOOLEAN, NEW row \in ExecRows, RowOK(row, puts[e]),
           Answered(e, replied, row), puts' = puts
    PROVE  StepOK(e)
<1>1. CASE replied
  BY <1>1, MovedTo DEF Answered
<1>2. CASE ~replied
  <2>1. exec' = [exec EXCEPT ![e] = Denied(exec[e], "audit_unavailable")]
    BY <1>2 DEF Answered
  <2>2. "audit_unavailable" \in DenialCodes
    BY DEF DenialCodes
  <2>. QED BY <2>1, <2>2, DenialOK, MovedTo
<1>. QED BY <1>1, <1>2

LEMMA InspectPlanOK ==
    ASSUME BrokerTypeOK, NEW e \in Execs, RowOK(exec[e], puts[e]),
           NEW replied \in BOOLEAN, InspectPlan(e, replied)
    PROVE  StepOK(e)
<1> DEFINE verdict == Verdict(RequestOf(e), "inspect", 0, None)
           version == IF verdict = "allowed" THEN Version ELSE 0
           next == [exec[e] EXCEPT !.pc = "guardian", !.version = version]
<1>1. exec[e] \in ExecRows /\ exec[e].pc = "inspect" /\ puts' = puts
  BY DEF BrokerTypeOK, InspectPlan, At, githubVars
<1>2. version \in 0..MaxGrants
  BY SessionPlansBounds DEF BrokerTypeOK, PlansTypeOK, Version
<1>3. next \in ExecRows /\ RowOK(next, puts[e])
  <2> HIDE DEF version
  <2>. QED BY <1>1, <1>2 DEF RowOK, ExecRows, Unassessed, Assented, Paid, Merging, Ending
<1>4. verdict \in BlockReasons => PlanDenial(verdict) \in DenialCodes
  BY CodeTypes
<1>5. Answered(e, replied,
            IF verdict \in BlockReasons THEN Denied(exec[e], PlanDenial(verdict)) ELSE next)
  BY DEF InspectPlan
<1>. HIDE DEF verdict, next
<1>6. CASE verdict \in BlockReasons
  BY <1>1, <1>4, <1>5, <1>6, DenialOK, AnsweredOK DEF Unassessed
<1>7. CASE verdict \notin BlockReasons
  BY <1>1, <1>3, <1>5, <1>7, AnsweredOK DEF Unassessed
<1>. QED BY <1>6, <1>7

\* What the broker hears of the Guardian and does not object to is its assent.
LEMMA OpinionCases ==
    ASSUME NEW r \in Requests, NEW opinion \in Opinions[Floor(r)]
    PROVE  /\ OutcomeOf(Floor(r), opinion) \in Outcomes \ {"not_assessed"}
           /\ Objection(r, opinion) \in DenialCodes \cup {"ok"}
           /\ Objection(r, opinion) = "ok" => OutcomeOf(Floor(r), opinion) = "preserved"
<1>1. \E answers \in Answers \X Answers : \E refusal :
            opinion = Opinion(Floor(r), refusal, answers)
  <2> DEFINE refusalAt(now) == Refusal([authorized |-> TRUE, requestedAt |-> 0], Turn, now)
  <2>1. opinion \in {Opinion(Floor(r), refusalAt(now), answers) :
                        now \in 0..1, answers \in Answers \X Answers}
    BY DEF Opinions
  <2>2. PICK now \in 0..1, answers \in Answers \X Answers :
            opinion = Opinion(Floor(r), refusalAt(now), answers)
    BY <2>1
  <2>. QED BY <2>2
<1>. PICK answers \in Answers \X Answers : \E refusal :
            opinion = Opinion(Floor(r), refusal, answers)
  BY <1>1
<1>. PICK refusal : opinion = Opinion(Floor(r), refusal, answers)
  OBVIOUS
<1>2. Floor(r) \in {"allow", "confirm"}
  BY DEF Floor
<1>3. Floor(r) \in Levels
  BY <1>2 DEF Levels, Rank
<1>4. /\ OutcomeOf(Floor(r), opinion) \in Outcomes \ {"not_assessed"}
      /\ Objection(r, opinion) \in DenialCodes \cup {"ok"}
  BY DEF OutcomeOf, Objection, Outcomes, DenialCodes
<1>5. CASE refusal = "none" /\ Advice(answers).shape = "recommendation"
  <2>1. Advice(answers) \in Recommendations
    BY <1>5, AdviceType DEF Failed, Shapeless
  <2>2. /\ opinion.status = "evaluated"
        /\ opinion.certain = Advice(answers).certain
        /\ opinion.level = ApplyRecommendation(Floor(r), Advice(answers))
    BY <1>5 DEF Opinion, Evaluation
  <2>3. ASSUME ~opinion.certain PROVE opinion.level \in {"step_up", "deny"}
    <3>1. opinion.level = Stricter(Floor(r), "step_up")
      BY <1>5, <2>2, <2>3 DEF ApplyRecommendation
    <3>. QED BY <1>2, <3>1 DEF Stricter, Rank
  <2>4. opinion.certain /\ opinion.level = Floor(r) => OutcomeOf(Floor(r), opinion) = "preserved"
    BY <2>2 DEF OutcomeOf
  <2>5. Objection(r, opinion) = "ok" => opinion.level = Floor(r) /\ opinion.level \notin {"step_up", "deny"}
    BY <2>2 DEF Objection
  <2>. QED BY <1>4, <2>3, <2>4, <2>5
<1>6. CASE ~(refusal = "none" /\ Advice(answers).shape = "recommendation")
  <2>1. opinion = Unavailable
    BY <1>6 DEF Opinion, Evaluation
  <2>2. Objection(r, opinion) = "guardian_unavailable"
    BY <2>1 DEF Unavailable, Objection
  <2>. QED BY <1>4, <2>2
<1>. QED BY <1>5, <1>6

LEMMA EvaluateGuardianOK ==
    ASSUME BrokerTypeOK, NEW e \in Execs, RowOK(exec[e], puts[e]), EvaluateGuardian(e)
    PROVE  StepOK(e)
<1> DEFINE r == RequestOf(e)
<1>1. exec[e] \in ExecRows /\ exec[e].pc = "guardian" /\ puts' = puts /\ r \in Requests
  BY DEF BrokerTypeOK, EvaluateGuardian, At, githubVars, RowOK, RequestOf
<1>2. PICK opinion \in Opinions[Floor(r)] :
        LET row == [exec[e] EXCEPT !.guardian = OutcomeOf(Floor(r), opinion)]
            code == Objection(r, opinion)
        IN exec' = [exec EXCEPT ![e] =
            IF code # "ok" THEN Denied(row, code)
            ELSE [row EXCEPT !.pc = IF Merges(e) /\ exec[e].version = 0
                                    THEN "approval" ELSE "charge"]]
  BY DEF EvaluateGuardian
<1> DEFINE outcome == OutcomeOf(Floor(r), opinion)
           code == Objection(r, opinion)
           row == [exec[e] EXCEPT !.guardian = outcome]
           pc == IF Merges(e) /\ exec[e].version = 0 THEN "approval" ELSE "charge"
<1>3. outcome \in Outcomes /\ code \in DenialCodes \cup {"ok"}
      /\ (code = "ok" => outcome = "preserved")
  BY <1>1, OpinionCases
<1>4. exec' = [exec EXCEPT ![e] = IF code # "ok" THEN Denied(row, code) ELSE [row EXCEPT !.pc = pc]]
  BY <1>2
<1>. HIDE DEF outcome, code
<1>5. row \in ExecRows /\ row.guardian = outcome /\ row.pc = "guardian" /\ row.request = r
      /\ row.version = exec[e].version /\ ~row.tool /\ ~row.consumed /\ puts[e] = "unsent"
  BY <1>1, <1>3 DEF ExecRows, RowOK, Unassessed, RequestOf
<1>6. CASE code # "ok"
  <2>1. code \in Codes /\ code # None
    BY <1>3, <1>6 DEF Codes, DenialCodes, None
  <2>2. /\ Denied(row, code) \in ExecRows
        /\ Denied(row, code).pc =
                IF row.version # 0 /\ code \in DeferReasons THEN "defer" ELSE "decide"
        /\ Denied(row, code).code = code
        /\ Denied(row, code).request = row.request
        /\ Denied(row, code).version = row.version
        /\ Denied(row, code).tool = row.tool
        /\ Denied(row, code).consumed = row.consumed
    BY <1>5, <2>1, DeniedRow
  <2>3. RowOK(Denied(row, code), puts[e])
    BY <1>1, <1>5, <1>6, <2>2 DEF RowOK, Unassessed, Assented, Paid, Merging, Ending
  <2>. QED BY <1>1, <1>4, <1>6, <2>2, <2>3, MovedTo
<1>7. CASE code = "ok"
  <2>1. pc \in {"approval", "charge"} /\ (pc = "approval" <=> r \in Mutations /\ row.version = 0)
    BY <1>5 DEF Merges
  <2>. HIDE DEF pc
  <2>2. [row EXCEPT !.pc = pc] \in ExecRows /\ RowOK([row EXCEPT !.pc = pc], puts[e])
    BY <1>1, <1>3, <1>5, <1>7, <2>1 DEF ExecRows, RowOK, Unassessed, Assented, Paid, Merging, Ending
  <2>. QED BY <1>1, <1>4, <1>7, <2>2, MovedTo
<1>. QED BY <1>6, <1>7

LEMMA ValidateApprovalOK ==
    ASSUME BrokerTypeOK, NEW e \in Execs, RowOK(exec[e], puts[e]), ValidateApproval(e)
    PROVE  StepOK(e)
<1>1. exec[e] \in ExecRows /\ exec[e].pc = "approval" /\ puts' = puts
  BY DEF BrokerTypeOK, ValidateApproval, At, githubVars
<1>2. CASE ApprovalVerdict(e) = "ok" /\ Goto(e, "charge")
  <2>1. exec[e].approval # None
    BY <1>2 DEF ApprovalVerdict
  <2>2. RowOK([exec[e] EXCEPT !.pc = "charge"], puts[e])
    BY <1>1, <2>1 DEF RowOK, ExecRows, Unassessed, Assented, Paid, Merging, Ending
  <2>. QED BY <1>1, <1>2, <2>2, GotoRow, MovedTo DEF Assented
<1>3. CASE ApprovalVerdict(e) # "ok" /\ Deny(e, ApprovalVerdict(e))
  <2> DEFINE code == ApprovalVerdict(e)
  <2>1. code \in Codes /\ code # None
    BY DEF ApprovalVerdict, Codes, DenialCodes, None
  <2>2. Deny(e, code) /\ code # "ok"
    BY <1>3
  <2>. HIDE DEF code
  <2>. QED BY <1>1, <2>1, <2>2, DenyStep DEF Assented, Unassessed
<1>. QED BY <1>2, <1>3 DEF ValidateApproval

LEMMA ConsumeToolCallOK ==
    ASSUME BrokerTypeOK, NEW e \in Execs, RowOK(exec[e], puts[e]),
           NEW replied \in BOOLEAN, ConsumeToolCall(e, replied)
    PROVE  StepOK(e)
<1> DEFINE next == [exec[e] EXCEPT !.pc = "validate", !.tool = TRUE]
<1>1. exec[e] \in ExecRows /\ exec[e].pc = "charge" /\ puts' = puts
  BY DEF BrokerTypeOK, ConsumeToolCall, At, githubVars
<1>2. next \in ExecRows /\ RowOK(next, puts[e])
  BY <1>1 DEF RowOK, ExecRows, Unassessed, Assented, Paid, Merging, Ending
<1>3. "volume_exhausted" \in DenialCodes
  BY DEF DenialCodes
<1>4. \/ Answered(e, replied, next)
      \/ Answered(e, replied, Denied(exec[e], "volume_exhausted"))
  BY DEF ConsumeToolCall
<1>. HIDE DEF next
<1>. QED BY <1>1, <1>2, <1>3, <1>4, DenialOK, AnsweredOK DEF Assented, Unassessed

\* A validation denies, or lets the execution go on with its authority spent if
\* that was what it asked.
LEMMA ValidationOK ==
    ASSUME BrokerTypeOK, NEW e \in Execs, RowOK(exec[e], puts[e]),
           NEW replied \in BOOLEAN, NEW consume \in BOOLEAN, NEW observed, NEW pc,
           ValidateExecutionAuthority(e, replied, consume, observed, pc),
           <<exec[e].pc, consume, pc>> \in
                {<<"validate", ~Merges(e), "read">>, <<"reinspect", FALSE, "reread">>,
                 <<"final", TRUE, "send">>},
           puts' = puts
    PROVE  StepOK(e)
<1> DEFINE consumed == exec[e].consumed \/ (consume /\ exec[e].version # 0 /\ Merges(e))
           next == [exec[e] EXCEPT !.pc = pc, !.consumed = consumed]
           phase == IF exec[e].version = 0 \/ ~consume THEN "inspect" ELSE "consume"
           verdict == Verdict(exec[e].request, phase, exec[e].version, observed)
           code == IF verdict \in BlockReasons THEN PlanDenial(verdict) ELSE "approval_mismatch"
<1>1. exec[e] \in ExecRows
  BY DEF BrokerTypeOK
<1>2. exec[e].pc \in {"validate", "reinspect", "final"} /\ pc \in {"read", "reread", "send"}
  OBVIOUS
<1>3. consumed \in BOOLEAN /\ (exec[e].pc = "final" => consumed) /\ (consumed => Merges(e))
  BY <1>1, <1>2 DEF ExecRows, RowOK, Merges, RequestOf, Merging
<1>4. next \in ExecRows /\ RowOK(next, puts[e])
  <2> HIDE DEF consumed
  <2>1. next \in ExecRows
    BY <1>1, <1>2, <1>3 DEF ExecRows, Assented, Paid
  <2>2. /\ next.pc = pc /\ next.consumed = consumed /\ next.request = exec[e].request
        /\ next.version = exec[e].version /\ next.approval = exec[e].approval
        /\ next.guardian = exec[e].guardian /\ next.tool = exec[e].tool
    BY <1>1 DEF ExecRows
  <2>3. exec[e].pc = "reinspect" <=> pc = "reread"
    BY <1>2
  <2>4. exec[e].pc = "final" <=> pc = "send"
    BY <1>2
  <2>. HIDE DEF next
  <2>. QED BY <1>2, <1>3, <2>1, <2>2, <2>3, <2>4
           DEF RowOK, Merges, RequestOf, Unassessed, Assented, Paid, Merging, Ending
<1>5. code \in DenialCodes
  BY CodeTypes DEF DenialCodes
<1>6. \/ Answered(e, replied, Denied(exec[e], code)) \/ Answered(e, replied, next)
  BY DEF ValidateExecutionAuthority
<1>. HIDE DEF next, code
<1>7. exec[e].pc \in (Unassessed \cup Assented) \ {"idle", "put"}
  BY <1>2 DEF Assented, Paid
<1>. QED BY <1>4, <1>5, <1>6, <1>7, DenialOK, AnsweredOK

LEMMA ValidationsOK ==
    ASSUME BrokerTypeOK, NEW e \in Execs, RowOK(exec[e], puts[e]), NEW replied \in BOOLEAN,
           FirstValidation(e, replied) \/ Reinspect(e, replied) \/ FinalValidation(e, replied)
    PROVE  StepOK(e)
<1>1. puts' = puts
  BY DEF FirstValidation, Reinspect, FinalValidation, ValidateExecutionAuthority, githubVars
<1>2. CASE FirstValidation(e, replied)
  <2>1. exec[e].pc = "validate"
    BY <1>2 DEF FirstValidation, At
  <2>2. (~Merges(e)) \in BOOLEAN
    OBVIOUS
  <2>. QED BY <1>1, <1>2, <2>1, <2>2, ValidationOK DEF FirstValidation
<1>3. CASE Reinspect(e, replied)
  BY <1>1, <1>3, ValidationOK DEF Reinspect, At
<1>4. CASE FinalValidation(e, replied)
  BY <1>1, <1>4, ValidationOK DEF FinalValidation, At
<1>. QED BY <1>2, <1>3, <1>4

LEMMA ReadPullOK ==
    ASSUME BrokerTypeOK, NEW e \in Execs, RowOK(exec[e], puts[e]), ReadPull(e)
    PROVE  StepOK(e)
<1>1. exec[e] \in ExecRows /\ exec[e].pc = "read" /\ puts' = puts /\ pull.base \in Bases
  BY DEF BrokerTypeOK, ReadPull, At, githubVars
<1>2. CASE \E code \in {"resource_changed", "not_mergeable"} : Deny(e, code)
  <2>1. PICK code \in {"resource_changed", "not_mergeable"} : Deny(e, code)
    BY <1>2
  <2>2. code \in Codes /\ code # "ok" /\ code # None
    BY DEF Codes, DenialCodes, None
  <2>. QED BY <1>1, <2>1, <2>2, DenyStep DEF Assented, Paid, Unassessed
<1>3. CASE Deny(e, "ok") /\ ~Merges(e)
  <2>1. "ok" \in Codes /\ "ok" \notin DeferReasons
    BY DEF Codes, DeferReasons
  <2>2. /\ Denied(exec[e], "ok") \in ExecRows
        /\ Denied(exec[e], "ok").pc = "decide"
        /\ Denied(exec[e], "ok").code = "ok"
        /\ Denied(exec[e], "ok").request = exec[e].request
        /\ Denied(exec[e], "ok").guardian = exec[e].guardian
        /\ Denied(exec[e], "ok").tool = exec[e].tool
        /\ Denied(exec[e], "ok").consumed = exec[e].consumed
    BY <1>1, <2>1, DeniedRow
  <2>3. RowOK(Denied(exec[e], "ok"), puts[e])
    BY <1>1, <1>3, <2>2
       DEF RowOK, Merges, RequestOf, Unassessed, Assented, Paid, Merging, Ending, Uncertain
  <2>. QED BY <1>1, <1>3, <2>2, <2>3, MovedTo DEF Deny
<1>4. CASE /\ Merges(e)
           /\ exec' = [exec EXCEPT
                ![e] = [exec[e] EXCEPT !.pc = IF exec[e].version = 0 THEN "consume" ELSE "reinspect",
                                       !.base = pull.base]]
  <2> DEFINE pc == IF exec[e].version = 0 THEN "consume" ELSE "reinspect"
             next == [exec[e] EXCEPT !.pc = pc, !.base = pull.base]
  <2>1. next \in ExecRows
    BY <1>1 DEF ExecRows, Assented, Paid
  <2>2. RowOK(next, puts[e])
    BY <1>1, <1>4 DEF ExecRows, RowOK, Merges, RequestOf, Unassessed, Assented, Paid, Merging, Ending
  <2>. QED BY <1>1, <1>4, <2>1, <2>2, MovedTo
<1>. QED BY <1>2, <1>3, <1>4 DEF ReadPull

LEMMA ConsumeApprovalOK ==
    ASSUME BrokerTypeOK, NEW e \in Execs, RowOK(exec[e], puts[e]),
           NEW replied \in BOOLEAN, ConsumeApproval(e, replied)
    PROVE  StepOK(e)
<1> DEFINE next == [exec[e] EXCEPT !.pc = "final", !.consumed = TRUE]
           outcome == Redemption(exec[e].approval)
<1>1. exec[e] \in ExecRows /\ exec[e].pc = "consume" /\ puts' = puts
  BY DEF BrokerTypeOK, ConsumeApproval, At, githubVars
<1>2. next \in ExecRows /\ RowOK(next, puts[e])
  BY <1>1 DEF RowOK, ExecRows, Unassessed, Assented, Paid, Merging, Ending
<1>3. outcome \in DenialCodes \cup {"consumed"}
  BY DEF DenialCodes, Redemption
<1>4. Answered(e, replied, IF outcome = "consumed" THEN next ELSE Denied(exec[e], outcome))
  BY DEF ConsumeApproval
<1>. HIDE DEF next, outcome
<1>. QED BY <1>1, <1>2, <1>3, <1>4, DenialOK, AnsweredOK DEF Assented, Paid, Unassessed

LEMMA RereadPullOK ==
    ASSUME BrokerTypeOK, NEW e \in Execs, RowOK(exec[e], puts[e]), RereadPull(e)
    PROVE  StepOK(e)
<1>1. exec[e] \in ExecRows /\ exec[e].pc = "reread" /\ puts' = puts
  BY DEF BrokerTypeOK, RereadPull, At, githubVars
<1>2. CASE Goto(e, "final")
  <2>1. RowOK([exec[e] EXCEPT !.pc = "final"], puts[e])
    BY <1>1 DEF RowOK, ExecRows, Unassessed, Assented, Paid, Merging, Ending
  <2>. QED BY <1>1, <1>2, <2>1, GotoRow, MovedTo DEF Assented, Paid
<1>3. ASSUME NEW code \in {"resource_changed", "not_mergeable"}, Deny(e, code)
      PROVE  StepOK(e)
  BY <1>1, <1>3, DenyStep DEF Codes, DenialCodes, Assented, Paid, Unassessed, None
<1>. QED BY <1>2, <1>3 DEF RereadPull

LEMMA SendPutOK ==
    ASSUME BrokerTypeOK, NEW e \in Execs, RowOK(exec[e], puts[e]), SendPut(e)
    PROVE  StepOK(e)
<1>1. exec[e] \in ExecRows /\ exec[e].pc = "send" /\ puts' = [puts EXCEPT ![e] = "sent"]
  BY DEF BrokerTypeOK, SendPut, At
<1>2. puts'[e] = "sent"
  BY <1>1 DEF BrokerTypeOK
<1>3. [exec[e] EXCEPT !.pc = "put"] \in ExecRows /\ RowOK([exec[e] EXCEPT !.pc = "put"], "sent")
  BY <1>1 DEF RowOK, ExecRows, Unassessed, Assented, Paid, Merging, Ending
<1>4. exec' = [exec EXCEPT ![e] = [exec[e] EXCEPT !.pc = "put"]]
  BY DEF SendPut, Goto
<1>5. exec'[e] = [exec[e] EXCEPT !.pc = "put"]
  BY <1>4 DEF BrokerTypeOK
<1>. QED BY <1>1, <1>2, <1>3, <1>4, <1>5 DEF StepOK

LEMMA PutEndsOK ==
    ASSUME BrokerTypeOK, NEW e \in Execs, RowOK(exec[e], puts[e]),
           PutAnswered(e) \/ PutUncertain(e)
    PROVE  StepOK(e)
<1>1. exec[e] \in ExecRows /\ exec[e].pc = "put" /\ puts' = puts
  BY DEF BrokerTypeOK, PutAnswered, PutUncertain, At, githubVars
<1>2. CASE puts[e] = "merged" /\ Deny(e, "ok")
  <2>1. "ok" \in Codes /\ "ok" \notin DeferReasons
    BY DEF Codes, DeferReasons
  <2>2. /\ Denied(exec[e], "ok") \in ExecRows
        /\ Denied(exec[e], "ok").pc = "decide"
        /\ Denied(exec[e], "ok").code = "ok"
        /\ Denied(exec[e], "ok").request = exec[e].request
        /\ Denied(exec[e], "ok").guardian = exec[e].guardian
        /\ Denied(exec[e], "ok").tool = exec[e].tool
        /\ Denied(exec[e], "ok").consumed = exec[e].consumed
    BY <1>1, <2>1, DeniedRow
  <2>3. RowOK(Denied(exec[e], "ok"), puts[e])
    BY <1>1, <1>2, <2>2 DEF RowOK, Unassessed, Assented, Paid, Merging, Ending, Uncertain
  <2>. QED BY <1>1, <1>2, <2>2, <2>3, MovedTo DEF Deny
<1>3. ASSUME NEW code \in {"resource_changed", "not_mergeable", "connection_unavailable",
                           "provider_failed"},
             Deny(e, code), puts[e] = "refused" \/ code = "provider_failed"
      PROVE  StepOK(e)
  BY <1>1, <1>3, DenyStep DEF Codes, DenialCodes, Assented, Paid, Unassessed, None
<1>. QED BY <1>2, <1>3 DEF PutAnswered, PutUncertain

LEMMA DeferBlockedOK ==
    ASSUME BrokerTypeOK, NEW e \in Execs, RowOK(exec[e], puts[e]),
           NEW replied \in BOOLEAN, DeferBlocked(e, replied)
    PROVE  StepOK(e)
<1>1. exec[e] \in ExecRows /\ exec[e].pc = "defer" /\ puts' = puts
  BY DEF BrokerTypeOK, DeferBlocked, At, githubVars
<1>2. CASE Goto(e, "decide")
  <2>1. RowOK([exec[e] EXCEPT !.pc = "decide"], puts[e])
    BY <1>1 DEF RowOK, ExecRows, Unassessed, Assented, Paid, Merging, Ending
  <2>. QED BY <1>1, <1>2, <2>1, GotoRow, MovedTo DEF Ending
<1>3. CASE Return(e, "audit_unavailable")
  BY <1>1, <1>3, ReturnStep DEF Codes, DenialCodes, Uncertain
<1>. QED BY <1>2, <1>3 DEF DeferBlocked

LEMMA AppendDecisionOK ==
    ASSUME BrokerTypeOK, NEW e \in Execs, RowOK(exec[e], puts[e]),
           NEW replied \in BOOLEAN, AppendDecision(e, replied)
    PROVE  StepOK(e)
<1> DEFINE code == IF replied THEN exec[e].code ELSE "audit_unavailable"
<1>1. exec[e] \in ExecRows /\ exec[e].pc = "decide" /\ puts' = puts /\ Return(e, code)
  BY DEF BrokerTypeOK, AppendDecision, At, githubVars
<1>2. code \in Codes
  BY <1>1 DEF ExecRows, Codes, DenialCodes
<1>3. code \in Uncertain \/ puts[e] \in {"unsent", "refused"}
  BY <1>1 DEF RowOK, Ending, Uncertain
<1>. HIDE DEF code
<1>. QED BY <1>1, <1>2, <1>3, ReturnStep

LEMMA CallLostOK ==
    ASSUME BrokerTypeOK, NEW e \in Execs, RowOK(exec[e], puts[e]), CallLost(e)
    PROVE  StepOK(e)
<1>1. puts' = puts
  BY DEF CallLost, githubVars
<1>2. "audit_unavailable" \in Codes \cap Uncertain /\ "audit_unavailable" # None
  BY DEF Codes, DenialCodes, Uncertain, None
<1>3. CASE /\ exec[e].pc \in {"connections", "inspect", "approval", "charge", "validate",
                               "consume", "reinspect", "final"}
           /\ Deny(e, "audit_unavailable")
  BY <1>1, <1>2, <1>3, DenyStep DEF Assented, Paid, Unassessed
<1>4. CASE exec[e].pc \in {"attempt", "defer", "decide"} /\ Return(e, "audit_unavailable")
  BY <1>1, <1>2, <1>4, ReturnStep
<1>. QED BY <1>3, <1>4 DEF CallLost

LEMMA FailuresOK ==
    ASSUME BrokerTypeOK, NEW e \in Execs, RowOK(exec[e], puts[e]),
           CredentialFails(e) \/ ReadFails(e)
    PROVE  StepOK(e)
<1>1. puts' = puts
  BY DEF CredentialFails, ReadFails, githubVars
<1>2. exec[e].pc \in {"validate", "reinspect", "final", "read", "reread"}
  BY DEF CredentialFails, ReadFails, At
<1>3. \E code \in {"provider_failed", "connection_unavailable", "resource_changed"} : Deny(e, code)
  BY DEF CredentialFails, ReadFails
<1>. QED
  BY <1>1, <1>2, <1>3, DenyStep DEF Codes, DenialCodes, Assented, Paid, Unassessed, None

\* Every step of an execution moves it alone, to a consistent row.
LEMMA ExecStepOK ==
    ASSUME BrokerTypeOK, NEW e \in Execs, RowOK(exec[e], puts[e]), ExecStep(e)
    PROVE  StepOK(e)
<1>1. ASSUME NEW r \in Requests, NEW a \in Approvals \cup {None}, Begin(e, r, a)
      PROVE  StepOK(e)
  BY <1>1, BeginOK
<1>2. ASSUME NEW replied \in BOOLEAN,
             \/ AppendAttempt(e, replied) \/ InspectPlan(e, replied)
             \/ ConsumeToolCall(e, replied) \/ FirstValidation(e, replied)
             \/ ConsumeApproval(e, replied) \/ Reinspect(e, replied)
             \/ FinalValidation(e, replied) \/ DeferBlocked(e, replied)
             \/ AppendDecision(e, replied)
      PROVE  StepOK(e)
  BY <1>2, AppendAttemptOK, InspectPlanOK, ConsumeToolCallOK, ValidationsOK,
     ConsumeApprovalOK, DeferBlockedOK, AppendDecisionOK
<1>3. CASE \/ GetConnections(e) \/ EvaluateGuardian(e) \/ ValidateApproval(e)
           \/ ReadPull(e) \/ RereadPull(e) \/ SendPut(e) \/ PutAnswered(e) \/ PutUncertain(e)
           \/ CallLost(e) \/ CredentialFails(e) \/ ReadFails(e)
  BY <1>3, GetConnectionsOK, EvaluateGuardianOK, ValidateApprovalOK, ReadPullOK,
     RereadPullOK, SendPutOK, PutEndsOK, CallLostOK, FailuresOK
<1>. QED BY <1>1, <1>2, <1>3 DEF ExecStep

-----------------------------------------------------------------------------
(* What the steps do to the tables and to GitHub.                           *)

\* Which operations of an execution write which variable.
LEMMA ExecStepCases ==
    ASSUME NEW e \in Execs, ExecStep(e)
    PROVE  /\ pull' = pull
           /\ attempts' = attempts \/ \E replied \in BOOLEAN : AppendAttempt(e, replied)
           /\ decisions' = decisions \/ \E replied \in BOOLEAN : AppendDecision(e, replied)
           /\ toolCalls' = toolCalls \/ \E replied \in BOOLEAN : ConsumeToolCall(e, replied)
           /\ approvals' = approvals \/ \E replied \in BOOLEAN : ConsumeApproval(e, replied)
           /\ puts' = puts \/ SendPut(e)
           /\ \/ UNCHANGED planVars
              \/ \E replied \in BOOLEAN :
                    \/ InspectPlan(e, replied) \/ FirstValidation(e, replied)
                    \/ Reinspect(e, replied) \/ FinalValidation(e, replied)
                    \/ DeferBlocked(e, replied)
<1> USE DEF storeVars, planVars, planTables, approvalVars, recordVars, githubVars
<1>1. ASSUME NEW r \in Requests, NEW a \in Approvals \cup {None}, Begin(e, r, a)
      PROVE  UNCHANGED <<storeVars, githubVars>>
  BY <1>1 DEF Begin
<1>2. CASE \/ GetConnections(e) \/ EvaluateGuardian(e) \/ ValidateApproval(e)
           \/ ReadPull(e) \/ RereadPull(e) \/ PutAnswered(e) \/ PutUncertain(e)
           \/ CallLost(e) \/ CredentialFails(e) \/ ReadFails(e)
  BY <1>2 DEF GetConnections, EvaluateGuardian, ValidateApproval, ReadPull, RereadPull,
              PutAnswered, PutUncertain, CallLost, CredentialFails, ReadFails
<1>3. CASE SendPut(e)
  BY <1>3 DEF SendPut
<1>4. ASSUME NEW replied \in BOOLEAN,
             \/ InspectPlan(e, replied) \/ FirstValidation(e, replied)
             \/ Reinspect(e, replied) \/ FinalValidation(e, replied)
             \/ DeferBlocked(e, replied)
      PROVE  UNCHANGED <<approvalVars, recordVars, githubVars>>
  BY <1>4 DEF InspectPlan, FirstValidation, Reinspect, FinalValidation,
              ValidateExecutionAuthority, DeferBlocked
<1>5. ASSUME NEW replied \in BOOLEAN, AppendAttempt(e, replied)
      PROVE  UNCHANGED <<planVars, approvalVars, decisions, githubVars>>
  BY <1>5 DEF AppendAttempt
<1>6. ASSUME NEW replied \in BOOLEAN, AppendDecision(e, replied)
      PROVE  UNCHANGED <<planVars, approvalVars, attempts, githubVars>>
  BY <1>6 DEF AppendDecision
<1>7. ASSUME NEW replied \in BOOLEAN, ConsumeToolCall(e, replied)
      PROVE  UNCHANGED <<planVars, approvals, recordVars, githubVars>>
  BY <1>7 DEF ConsumeToolCall
<1>8. ASSUME NEW replied \in BOOLEAN, ConsumeApproval(e, replied)
      PROVE  UNCHANGED <<planVars, toolCalls, recordVars, githubVars>>
  BY <1>8 DEF ConsumeApproval
<1>. QED BY <1>1, <1>2, <1>3, <1>4, <1>5, <1>6, <1>7, <1>8 DEF ExecStep

\* The other steps move no execution, and only GitHub answers a PUT.
LEMMA OtherStepCases ==
    ASSUME BrokerTypeOK,
           \/ \E e \in Execs : ProviderAnswers(e)
           \/ ChangePull \/ (\E a \in Approvals : IssueApproval(a)) \/ StoreSteps
           \/ UNCHANGED brokerVars
    PROVE  /\ UNCHANGED <<exec, toolCalls, attempts, decisions>>
           /\ approvals' = approvals \/ \E a \in Approvals : IssueApproval(a)
           /\ puts' = puts \/ \E e \in Execs : ProviderAnswers(e)
           /\ UNCHANGED planVars \/ StoreSteps
           /\ pull' \in [head: Resources, base: Bases, state: {"open", "closed", "merged"}]
<1> USE DEF storeVars, planVars, planTables, approvalVars, recordVars, githubVars
<1>1. ASSUME NEW e \in Execs, ProviderAnswers(e)
      PROVE  /\ UNCHANGED <<storeVars, exec>>
             /\ pull' \in [head: Resources, base: Bases, state: {"open", "closed", "merged"}]
  BY <1>1 DEF ProviderAnswers, BrokerTypeOK
<1>2. CASE ChangePull
  BY <1>2 DEF ChangePull
<1>3. ASSUME NEW a \in Approvals, IssueApproval(a)
      PROVE  UNCHANGED <<planVars, toolCalls, recordVars, exec, githubVars>>
  BY <1>3 DEF IssueApproval
<1>4. CASE StoreSteps
  BY <1>4 DEF StoreSteps, BrokerTypeOK
<1>5. CASE UNCHANGED brokerVars
  BY <1>5 DEF brokerVars, BrokerTypeOK
<1>6. pull \in [head: Resources, base: Bases, state: {"open", "closed", "merged"}]
  BY DEF BrokerTypeOK
<1>. QED BY <1>1, <1>2, <1>3, <1>4, <1>5, <1>6

RowsOK == \A e \in Execs : RowOK(exec[e], puts[e])

\* To the plans' tables every step of the broker is one of SessionPlans.
LEMMA BrokerPlansStep ==
    ASSUME BrokerTypeOK, RowsOK, [BrokerNext]_brokerVars
    PROVE  [PlansNext]_planVars
<1>1. ASSUME NEW e \in Execs, ExecStep(e) PROVE [PlansNext]_planVars
  <2>1. exec[e] \in ExecRows
    BY DEF BrokerTypeOK
  <2>2. ASSUME NEW r \in Requests, NEW phase \in {"inspect", "consume"},
               NEW expected \in 0..MaxGrants, NEW observed \in Bases \cup {None},
               Check(r, phase, expected, observed),
               UNCHANGED <<clock, sessionActive, connected>>
        PROVE  PlansNext
    BY <2>2 DEF PlansNext, CheckStep
  <2>3. 0 \in 0..MaxGrants
    BY SessionPlansBounds
  <2>4. ASSUME NEW replied \in BOOLEAN, InspectPlan(e, replied) PROVE PlansNext
    <3>1. RequestOf(e) \in Requests
      BY <2>4 DEF RowsOK, RowOK, RequestOf, InspectPlan, At
    <3>. QED BY <2>2, <2>3, <2>4, <3>1 DEF InspectPlan
  <2>5. ASSUME NEW replied \in BOOLEAN, NEW consume, NEW observed \in Bases \cup {None},
               NEW pc, ValidateExecutionAuthority(e, replied, consume, observed, pc),
               exec[e].pc # "idle"
        PROVE  PlansNext
    <3>1. exec[e].request \in Requests /\ exec[e].version \in 0..MaxGrants
      BY <2>1, <2>5 DEF RowsOK, RowOK, ExecRows
    <3>2. \E phase \in {"inspect", "consume"} :
            Check(exec[e].request, phase, exec[e].version, observed)
      BY <2>5 DEF ValidateExecutionAuthority
    <3>3. UNCHANGED <<clock, sessionActive, connected>>
      BY <2>5 DEF ValidateExecutionAuthority
    <3>. QED BY <2>2, <3>1, <3>2, <3>3
  <2>6. ASSUME NEW replied \in BOOLEAN,
               FirstValidation(e, replied) \/ Reinspect(e, replied) \/ FinalValidation(e, replied)
        PROVE  PlansNext
    BY <2>1, <2>5, <2>6 DEF FirstValidation, Reinspect, FinalValidation, At, ExecRows
  <2>7. ASSUME NEW replied \in BOOLEAN, DeferBlocked(e, replied) PROVE PlansNext
    <3>1. RequestOf(e) \in Requests /\ exec[e].code \in DeferReasons
      BY <2>7 DEF RowsOK, RowOK, RequestOf, DeferBlocked, At
    <3>. QED BY <2>7, <3>1 DEF DeferBlocked, PlansNext, DeferStep
  <2>. QED BY <1>1, <2>4, <2>6, <2>7, ExecStepCases
<1>2. CASE StoreSteps
  BY <1>2 DEF StoreSteps, PlansNext
<1>3. CASE ~(\E e \in Execs : ExecStep(e)) /\ ~StoreSteps
  BY <1>3, OtherStepCases DEF BrokerNext
<1>. QED BY <1>1, <1>2, <1>3

-----------------------------------------------------------------------------
(* Types and rows.                                                          *)

LEMMA VersionsBounded ==
    ASSUME PlansTypeOK, Version <= MaxGrants, [PlansNext]_planVars
    PROVE  (Version <= MaxGrants)'
<1>1. ASSUME NEW r \in Requests, Consumption(r) PROVE Len(grants') = Len(grants)
  BY <1>1 DEF Consumption, PlansTypeOK
<1>2. ASSUME NEW plan \in PlanContents, Store(plan) PROVE Len(grants') <= MaxGrants
  <2>1. Len(grants) < MaxGrants /\ Len(grants) \in Nat
    BY <1>2 DEF Store, Version, PlansTypeOK
  <2>2. Len(grants') = Len(grants) + 1
    BY <1>2 DEF Store, PlansTypeOK
  <2>. QED BY <2>1, <2>2, SessionPlansBounds
<1>3. ASSUME NEW v \in DOMAIN grants, Revoke(v) PROVE Len(grants') = Len(grants)
  BY <1>3 DEF Revoke, PlansTypeOK
<1>4. ASSUME NEW r \in Requests, NEW reason \in PendingReasons, Block(r, reason)
      PROVE  grants' = grants
  BY <1>4 DEF Block
<1>. QED BY <1>1, <1>2, <1>3, <1>4, StepCases DEF Version, planTables

\* The broker's own variables keep their types, and its rows stay consistent.
LEMMA NextRowsOK ==
    ASSUME BrokerTypeOK, RowsOK, [BrokerNext]_brokerVars
    PROVE  BrokerTypeOK' /\ RowsOK'
<1>1. PlansTypeOK' /\ (Version <= MaxGrants)'
  BY BrokerPlansStep, NextPlansTypeOK, VersionsBounded DEF BrokerTypeOK
<1>2. ASSUME NEW e \in Execs, ExecStep(e) PROVE BrokerTypeOK' /\ RowsOK'
  <2>1. StepOK(e)
    BY <1>2, ExecStepOK DEF RowsOK
  <2>2. exec' \in [Execs -> ExecRows]
    BY <2>1 DEF StepOK, BrokerTypeOK
  <2>3. puts' \in [Execs -> {"unsent", "sent", "merged", "refused"}]
    BY <1>2, ExecStepCases DEF SendPut, BrokerTypeOK
  <2>4. RowsOK'
    BY <2>1 DEF StepOK, RowsOK, BrokerTypeOK
  <2>5. attempts' \subseteq Execs
    BY <1>2, ExecStepCases DEF AppendAttempt, BrokerTypeOK
  <2>6. toolCalls' \in 0..ToolCalls
    <3>1. ASSUME NEW replied, ConsumeToolCall(e, replied) PROVE toolCalls' \in 0..ToolCalls
      BY <3>1, BrokerAssumption DEF ConsumeToolCall, Chargeable, BrokerTypeOK
    <3>. QED BY <1>2, <3>1, ExecStepCases DEF BrokerTypeOK
  <2>7. approvals' \in [Approvals -> [state: {"unissued", "available", "consumed"},
                                      approvedAt: Nat]]
    <3>1. ASSUME NEW replied, ConsumeApproval(e, replied), approvals' # approvals
          PROVE  approvals' = [approvals EXCEPT ![exec[e].approval].state = "consumed"]
      BY <3>1 DEF ConsumeApproval
    <3>. QED BY <1>2, <3>1, ExecStepCases DEF BrokerTypeOK
  <2>8. decisions' \subseteq DecisionRows
    <3>1. ASSUME NEW replied, AppendDecision(e, replied) PROVE decisions' \subseteq DecisionRows
      <4> DEFINE allowed == exec[e].code = "ok"
                 tool == allowed \/ exec[e].tool
                 approval == Merges(e) /\ (allowed \/ exec[e].consumed)
                 d == [attempt |-> e, allowed |-> allowed, tool |-> tool,
                       approval |-> approval, guardian |-> exec[e].guardian]
      <4>1. exec[e].guardian \in Outcomes
        BY DEF BrokerTypeOK, ExecRows
      <4>2. allowed \in BOOLEAN /\ tool \in BOOLEAN /\ approval \in BOOLEAN
        OBVIOUS
      <4>3. decisions' = decisions \cup {d}
        BY <3>1 DEF AppendDecision
      <4>. HIDE DEF allowed, tool, approval
      <4>4. d \in DecisionRows
        BY <4>1, <4>2 DEF DecisionRows
      <4>. QED BY <4>3, <4>4 DEF BrokerTypeOK
    <3>. QED BY <1>2, <3>1, ExecStepCases DEF BrokerTypeOK
  <2>9. pull' = pull
    BY <1>2, ExecStepCases
  <2>. QED BY <1>1, <2>2, <2>3, <2>4, <2>5, <2>6, <2>7, <2>8, <2>9 DEF BrokerTypeOK
<1>3. CASE \/ \E e \in Execs : ProviderAnswers(e)
           \/ ChangePull \/ (\E a \in Approvals : IssueApproval(a)) \/ StoreSteps
           \/ UNCHANGED brokerVars
  <2>1. UNCHANGED <<exec, toolCalls, attempts, decisions>>
    BY <1>3, OtherStepCases
  <2>2. /\ puts' \in [Execs -> {"unsent", "sent", "merged", "refused"}]
        /\ \A e \in Execs : puts'[e] # puts[e] => puts[e] = "sent" /\ puts'[e] \in {"merged", "refused"}
    <3>1. ASSUME NEW e \in Execs, ProviderAnswers(e)
          PROVE  /\ puts[e] = "sent"
                 /\ puts' = [puts EXCEPT ![e] = "merged"] \/ puts' = [puts EXCEPT ![e] = "refused"]
      BY <3>1 DEF ProviderAnswers
    <3>. QED BY <1>3, <3>1, OtherStepCases DEF BrokerTypeOK
  <2>3. ASSUME NEW e \in Execs, puts[e] = "sent", RowOK(exec[e], "sent"),
               NEW put \in {"merged", "refused"}
        PROVE  RowOK(exec[e], put)
    BY <2>3 DEF RowOK
  <2>4. RowsOK'
    BY <2>1, <2>2, <2>3 DEF RowsOK
  <2>5. approvals' \in [Approvals -> [state: {"unissued", "available", "consumed"},
                                      approvedAt: Nat]]
    <3>1. ASSUME NEW a \in Approvals, IssueApproval(a)
          PROVE  approvals' = [approvals EXCEPT ![a] = [state |-> "available", approvedAt |-> clock]]
      BY <3>1 DEF IssueApproval
    <3>. QED BY <1>3, <3>1, OtherStepCases DEF BrokerTypeOK, PlansTypeOK
  <2>. QED BY <1>1, <1>3, <2>1, <2>2, <2>4, <2>5, OtherStepCases DEF BrokerTypeOK
<1>. QED BY <1>2, <1>3 DEF BrokerNext

-----------------------------------------------------------------------------
(* What an execution may send is its own and paid for.                      *)

SameRequest(e) ==
    /\ exec'[e].request = exec[e].request
    /\ exec'[e].approval = exec[e].approval
    /\ exec'[e].version = exec[e].version

\* The row a step leads to, by what it does to the locals that count.
LEMMA ExecStepRow ==
    ASSUME BrokerTypeOK, NEW e \in Execs, ExecStep(e)
    PROVE  /\ exec[e].pc \notin {"idle", "inspect"} => SameRequest(e)
           /\ exec'[e].consumed /\ ~exec[e].consumed =>
                \E replied \in BOOLEAN :
                    \/ ConsumeApproval(e, replied)
                    \/ FirstValidation(e, replied) \/ Reinspect(e, replied) \/ FinalValidation(e, replied)
           /\ exec'[e].tool /\ ~exec[e].tool =>
                \E replied \in BOOLEAN : ConsumeToolCall(e, replied)
<1> DEFINE Keeps ==
        /\ exec[e].pc \notin {"idle", "inspect"} => SameRequest(e)
        /\ exec'[e].tool => exec[e].tool
        /\ exec'[e].consumed => exec[e].consumed
<1>1. exec[e] \in ExecRows /\ e \in DOMAIN exec
  BY DEF BrokerTypeOK
<1>2. ASSUME NEW code, Deny(e, code) \/ Return(e, code) PROVE Keeps
  <2>1. CASE Deny(e, code)
    BY <1>1, <2>1 DEF Deny, Denied, SameRequest, ExecRows
  <2>2. CASE Return(e, code)
    BY <1>1, <2>2 DEF Return, Returned, SameRequest, ExecRows
  <2>. QED BY <1>2, <2>1, <2>2
<1>3. ASSUME NEW pc, Goto(e, pc) PROVE Keeps
  BY <1>1, <1>3 DEF Goto, SameRequest, ExecRows
<1>4. ASSUME NEW r \in Requests, NEW a \in Approvals \cup {None}, Begin(e, r, a) PROVE Keeps
  <2> DEFINE row == [exec[e] EXCEPT !.request = r, !.approval = a, !.startedAt = clock]
             entered == [row EXCEPT !.pc = "attempt"]
  <2>1. exec[e].pc = "idle"
    BY <1>4 DEF Begin, At
  <2>2. \/ exec' = [exec EXCEPT ![e] = Returned(row, "audit_unavailable")]
        \/ exec' = [exec EXCEPT ![e] = entered]
        \/ exec' = [exec EXCEPT ![e] = Returned(row, "not_active")]
    BY <1>4 DEF Begin
  <2>3. entered.tool = exec[e].tool /\ entered.consumed = exec[e].consumed
    BY <1>1 DEF ExecRows
  <2>4. \A code : ~Returned(row, code).tool /\ ~Returned(row, code).consumed
    BY <1>1 DEF Returned, ExecRows
  <2> HIDE DEF row, entered
  <2>5. exec'[e].tool => exec[e].tool
    BY <1>1, <2>2, <2>3, <2>4
  <2>6. exec'[e].consumed => exec[e].consumed
    BY <1>1, <2>2, <2>3, <2>4
  <2>. QED BY <2>1, <2>5, <2>6
<1>5. ASSUME NEW replied \in BOOLEAN, InspectPlan(e, replied) PROVE Keeps
  BY <1>1, <1>5 DEF InspectPlan, At, Answered, Denied, SameRequest, ExecRows
<1>6. CASE EvaluateGuardian(e)
  <2>1. PICK outcome, code, pc :
            exec' = [exec EXCEPT ![e] =
                IF code # "ok" THEN Denied([exec[e] EXCEPT !.guardian = outcome], code)
                ELSE [[exec[e] EXCEPT !.guardian = outcome] EXCEPT !.pc = pc]]
    <3>1. PICK opinion \in Opinions[Floor(RequestOf(e))] :
        LET row == [exec[e] EXCEPT !.guardian = OutcomeOf(Floor(RequestOf(e)), opinion)]
            code == Objection(RequestOf(e), opinion)
        IN exec' = [exec EXCEPT ![e] =
            IF code # "ok" THEN Denied(row, code)
            ELSE [row EXCEPT !.pc = IF Merges(e) /\ exec[e].version = 0
                                    THEN "approval" ELSE "charge"]]
      BY <1>6 DEF EvaluateGuardian
    <3> DEFINE outcome == OutcomeOf(Floor(RequestOf(e)), opinion)
               code == Objection(RequestOf(e), opinion)
               pc == IF Merges(e) /\ exec[e].version = 0 THEN "approval" ELSE "charge"
    <3>2. exec' = [exec EXCEPT ![e] =
                IF code # "ok" THEN Denied([exec[e] EXCEPT !.guardian = outcome], code)
                ELSE [[exec[e] EXCEPT !.guardian = outcome] EXCEPT !.pc = pc]]
      BY <3>1
    <3>. HIDE DEF outcome, code, pc
    <3>. QED BY <3>2
  <2>. QED BY <1>1, <2>1 DEF Denied, SameRequest, ExecRows
<1>7. ASSUME NEW replied \in BOOLEAN, ConsumeToolCall(e, replied)
      PROVE  /\ exec[e].pc \notin {"idle", "inspect"} => SameRequest(e)
             /\ exec'[e].consumed => exec[e].consumed
  BY <1>1, <1>7 DEF ConsumeToolCall, Answered, Denied, SameRequest, ExecRows
<1>8. ASSUME NEW replied \in BOOLEAN, ConsumeApproval(e, replied)
      PROVE  /\ exec[e].pc \notin {"idle", "inspect"} => SameRequest(e)
             /\ exec'[e].tool => exec[e].tool
  BY <1>1, <1>8 DEF ConsumeApproval, Answered, Denied, SameRequest, ExecRows
<1>9. ASSUME NEW replied \in BOOLEAN, NEW consume, NEW observed, NEW pc,
             ValidateExecutionAuthority(e, replied, consume, observed, pc)
      PROVE  /\ exec[e].pc \notin {"idle", "inspect"} => SameRequest(e)
             /\ exec'[e].tool => exec[e].tool
  <2>1. PICK code, consumed :
            exec' = [exec EXCEPT ![e] =
                IF replied /\ code = None THEN [exec[e] EXCEPT !.pc = pc, !.consumed = consumed]
                ELSE Denied(exec[e], IF replied THEN code ELSE "audit_unavailable")]
    <3> DEFINE verdict == Verdict(exec[e].request,
                            IF exec[e].version = 0 \/ ~consume THEN "inspect" ELSE "consume",
                            exec[e].version, observed)
               code == IF verdict \in BlockReasons THEN PlanDenial(verdict)
                       ELSE IF ~SameAuthority(e, verdict) THEN "approval_mismatch" ELSE None
    <3>1. verdict \in BlockReasons => PlanDenial(verdict) # None
      BY CodeTypes DEF DenialCodes, None
    <3>2. "approval_mismatch" # None
      BY DEF None
    <3>3. Answered(e, replied,
            IF verdict \in BlockReasons THEN Denied(exec[e], PlanDenial(verdict))
            ELSE IF ~SameAuthority(e, verdict) THEN Denied(exec[e], "approval_mismatch")
            ELSE [exec[e] EXCEPT !.pc = pc,
                             !.consumed = exec[e].consumed \/ (consume /\ exec[e].version # 0 /\ Merges(e))])
      BY <1>9 DEF ValidateExecutionAuthority
    <3>. HIDE DEF verdict
    <3>. QED BY <3>1, <3>2, <3>3 DEF Answered
  <2>. QED BY <1>1, <2>1 DEF Denied, SameRequest, ExecRows
<1>10. CASE ReadPull(e)
  <2>1. CASE \E code : Deny(e, code)
    BY <1>2, <2>1
  <2>2. CASE \A code : ~Deny(e, code)
    <3>1. PICK pc, base : exec' = [exec EXCEPT ![e] = [exec[e] EXCEPT !.pc = pc, !.base = base]]
      BY <1>10, <2>2 DEF ReadPull
    <3>. QED BY <1>1, <3>1 DEF SameRequest, ExecRows
  <2>. QED BY <2>1, <2>2
<1>11. CASE \/ GetConnections(e) \/ ValidateApproval(e) \/ RereadPull(e) \/ SendPut(e)
            \/ PutAnswered(e) \/ PutUncertain(e) \/ CallLost(e) \/ CredentialFails(e)
            \/ ReadFails(e)
  BY <1>2, <1>3, <1>11 DEF GetConnections, ValidateApproval, RereadPull, SendPut,
     PutAnswered, PutUncertain, CallLost, CredentialFails, ReadFails
<1>12. ASSUME NEW replied \in BOOLEAN,
              AppendAttempt(e, replied) \/ DeferBlocked(e, replied) \/ AppendDecision(e, replied)
       PROVE  Keeps
  BY <1>2, <1>3, <1>12 DEF AppendAttempt, DeferBlocked, AppendDecision
<1>13. ASSUME NEW replied \in BOOLEAN,
              FirstValidation(e, replied) \/ Reinspect(e, replied) \/ FinalValidation(e, replied)
       PROVE  /\ exec[e].pc \notin {"idle", "inspect"} => SameRequest(e)
              /\ exec'[e].tool => exec[e].tool
  BY <1>9, <1>13 DEF FirstValidation, Reinspect, FinalValidation
<1>. HIDE DEF Keeps
<1>14. CASE Keeps
  BY <1>14 DEF Keeps
<1>. QED
  BY <1>4, <1>5, <1>6, <1>7, <1>8, <1>10, <1>11, <1>12, <1>13, <1>14 DEF ExecStep

-----------------------------------------------------------------------------
(* Units of authority.                                                      *)

\* One unit more is spent, in force.
Spending(u) ==
    /\ InWindow /\ connected
    /\ UNCHANGED <<clock, sessionActive, connected>>
    /\ u \in Approvals \cup Resources
    /\ u \notin SpentUnits
    /\ SpentUnits' = SpentUnits \cup {u}

LEMMA SpentIs ==
    ASSUME NEW u
    PROVE  u \in SpentUnits <=>
                \/ u \in Approvals /\ approvals[u].state = "consumed"
                \/ u # None /\ \E x \in planExecutions : x.key = u
BY DEF SpentUnits

\* A consumed approval was not spent before.
LEMMA ApprovalSpent ==
    ASSUME BrokerTypeOK, RowsOK, NEW e \in Execs, NEW replied, ConsumeApproval(e, replied),
           approvals' # approvals
    PROVE  Spending(exec[e].approval) /\ UnitOf(e) = exec[e].approval
<1> DEFINE a == exec[e].approval
<1>1. /\ exec[e].pc = "consume" /\ Redemption(a) = "consumed"
      /\ approvals' = [approvals EXCEPT ![a].state = "consumed"]
      /\ UNCHANGED planVars
  BY DEF ConsumeApproval, At
<1>2. exec[e] \in ExecRows /\ RowOK(exec[e], puts[e])
  BY DEF BrokerTypeOK, RowsOK
<1>3. exec[e].version = 0 /\ exec[e].request \in Mutations /\ a \in Approvals
  BY <1>1, <1>2 DEF RowOK, ExecRows, Assented, Merging, Paid
<1>4. InWindow /\ connected /\ approvals[a].state # "consumed"
  BY <1>1, SessionPlansBounds DEF Redemption, InWindow, BrokerTypeOK, PlansTypeOK
<1>5. UNCHANGED <<clock, sessionActive, connected, planExecutions>>
  BY <1>1 DEF planVars, planTables
<1>6. a \notin SpentUnits
  <2>1. ~\E x \in planExecutions : x.key = a
    BY <1>3, BrokerAssumption DEF BrokerTypeOK, PlansTypeOK, ExecutionRows
  <2>. QED BY <1>4, <2>1, SpentIs
<1>7. SpentUnits' = SpentUnits \cup {a}
  <2>1. \A b \in Approvals : approvals'[b].state = "consumed" <=>
            approvals[b].state = "consumed" \/ b = a
    BY <1>1, <1>3 DEF BrokerTypeOK
  <2>2. {b \in Approvals : approvals'[b].state = "consumed"} =
            {b \in Approvals : approvals[b].state = "consumed"} \cup {a}
    BY <1>3, <2>1
  <2>. QED BY <1>5, <2>2 DEF SpentUnits
<1>. QED BY <1>3, <1>4, <1>5, <1>6, <1>7 DEF Spending, UnitOf

\* Nor was the pull request at the head whose merge a plan permits.
LEMMA PlanSpent ==
    ASSUME BrokerTypeOK, NEW r \in Requests, InForce(r), Consumption(r),
           UNCHANGED <<clock, sessionActive, connected, approvals>>
    PROVE  /\ r \in Mutations => Spending(ResourceOf[r])
           /\ r \notin Mutations => SpentUnits' = SpentUnits
<1>1. planExecutions' = planExecutions \cup {RowOf(r)} /\ RowOf(r).key = MutationKey(r)
  BY DEF Consumption, RowOf
<1>2. ResourceOf[r] \in Resources /\ ResourceOf[r] # None
  BY RequestsAssumption
<1>3. InWindow /\ connected
  BY SessionPlansBounds DEF InForce, InWindow, Expired, BrokerTypeOK, PlansTypeOK
<1>4. CASE r \in Mutations
  <2>1. MutationKey(r) = ResourceOf[r]
    BY <1>4 DEF MutationKey
  <2>2. ~\E x \in planExecutions : x.key = ResourceOf[r]
    BY <1>2, <2>1 DEF InForce, Replayed
  <2>3. ResourceOf[r] \notin Approvals
    BY <1>2, BrokerAssumption
  <2>4. ResourceOf[r] \notin SpentUnits
    BY <2>2, <2>3, SpentIs
  <2>5. SpentUnits' = SpentUnits \cup {ResourceOf[r]}
    BY <1>1, <1>2, <2>1 DEF SpentUnits
  <2>. QED BY <1>2, <1>3, <1>4, <2>4, <2>5 DEF Spending
<1>5. CASE r \notin Mutations
  <2>1. MutationKey(r) = None
    BY <1>5 DEF MutationKey
  <2>2. SpentUnits' = SpentUnits
    BY <1>1, <2>1 DEF SpentUnits
  <2>. QED BY <1>5, <2>2
<1>. QED BY <1>4, <1>5

\* Whatever the step, units stay spent, and at most one more is, in force.
LEMMA SpentStep ==
    ASSUME BrokerTypeOK, RowsOK, [BrokerNext]_brokerVars
    PROVE  SpentUnits' = SpentUnits \/ \E u : Spending(u)
<1>1. ASSUME UNCHANGED approvals PROVE SpentUnits' = SpentUnits \/ \E u : Spending(u)
  <2>1. ASSUME NEW r \in Requests, InForce(r), Consumption(r)
        PROVE  SpentUnits' = SpentUnits \/ \E u : Spending(u)
    <3>1. UNCHANGED <<clock, sessionActive, connected>>
      <4>1. planExecutions' # planExecutions
        <5>1. RowOf(r) \notin planExecutions
          BY <2>1 DEF InForce, Replayed, RowOf
        <5>. QED BY <2>1, <5>1 DEF Consumption
      <4>. HIDE DEF Consumption
      <4>2. [PlansNext]_planVars
        BY BrokerPlansStep
      <4>. QED
        BY <4>1, <4>2 DEF PlansNext, planVars, planTables, Store, Revoke, CheckStep,
           DeferStep, Defer, Block, EndSession, RevokeConnection, PlansTick
    <3>. QED BY <1>1, <2>1, <3>1, PlanSpent
  <2>2. ASSUME UNCHANGED planExecutions PROVE SpentUnits' = SpentUnits
    BY <1>1, <2>2 DEF SpentUnits
  <2>. QED
    BY <2>1, <2>2, BrokerPlansStep, StepCases DEF Block, Store, Revoke, planTables
<1>2. ASSUME NEW a \in Approvals, IssueApproval(a) PROVE SpentUnits' = SpentUnits
  <2>1. approvals[a].state = "unissued" /\ approvals'[a].state = "available"
    BY <1>2 DEF IssueApproval, BrokerTypeOK
  <2>2. \A b \in Approvals : approvals'[b].state = "consumed" <=> approvals[b].state = "consumed"
    BY <1>2, <2>1 DEF IssueApproval, BrokerTypeOK
  <2>3. planExecutions' = planExecutions
    BY <1>2 DEF IssueApproval, planVars, planTables
  <2>. QED BY <2>2, <2>3 DEF SpentUnits
<1>3. ASSUME NEW e \in Execs, NEW replied, ConsumeApproval(e, replied), approvals' # approvals
      PROVE  \E u : Spending(u)
  BY <1>3, ApprovalSpent
<1>. QED BY <1>1, <1>2, <1>3, ExecStepCases, OtherStepCases DEF BrokerNext

\* What everybody else does leaves an execution's locals, and its PUT but for
\* GitHub's answer to it.
LEMMA OthersStep ==
    ASSUME BrokerTypeOK, RowsOK, [BrokerNext]_brokerVars, NEW e \in Execs, ~ExecStep(e)
    PROVE  /\ exec'[e] = exec[e]
           /\ puts'[e] = puts[e] \/ (puts[e] = "sent" /\ puts'[e] # "unsent")
<1>1. ASSUME NEW f \in Execs, f # e, ExecStep(f) PROVE exec'[e] = exec[e] /\ puts'[e] = puts[e]
  <2>1. StepOK(f)
    BY <1>1, ExecStepOK DEF RowsOK
  <2>. QED BY <1>1, <2>1 DEF StepOK, BrokerTypeOK
<1>2. ASSUME NEW f \in Execs, ProviderAnswers(f)
      PROVE  puts'[e] = puts[e] \/ (puts[e] = "sent" /\ puts'[e] # "unsent")
  BY <1>2 DEF ProviderAnswers, BrokerTypeOK
<1>. QED BY <1>1, <1>2, OtherStepCases DEF BrokerNext

-----------------------------------------------------------------------------
(* Executions own the units their effects are paid with.                    *)

Owner(e) == exec[e].consumed \/ puts[e] # "unsent"

\* An effect, or the readiness to send one, is paid for, and no two share a
\* unit.
OwnersPay ==
    /\ \A e \in Execs : Owner(e) => UnitOf(e) \in SpentUnits
    /\ \A e, f \in Execs : Owner(e) /\ Owner(f) /\ UnitOf(e) = UnitOf(f) => e = f

\* An execution that gets hold of authority at the last check spends it there.
LEMMA ValidationSpends ==
    ASSUME BrokerTypeOK, RowsOK, NEW e \in Execs, NEW replied, NEW consume, NEW observed,
           NEW pc, ValidateExecutionAuthority(e, replied, consume, observed, pc),
           exec[e].pc # "idle", exec'[e].consumed, ~exec[e].consumed
    PROVE  Spending(UnitOf(e))
<1> DEFINE verdict == Verdict(exec[e].request, "consume", exec[e].version, observed)
           consumed == exec[e].consumed \/ (consume /\ exec[e].version # 0 /\ Merges(e))
<1>1. exec[e] \in ExecRows /\ exec[e].request \in Requests
  BY DEF BrokerTypeOK, RowsOK, RowOK
<1>2. ASSUME NEW code, exec' = [exec EXCEPT ![e] = Denied(exec[e], code)] PROVE FALSE
  BY <1>1, <1>2 DEF Denied, BrokerTypeOK, ExecRows
<1>3. exec' = [exec EXCEPT ![e] = [exec[e] EXCEPT !.pc = pc, !.consumed = consumed]]
  BY <1>2 DEF ValidateExecutionAuthority, Answered
<1>4. exec'[e].consumed = consumed
  BY <1>1, <1>3 DEF BrokerTypeOK, ExecRows
<1>5. consume /\ exec[e].version # 0 /\ exec[e].request \in Mutations
  BY <1>4 DEF Merges, RequestOf
<1>6. Check(exec[e].request, "consume", exec[e].version, observed)
  BY <1>5 DEF ValidateExecutionAuthority
<1>7. Answered(e, replied,
            IF verdict \in BlockReasons THEN Denied(exec[e], PlanDenial(verdict))
            ELSE IF ~SameAuthority(e, verdict) THEN Denied(exec[e], "approval_mismatch")
            ELSE [exec[e] EXCEPT !.pc = pc, !.consumed = consumed])
  BY <1>5 DEF ValidateExecutionAuthority
<1>. HIDE DEF verdict
<1>8. verdict \notin BlockReasons /\ SameAuthority(e, verdict)
  BY <1>2, <1>7 DEF Answered
<1>9. verdict = "allowed"
  BY <1>5, <1>8 DEF SameAuthority
<1>10. InForce(exec[e].request)
  BY <1>1, <1>9, AllowedIsInForce DEF verdict
<1>11. Consumption(exec[e].request)
  BY <1>6, <1>9 DEF Check, verdict, Consumption, RowOf, Grant, BlockReasons
<1>12. UNCHANGED <<clock, sessionActive, connected, approvals>>
  BY DEF ValidateExecutionAuthority, approvalVars
<1>. QED BY <1>1, <1>5, <1>10, <1>11, <1>12, PlanSpent DEF UnitOf, RequestOf

LEMMA OwnerStep ==
    ASSUME BrokerTypeOK, RowsOK, [BrokerNext]_brokerVars, NEW e \in Execs, Owner(e)'
    PROVE  /\ UnitOf(e)' = UnitOf(e)
           /\ \/ Owner(e)
              \/ ExecStep(e) /\ Spending(UnitOf(e))
<1>1. exec[e] \in ExecRows /\ RowOK(exec[e], puts[e])
  BY DEF BrokerTypeOK, RowsOK
<1>2. CASE ExecStep(e)
  <2>1. StepOK(e) /\ RowOK(exec'[e], puts'[e]) /\ exec'[e] \in ExecRows
    BY <1>1, <1>2, ExecStepOK DEF StepOK
  <2>2. Owner(e)' <=> exec'[e].consumed \/ puts'[e] # "unsent"
    BY DEF Owner
  <2>3. exec[e].pc \notin {"idle", "inspect"}
    <3>1. SUFFICES ASSUME exec[e].pc \in {"idle", "inspect"} PROVE FALSE
      OBVIOUS
    <3>2. ~exec[e].consumed /\ puts[e] = "unsent"
      BY <1>1, <3>1 DEF RowOK, Unassessed
    <3>3. puts' = puts
      BY <1>2, <3>1, ExecStepCases DEF SendPut, At
    <3>4. ~exec'[e].consumed
      BY <1>2, <3>1, <3>2, ExecStepRow DEF ConsumeApproval, FirstValidation, Reinspect, FinalValidation, At
    <3>. QED BY <2>2, <3>2, <3>3, <3>4
  <2>4. SameRequest(e)
    BY <1>2, <2>3, ExecStepRow
  <2>5. UnitOf(e)' = UnitOf(e)
    BY <2>4 DEF SameRequest, UnitOf, RequestOf
  <2>6. ASSUME ~Owner(e) PROVE Spending(UnitOf(e))
    <3>1. ~exec[e].consumed /\ puts[e] = "unsent"
      BY <2>6 DEF Owner
    <3>2. puts' = puts
      BY <1>1, <1>2, <3>1, ExecStepCases DEF SendPut, At, RowOK
    <3>3. exec'[e].consumed
      BY <2>2, <3>1, <3>2
    <3>4. ASSUME NEW replied \in BOOLEAN, ConsumeApproval(e, replied)
          PROVE  Spending(UnitOf(e))
      <4>1. Redemption(exec[e].approval) = "consumed"
        BY <1>1, <3>1, <3>3, <3>4 DEF ConsumeApproval, Answered, Denied, ExecRows, BrokerTypeOK
      <4>2. approvals' # approvals
        <5>1. exec[e].approval \in Approvals
          BY <1>1, <3>4 DEF RowOK, ExecRows, ConsumeApproval, At, Assented, Paid, Merging
        <5>2. approvals'[exec[e].approval].state = "consumed"
          BY <3>4, <4>1, <5>1 DEF ConsumeApproval, BrokerTypeOK
        <5>3. approvals[exec[e].approval].state # "consumed"
          BY <4>1 DEF Redemption
        <5>. QED BY <5>2, <5>3
      <4>. QED BY <3>4, <4>2, ApprovalSpent
    <3>5. ASSUME NEW replied \in BOOLEAN,
                 FirstValidation(e, replied) \/ Reinspect(e, replied) \/ FinalValidation(e, replied)
          PROVE  Spending(UnitOf(e))
      BY <2>3, <3>1, <3>3, <3>5, ValidationSpends DEF FirstValidation, Reinspect, FinalValidation
    <3>. QED BY <1>2, <3>1, <3>3, <3>4, <3>5, ExecStepRow
  <2>. QED BY <1>2, <2>5, <2>6
<1>3. CASE ~ExecStep(e)
  <2>1. exec'[e] = exec[e] /\ (puts'[e] = puts[e] \/ puts[e] # "unsent")
    BY <1>3, OthersStep
  <2>. QED BY <2>1 DEF Owner, UnitOf, RequestOf
<1>. QED BY <1>2, <1>3

LEMMA NextOwnersPay ==
    ASSUME BrokerTypeOK, RowsOK, OwnersPay, [BrokerNext]_brokerVars
    PROVE  OwnersPay'
<1>1. ASSUME NEW e \in Execs, Owner(e)' PROVE (UnitOf(e) \in SpentUnits)'
  BY <1>1, OwnerStep, SpentStep DEF OwnersPay, Spending
<1>2. ASSUME NEW e \in Execs, NEW f \in Execs, Owner(e)', Owner(f)', UnitOf(e)' = UnitOf(f)', e # f
      PROVE  FALSE
  <2>1. UnitOf(e) = UnitOf(f)
    BY <1>2, OwnerStep
  <2>2. ~(ExecStep(e) /\ ExecStep(f))
    <3>1. ASSUME ExecStep(e), ExecStep(f) PROVE FALSE
      <4>1. StepOK(e) /\ StepOK(f)
        BY <3>1, ExecStepOK DEF RowsOK
      <4>2. exec'[e] = exec[e] /\ puts'[e] = puts[e]
        BY <1>2, <4>1 DEF StepOK, BrokerTypeOK
      <4>3. exec'[f] = exec[f] /\ puts'[f] = puts[f]
        BY <1>2, <4>1 DEF StepOK, BrokerTypeOK
      <4>4. Owner(e) /\ Owner(f)
        BY <1>2, <4>2, <4>3 DEF Owner
      <4>. QED BY <1>2, <2>1, <4>4 DEF OwnersPay
    <3>. QED BY <3>1
  <2>3. CASE Owner(e) /\ Owner(f)
    BY <1>2, <2>1, <2>3 DEF OwnersPay
  <2>4. CASE Owner(e) /\ Spending(UnitOf(f))
    BY <2>1, <2>4 DEF OwnersPay, Spending
  <2>5. CASE Owner(f) /\ Spending(UnitOf(e))
    BY <2>1, <2>5 DEF OwnersPay, Spending
  <2>. QED BY <1>2, <2>2, <2>3, <2>4, <2>5, OwnerStep
<1>3. OwnersPay' <=>
        /\ \A e \in Execs : Owner(e)' => (UnitOf(e) \in SpentUnits)'
        /\ \A e, f \in Execs : Owner(e)' /\ Owner(f)' /\ UnitOf(e)' = UnitOf(f)' => e = f
  BY DEF OwnersPay
<1>. QED BY <1>1, <1>2, <1>3

BrokerInv == BrokerTypeOK /\ RowsOK /\ OwnersPay

LEMMA InitBrokerInv == BrokerInit => BrokerInv
<1> SUFFICES ASSUME BrokerInit PROVE BrokerInv
  OBVIOUS
<1> DEFINE row == [pc |-> "idle", request |-> None, approval |-> None, startedAt |-> 0,
                   version |-> 0, guardian |-> "not_assessed", base |-> None, tool |-> FALSE,
                   consumed |-> FALSE, code |-> None]
<1>1. row \in ExecRows /\ RowOK(row, "unsent")
  BY SessionPlansBounds DEF ExecRows, RowOK, Unassessed, Assented, Paid, Merging, Ending, Outcomes, Codes
<1>2. \A e \in Execs : exec[e] = row /\ puts[e] = "unsent"
  BY DEF BrokerInit
<1>3. exec \in [Execs -> ExecRows] /\ puts \in [Execs -> {"unsent", "sent", "merged", "refused"}]
  BY <1>1 DEF BrokerInit
<1>4. PlansTypeOK /\ Version <= MaxGrants
  BY SessionPlansBounds DEF BrokerInit, PlansInit, PlansTypeOK, Version
<1>5. toolCalls \in 0..ToolCalls
  BY BrokerAssumption DEF BrokerInit
<1>6. BrokerTypeOK
  BY <1>3, <1>4, <1>5 DEF BrokerInit, BrokerTypeOK
<1>7. RowsOK
  BY <1>1, <1>2 DEF RowsOK
<1>8. \A e \in Execs : ~Owner(e)
  BY <1>2 DEF Owner
<1>. QED BY <1>6, <1>7, <1>8 DEF BrokerInv, OwnersPay

\* The broker's variables keep their types, the locals of its executions agree
\* with what they sent, and no two of them hold one unit of authority.
THEOREM BrokerInvariant == BrokerSpec => []BrokerInv
<1>1. BrokerInv /\ [BrokerNext]_brokerVars => BrokerInv'
  BY NextRowsOK, NextOwnersPay DEF BrokerInv
<1>. QED BY <1>1, InitBrokerInv, PTL DEF BrokerSpec

-----------------------------------------------------------------------------
(* The broker implements SessionPlans and AuthorizedEffects.                *)

\* Everything SessionPlans promises holds inside the broker: what its
\* executions do to the plans' tables are operations of SessionPlans.
THEOREM BrokerKeepsPlans == BrokerSpec => PlansSpec
<1>1. BrokerInit => PlansInit
  BY DEF BrokerInit
<1>2. BrokerInv /\ [BrokerNext]_brokerVars => [PlansNext]_planVars
  BY BrokerPlansStep DEF BrokerInv
<1>. QED BY <1>1, <1>2, BrokerInvariant, PTL DEF BrokerSpec, PlansSpec

\* The effects sent under a unit.
SentUnder(u) == {e \in Sent : UnitOf(e) = u}

LEMMA SentUnderOne ==
    ASSUME BrokerInv, NEW u
    PROVE  /\ IsFiniteSet(SentUnder(u))
           /\ SentUnder(u) = {} <=> Cardinality(SentUnder(u)) = 0
           /\ \A e \in SentUnder(u) : SentUnder(u) = {e}
<1>1. \A e, f \in SentUnder(u) : e = f
  BY DEF SentUnder, Sent, Owner, BrokerInv, OwnersPay
<1>2. \A e \in SentUnder(u) : SentUnder(u) = {e}
  BY <1>1
<1>3. SentUnder(u) = {} \/ \E e : SentUnder(u) = {e}
  BY <1>2
<1>4. IsFiniteSet(SentUnder(u))
  <2>1. IsFiniteSet({}) /\ \A e : IsFiniteSet({e})
    BY FS_EmptySet, FS_Singleton, Zenon
  <2>. HIDE DEF SentUnder
  <2>. QED BY <1>3, <2>1
<1>. QED BY <1>2, <1>4, FS_EmptySet

\* Only SendPut adds an effect.
LEMMA SentUnderStep ==
    ASSUME BrokerInv, [BrokerNext]_brokerVars, NEW u
    PROVE  \/ SentUnder(u)' = SentUnder(u)
           \/ \E e \in Execs : SendPut(e) /\ UnitOf(e) = u
<1>1. ASSUME NEW e \in Execs, puts'[e] # puts[e], ~(puts[e] # "unsent" /\ puts'[e] # "unsent")
      PROVE  SendPut(e)
  <2>1. ASSUME NEW f \in Execs, ProviderAnswers(f) PROVE FALSE
    BY <1>1, <2>1 DEF ProviderAnswers, BrokerInv, BrokerTypeOK
  <2>2. ASSUME NEW f \in Execs, SendPut(f), f # e PROVE FALSE
    BY <1>1, <2>2 DEF SendPut, BrokerInv, BrokerTypeOK
  <2>3. puts' # puts
    BY <1>1
  <2>. QED BY <2>1, <2>2, <2>3, ExecStepCases, OtherStepCases DEF BrokerNext, BrokerInv
<1>2. ASSUME \A e \in Execs : ~(SendPut(e) /\ UnitOf(e) = u)
      PROVE  SentUnder(u)' = SentUnder(u)
  <2>1. \A e \in Execs : puts'[e] # "unsent" => UnitOf(e)' = UnitOf(e)
    BY OwnerStep DEF BrokerInv, Owner
  <2>2. \A e \in Execs : UnitOf(e) = u => (puts'[e] # "unsent" <=> puts[e] # "unsent")
    BY <1>1, <1>2
  <2>3. \A e \in Execs : puts[e] # "unsent" => puts'[e] # "unsent"
    BY <1>1 DEF SendPut, BrokerInv, BrokerTypeOK
  <2>. QED BY <2>1, <2>2, <2>3 DEF SentUnder, Sent
<1>. QED BY <1>2

\* Authority never returns.
LEMMA AuthorityLapses ==
    ASSUME BrokerInv, [BrokerNext]_brokerVars
    PROVE  HasAuthority' => HasAuthority
<1> SUFFICES ASSUME (InWindow /\ connected)' PROVE InWindow /\ connected
  BY DEF HasAuthority
<1>1. [PlansNext]_planVars
  BY BrokerPlansStep DEF BrokerInv
<1>2. CASE UNCHANGED <<clock, sessionActive, connected>>
  BY <1>2 DEF InWindow
<1>3. CASE EndSession \/ RevokeConnection
  BY <1>3 DEF EndSession, RevokeConnection, InWindow
<1>4. CASE PlansTick
  BY <1>4, SessionPlansBounds DEF PlansTick, InWindow, BrokerInv, BrokerTypeOK, PlansTypeOK
<1>. QED
  BY <1>1, <1>2, <1>3, <1>4 DEF PlansNext, planVars, Store, Revoke, CheckStep, DeferStep

\* Every step of the broker spends one unit in force, sends one effect that a
\* spent unit has not paid for yet, lets authority lapse, or does nothing that
\* AuthorizedEffects sees.
LEMMA BrokerEffectsStep ==
    ASSUME BrokerInv, [BrokerNext]_brokerVars
    PROVE  [Effects!EffectsNext]_Effects!effectVars
<1> DEFINE Units == Approvals \cup Resources
<1>1. /\ EffectsSent = [u \in Units |-> Cardinality(SentUnder(u))]
      /\ EffectsSent' = [u \in Units |-> Cardinality(SentUnder(u)')]
  BY DEF EffectsSent, SentUnder
<1>2. CASE \E e \in Execs : SendPut(e)
  <2>1. PICK e \in Execs : SendPut(e)
    BY <1>2
  <2>0. PICK u : u = UnitOf(e)
    OBVIOUS
  <2>2. exec[e].pc = "send" /\ puts[e] = "unsent" /\ exec[e].consumed
    BY <2>1 DEF SendPut, At, BrokerInv, RowsOK, RowOK, Assented, Paid
  <2>3. u \in SpentUnits /\ u \in Units
    <3>1. u \in SpentUnits
      BY <2>0, <2>2 DEF BrokerInv, OwnersPay, Owner
    <3>2. SpentUnits \subseteq Units
      BY DEF SpentUnits, BrokerInv, BrokerTypeOK, PlansTypeOK, ExecutionRows
    <3>. QED BY <3>1, <3>2
  <2>4. UNCHANGED <<SpentUnits, HasAuthority>>
    BY <2>1 DEF SendPut, storeVars, approvalVars, planVars, planTables, SpentUnits, HasAuthority, InWindow
  <2>5. SentUnder(u) = {}
    <3>1. \A f \in SentUnder(u) : f = e
      BY <2>0, <2>2 DEF SentUnder, Sent, Owner, BrokerInv, OwnersPay
    <3>2. e \notin SentUnder(u)
      BY <2>2 DEF SentUnder, Sent
    <3>. QED BY <3>1, <3>2
  <2>6. SentUnder(u)' = {e}
    <3>1. \A f \in Execs : UnitOf(f)' = UnitOf(f)
      BY <2>1 DEF SendPut, Goto, UnitOf, RequestOf, BrokerInv, BrokerTypeOK, ExecRows
    <3>2. \A f \in Execs : puts'[f] # "unsent" <=> f = e \/ puts[f] # "unsent"
      BY <2>1 DEF SendPut, BrokerInv, BrokerTypeOK
    <3>. QED BY <2>0, <2>5, <3>1, <3>2 DEF SentUnder, Sent
  <2>7. \A v \in Units \ {u} : SentUnder(v)' = SentUnder(v)
    <3>1. \A f \in Execs : SendPut(f) => f = e
      BY <2>1 DEF SendPut, At, Goto, BrokerInv, BrokerTypeOK, ExecRows
    <3>. QED BY <2>0, <3>1, SentUnderStep
  <2>8. EffectsSent[u] = 0 /\ EffectsSent' = [EffectsSent EXCEPT ![u] = 1]
    <3>1. Cardinality({}) = 0 /\ Cardinality({e}) = 1
      BY FS_EmptySet, FS_Singleton
    <3>2. EffectsSent[u] = 0
      BY <1>1, <2>3, <2>5, <3>1
    <3>3. \A v \in Units : Cardinality(SentUnder(v)') = IF v = u THEN 1 ELSE EffectsSent[v]
      BY <1>1, <2>6, <2>7, <3>1
    <3>4. EffectsSent' = [v \in Units |-> IF v = u THEN 1 ELSE EffectsSent[v]]
      BY <1>1, <3>3
    <3>. QED BY <1>1, <3>2, <3>4
  <2>9. Effects!SendPaid(u)
    BY <2>3, <2>4, <2>8 DEF Effects!SendPaid
  <2>. QED BY <2>3, <2>9 DEF Effects!EffectsNext
<1>3. CASE ~\E e \in Execs : SendPut(e)
  <2>1. \A v : SentUnder(v)' = SentUnder(v)
    BY <1>3, SentUnderStep
  <2>2. UNCHANGED EffectsSent
    BY <1>1, <2>1
  <2>3. CASE \E u : Spending(u)
    <3>1. PICK u : Spending(u)
      BY <2>3
    <3>2. HasAuthority /\ UNCHANGED HasAuthority
      BY <3>1 DEF Spending, HasAuthority, InWindow
    <3>3. Effects!Spend(u) /\ u \in Units
      BY <2>2, <3>1, <3>2 DEF Effects!Spend, Spending
    <3>. QED BY <3>3 DEF Effects!EffectsNext
  <2>4. CASE SpentUnits' = SpentUnits
    <3>1. UNCHANGED HasAuthority \/ (HasAuthority /\ ~HasAuthority')
      <4>1. HasAuthority \in BOOLEAN /\ HasAuthority' \in BOOLEAN
        BY DEF HasAuthority
      <4>. QED BY <4>1, AuthorityLapses
    <3>2. CASE UNCHANGED HasAuthority
      BY <2>2, <2>4, <3>2 DEF Effects!effectVars
    <3>3. CASE HasAuthority /\ ~HasAuthority'
      <4>1. Effects!Lapse
        BY <2>2, <2>4, <3>3 DEF Effects!Lapse
      <4>. QED BY <4>1 DEF Effects!EffectsNext
    <3>. QED BY <3>1, <3>2, <3>3
  <2>. QED BY <2>3, <2>4, SpentStep DEF BrokerInv
<1>. QED BY <1>2, <1>3

LEMMA InitEffects == BrokerInit => Effects!EffectsInit
<1> SUFFICES ASSUME BrokerInit PROVE Effects!EffectsInit
  OBVIOUS
<1>1. HasAuthority = TRUE
  BY BrokerAssumption DEF BrokerInit, PlansInit, HasAuthority, InWindow
<1>2. SpentUnits = {}
  BY DEF BrokerInit, PlansInit, SpentUnits
<1>3. Sent = {}
  BY DEF BrokerInit, Sent
<1>4. EffectsSent = [u \in Approvals \cup Resources |-> 0]
  BY <1>3, FS_EmptySet DEF EffectsSent
<1>. QED BY <1>1, <1>2, <1>4 DEF Effects!EffectsInit

\* The broker implements AuthorizedEffects: a PUT goes out only after its unit
\* was consumed in force, and no unit pays for a second one, however many
\* executions race and whatever is lost or replaced under them.
THEOREM BrokerAuthorizesEffects == BrokerSpec => EffectsAuthorized
<1>1. BrokerInv /\ [BrokerNext]_brokerVars => [Effects!EffectsNext]_Effects!effectVars
  BY BrokerEffectsStep
<1>. QED
  BY <1>1, InitEffects, BrokerInvariant, PTL DEF BrokerSpec, EffectsAuthorized, Effects!EffectsSpec

-----------------------------------------------------------------------------
(* Where a step takes an execution.                                         *)

\* Any step but the first two, the last two and the final check moves on from
\* one of the awaits between them to another.
LEMMA ExecStepPlace ==
    ASSUME BrokerTypeOK, NEW e \in Execs, ExecStep(e)
    PROVE  /\ exec[e].pc # "done"
           /\ exec'[e].pc \notin {"idle", "attempt", "done"} /\ exec[e].pc \in {"idle", "attempt"} =>
                \E replied \in BOOLEAN : AppendAttempt(e, replied)
           /\ exec'[e].pc = "done" /\ exec'[e].code = "ok" =>
                \E replied \in BOOLEAN : AppendDecision(e, replied) /\ exec[e].code = "ok"
           /\ exec'[e].pc = "send" => \E replied \in BOOLEAN : FinalValidation(e, replied)
<1> DEFINE Midway == /\ exec[e].pc \notin {"idle", "attempt", "done"}
                     /\ exec'[e].pc \notin {"done", "send"}
<1>1. exec[e] \in ExecRows /\ e \in DOMAIN exec
  BY DEF BrokerTypeOK
<1>2. ASSUME NEW code, Deny(e, code) PROVE exec'[e].pc \in {"defer", "decide"}
  BY <1>1, <1>2 DEF Deny, Denied, ExecRows
<1>3. ASSUME NEW code, Return(e, code) PROVE exec'[e].pc = "done" /\ exec'[e].code = code
  BY <1>1, <1>3 DEF Return, Returned, ExecRows
<1>4. ASSUME NEW pc, Goto(e, pc) PROVE exec'[e].pc = pc
  BY <1>1, <1>4 DEF Goto, ExecRows
<1>5. ASSUME NEW r \in Requests, NEW a \in Approvals \cup {None}, Begin(e, r, a)
      PROVE  /\ exec[e].pc = "idle" /\ exec'[e].pc \in {"attempt", "done"}
             /\ exec'[e].pc = "done" => exec'[e].code # "ok"
  <2>1. exec[e].pc = "idle"
    BY <1>5 DEF Begin, At
  <2> DEFINE row == [exec[e] EXCEPT !.request = r, !.approval = a, !.startedAt = clock]
  <2>2. \/ exec' = [exec EXCEPT ![e] = Returned(row, "audit_unavailable")]
        \/ exec' = [exec EXCEPT ![e] = [row EXCEPT !.pc = "attempt"]]
        \/ exec' = [exec EXCEPT ![e] = Returned(row, "not_active")]
    BY <1>5 DEF Begin
  <2>3. /\ \A code : Returned(row, code).pc = "done" /\ Returned(row, code).code = code
        /\ [row EXCEPT !.pc = "attempt"].pc = "attempt"
    BY <1>1 DEF Returned, ExecRows
  <2>. HIDE DEF row
  <2>4. ASSUME NEW next, exec' = [exec EXCEPT ![e] = next] PROVE exec'[e] = next
    BY <1>1, <2>4
  <2>5. ASSUME NEW code \in {"audit_unavailable", "not_active"},
               exec' = [exec EXCEPT ![e] = Returned(row, code)]
        PROVE  exec'[e].pc = "done" /\ exec'[e].code # "ok"
    BY <2>3, <2>4, <2>5
  <2>6. CASE exec' = [exec EXCEPT ![e] = [row EXCEPT !.pc = "attempt"]]
    BY <2>1, <2>3, <2>4, <2>6
  <2>. QED BY <2>1, <2>2, <2>5, <2>6
<1>6. ASSUME NEW replied \in BOOLEAN, AppendAttempt(e, replied)
      PROVE  /\ exec[e].pc = "attempt" /\ exec'[e].pc \in {"connections", "done"}
             /\ exec'[e].pc = "done" => exec'[e].code # "ok"
  <2>1. exec[e].pc = "attempt" /\ (Goto(e, "connections") \/ Return(e, "audit_unavailable"))
    BY <1>6 DEF AppendAttempt, At
  <2>. QED BY <1>3, <1>4, <2>1
<1>7. ASSUME NEW replied \in BOOLEAN, InspectPlan(e, replied) PROVE Midway
  BY <1>1, <1>7 DEF InspectPlan, At, Answered, Denied, ExecRows
<1>8. CASE EvaluateGuardian(e)
  <2>1. PICK outcome, code, pc :
            /\ pc \in {"approval", "charge"}
            /\ exec' = [exec EXCEPT ![e] =
                IF code # "ok" THEN Denied([exec[e] EXCEPT !.guardian = outcome], code)
                ELSE [[exec[e] EXCEPT !.guardian = outcome] EXCEPT !.pc = pc]]
    <3>1. PICK opinion \in Opinions[Floor(RequestOf(e))] :
        LET row == [exec[e] EXCEPT !.guardian = OutcomeOf(Floor(RequestOf(e)), opinion)]
            code == Objection(RequestOf(e), opinion)
        IN exec' = [exec EXCEPT ![e] =
            IF code # "ok" THEN Denied(row, code)
            ELSE [row EXCEPT !.pc = IF Merges(e) /\ exec[e].version = 0
                                    THEN "approval" ELSE "charge"]]
      BY <1>8 DEF EvaluateGuardian
    <3> DEFINE outcome == OutcomeOf(Floor(RequestOf(e)), opinion)
               code == Objection(RequestOf(e), opinion)
               pc == IF Merges(e) /\ exec[e].version = 0 THEN "approval" ELSE "charge"
    <3>2. /\ pc \in {"approval", "charge"}
          /\ exec' = [exec EXCEPT ![e] =
                IF code # "ok" THEN Denied([exec[e] EXCEPT !.guardian = outcome], code)
                ELSE [[exec[e] EXCEPT !.guardian = outcome] EXCEPT !.pc = pc]]
      BY <3>1
    <3>. HIDE DEF outcome, code, pc
    <3>. QED BY <3>2
  <2>2. exec[e].pc = "guardian"
    BY <1>8 DEF EvaluateGuardian, At
  <2>. QED BY <1>1, <2>1, <2>2 DEF Denied, ExecRows
<1>9. ASSUME NEW replied \in BOOLEAN, ConsumeToolCall(e, replied) PROVE Midway
  BY <1>1, <1>9 DEF ConsumeToolCall, At, Answered, Denied, ExecRows
<1>10. ASSUME NEW replied \in BOOLEAN, ConsumeApproval(e, replied) PROVE Midway
  BY <1>1, <1>10 DEF ConsumeApproval, At, Answered, Denied, ExecRows
<1>11. ASSUME NEW replied \in BOOLEAN, NEW consume, NEW observed, NEW pc,
              ValidateExecutionAuthority(e, replied, consume, observed, pc)
       PROVE  exec'[e].pc \in {"defer", "decide", pc}
  <2>1. PICK code, consumed :
            \/ exec' = [exec EXCEPT ![e] = Denied(exec[e], code)]
            \/ exec' = [exec EXCEPT ![e] = [exec[e] EXCEPT !.pc = pc, !.consumed = consumed]]
    BY <1>11 DEF ValidateExecutionAuthority, Answered
  <2>2. CASE exec' = [exec EXCEPT ![e] = Denied(exec[e], code)]
    BY <1>1, <2>2 DEF Denied, ExecRows
  <2>3. CASE exec' = [exec EXCEPT ![e] = [exec[e] EXCEPT !.pc = pc, !.consumed = consumed]]
    BY <1>1, <2>3 DEF ExecRows
  <2>. QED BY <2>1, <2>2, <2>3
<1>12. CASE ReadPull(e)
  <2>1. exec[e].pc = "read"
    BY <1>12 DEF ReadPull, At
  <2>2. \/ \E code : Deny(e, code)
        \/ \E pc \in {"consume", "reinspect"} : \E base :
                exec' = [exec EXCEPT ![e] = [exec[e] EXCEPT !.pc = pc, !.base = base]]
    BY <1>12 DEF ReadPull
  <2>. QED BY <1>1, <1>2, <2>1, <2>2 DEF ExecRows
<1>13. CASE GetConnections(e) \/ ValidateApproval(e) \/ RereadPull(e) \/ SendPut(e)
  <2>1. exec[e].pc \in {"connections", "approval", "reread", "send"}
    BY <1>13 DEF GetConnections, ValidateApproval, RereadPull, SendPut, At
  <2>2. \/ \E code : Deny(e, code)
        \/ \E pc \in {"inspect", "charge", "final", "put"} : Goto(e, pc)
    BY <1>13 DEF GetConnections, ValidateApproval, RereadPull, SendPut
  <2>. QED BY <1>2, <1>4, <2>1, <2>2
<1>14. CASE PutAnswered(e) \/ PutUncertain(e) \/ CredentialFails(e) \/ ReadFails(e)
  <2>1. exec[e].pc \in {"put", "validate", "reinspect", "final", "read", "reread"}
    BY <1>14 DEF PutAnswered, PutUncertain, CredentialFails, ReadFails, At
  <2>2. \E code : Deny(e, code)
    BY <1>14 DEF PutAnswered, PutUncertain, CredentialFails, ReadFails
  <2>. QED BY <1>2, <2>1, <2>2
<1>15. ASSUME NEW replied \in BOOLEAN, DeferBlocked(e, replied)
       PROVE  /\ exec[e].pc = "defer" /\ exec'[e].pc \in {"decide", "done"}
              /\ exec'[e].pc = "done" => exec'[e].code # "ok"
  <2>1. exec[e].pc = "defer" /\ (Goto(e, "decide") \/ Return(e, "audit_unavailable"))
    BY <1>15 DEF DeferBlocked, At
  <2>. QED BY <1>3, <1>4, <2>1
<1>16. ASSUME NEW replied \in BOOLEAN, AppendDecision(e, replied)
       PROVE  /\ exec[e].pc = "decide" /\ exec'[e].pc = "done"
              /\ exec'[e].code = "ok" => exec[e].code = "ok"
  BY <1>3, <1>16 DEF AppendDecision, At
<1>17. CASE CallLost(e)
  <2>1. \/ exec[e].pc \notin {"idle", "attempt", "done"} /\ Deny(e, "audit_unavailable")
        \/ exec[e].pc \notin {"idle", "done"} /\ Return(e, "audit_unavailable")
    BY <1>17 DEF CallLost
  <2>. QED BY <1>2, <1>3, <2>1
<1>18. ASSUME NEW replied \in BOOLEAN, FirstValidation(e, replied) \/ Reinspect(e, replied)
       PROVE  Midway
  <2>1. exec[e].pc \in {"validate", "reinspect"}
    BY <1>18 DEF FirstValidation, Reinspect, At
  <2>2. \E consume, observed : \E pc \in {"read", "reread"} :
            ValidateExecutionAuthority(e, replied, consume, observed, pc)
    BY <1>18, Zenon DEF FirstValidation, Reinspect
  <2>. QED BY <1>11, <2>1, <2>2
<1>19. ASSUME NEW replied \in BOOLEAN, FinalValidation(e, replied)
       PROVE  exec[e].pc = "final" /\ exec'[e].pc # "done"
  <2>1. exec[e].pc = "final" /\ exec'[e].pc \in {"defer", "decide", "send"}
    BY <1>11, <1>19, Zenon DEF FinalValidation, At
  <2>. QED BY <2>1
<1>20. CASE Midway
  BY <1>20
<1>. HIDE DEF Midway
<1>. QED
  BY <1>5, <1>6, <1>7, <1>8, <1>9, <1>10, <1>12, <1>13, <1>14, <1>15, <1>16, <1>17, <1>18,
     <1>19, <1>20 DEF ExecStep

-----------------------------------------------------------------------------
(* Denials and the final check.                                             *)

\* A denial that names a reason is definite: no merge hides behind it.
THEOREM BrokerDeniesDefinitely == BrokerSpec => []DefiniteDenial
<1>1. BrokerInv => DefiniteDenial
  <2> SUFFICES ASSUME BrokerInv, NEW e \in Execs, exec[e].pc = "done",
                      exec[e].code \notin {"ok", "audit_unavailable", "provider_failed"}
               PROVE  puts[e] \in {"unsent", "refused"}
    BY DEF DefiniteDenial
  <2>. QED BY DEF BrokerInv, RowsOK, RowOK, Uncertain
<1>. QED BY <1>1, BrokerInvariant, PTL

\* Only the final check lets an execution send, and it does so under the
\* grant the execution inspected first, in force and on the branch last seen,
\* or under none if it saw none.
LEMMA FinalCheckHolds ==
    ASSUME BrokerInv, NEW e \in Execs, NEW replied \in BOOLEAN, FinalValidation(e, replied),
           exec'[e].pc = "send"
    PROVE  /\ exec[e].version = Version
           /\ Version # 0 =>
                /\ ~Grant.revoked /\ clock < Grant.plan.expiresAt /\ InWindow
                /\ exec[e].base = TargetBase(RequestOf(e))
<1> DEFINE phase == IF exec[e].version = 0 THEN "inspect" ELSE "consume"
           verdict == Verdict(exec[e].request, phase, exec[e].version, exec[e].base)
           consumed == exec[e].consumed \/ (exec[e].version # 0 /\ Merges(e))
<1>1. exec[e] \in ExecRows /\ exec[e].pc = "final" /\ exec[e].request \in Requests
  BY DEF BrokerInv, BrokerTypeOK, RowsOK, RowOK, FinalValidation, At
<1>2. ASSUME NEW code, exec' = [exec EXCEPT ![e] = Denied(exec[e], code)] PROVE FALSE
  BY <1>1, <1>2 DEF Denied, BrokerInv, BrokerTypeOK, ExecRows
<1>3. Answered(e, replied,
            IF verdict \in BlockReasons THEN Denied(exec[e], PlanDenial(verdict))
            ELSE IF ~SameAuthority(e, verdict) THEN Denied(exec[e], "approval_mismatch")
            ELSE [exec[e] EXCEPT !.pc = "send", !.consumed = consumed])
  BY DEF FinalValidation, ValidateExecutionAuthority
<1>. HIDE DEF verdict
<1>4. SameAuthority(e, verdict)
  BY <1>2, <1>3 DEF Answered
<1>5. CASE exec[e].version = 0
  <2>1. verdict = "absent"
    BY <1>4, <1>5 DEF SameAuthority
  <2>. QED BY <1>5, <2>1 DEF verdict, Verdict
<1>6. CASE exec[e].version # 0
  <2>1. verdict = "allowed"
    BY <1>4, <1>6 DEF SameAuthority
  <2>2. InForce(exec[e].request)
    BY <1>1, <2>1, AllowedIsInForce DEF verdict
  <2>3. exec[e].request \in Mutations
    BY <1>1 DEF BrokerInv, RowsOK, RowOK, Merging
  <2>4. exec[e].version = Version
    BY <1>6, <2>1 DEF verdict, Verdict, OtherGrant
  <2>5. exec[e].base = TargetBase(exec[e].request)
    BY <1>6, <2>1, <2>3 DEF verdict, Verdict
  <2>6. Grant.plan.expiresAt \in Int /\ clock \in Nat
    BY <2>2, GrantType, PlansAssumption DEF InForce, BrokerInv, BrokerTypeOK, PlansTypeOK, GrantRows, PlanRecords
  <2>. QED BY <2>2, <2>4, <2>5, <2>6, SessionPlansBounds DEF InForce, Expired, InWindow, RequestOf
<1>. QED BY <1>5, <1>6

\* No execution that reaches its PUT changed the plan it runs under, or fell
\* back from one to an exact approval (ADR-0048).
THEOREM BrokerKeepsItsPlan == BrokerSpec => NoPlanSwitch
<1> DEFINE Holds(e) ==
        /\ exec[e].version = Version
        /\ Version # 0 =>
            /\ ~Grant.revoked /\ clock < Grant.plan.expiresAt /\ InWindow
            /\ exec[e].base = TargetBase(RequestOf(e))
<1>1. ASSUME BrokerInv, [BrokerNext]_brokerVars, NEW e \in Execs,
             ~At(e, "send"), exec'[e].pc = "send"
      PROVE  Holds(e)
  <2>1. ExecStep(e)
    BY <1>1, OthersStep DEF BrokerInv, At
  <2>2. PICK replied \in BOOLEAN : FinalValidation(e, replied)
    BY <1>1, <2>1, ExecStepPlace DEF BrokerInv
  <2>. QED BY <1>1, <2>2, FinalCheckHolds
<1>2. BrokerInv /\ [BrokerNext]_brokerVars =>
        [\A e \in Execs : ~At(e, "send") /\ exec'[e].pc = "send" => Holds(e)]_brokerVars
  BY <1>1
<1>. QED BY <1>2, BrokerInvariant, PTL DEF BrokerSpec, NoPlanSwitch

-----------------------------------------------------------------------------
(* What is on record.                                                       *)

\* An execution under way, or with a PUT out, has its attempt on record.
AttemptsRecorded ==
    \A e \in Execs :
        exec[e].pc \notin {"idle", "attempt", "done"} \/ puts[e] # "unsent" => e \in attempts

\* A decision is true of its execution, which is over, and the only one of it.
DecisionOK(d) ==
    /\ exec[d.attempt].pc = "done"
    /\ d.allowed /\ Merges(d.attempt) => puts[d.attempt] = "merged"
    /\ d.approval => UnitOf(d.attempt) \in SpentUnits
    /\ d.guardian # "preserved" =>
            ~d.allowed /\ ~d.tool /\ ~d.approval /\ puts[d.attempt] = "unsent"
DecisionsOK ==
    /\ \A d \in decisions : DecisionOK(d)
    /\ \A c, d \in decisions : c.attempt = d.attempt => c = d
OkDecided ==
    \A e \in Execs :
        At(e, "done") /\ exec[e].code = "ok" => \E d \in decisions : d.attempt = e /\ d.allowed

\* A tool call was charged for each execution that knows of it, sent its PUT
\* or has it in its decision.
Charging(e) ==
    exec[e].tool \/ puts[e] # "unsent" \/ \E d \in decisions : d.tool /\ d.attempt = e
Payers == {e \in Execs : Charging(e)}
CallsCharged == IsFiniteSet(Payers) /\ Cardinality(Payers) + toolCalls <= ToolCalls

RecordsInv == BrokerInv /\ AttemptsRecorded /\ DecisionsOK /\ OkDecided /\ CallsCharged

\* The decision an execution records.
DecisionOf(e) ==
    LET allowed == exec[e].code = "ok" IN
    [attempt |-> e, allowed |-> allowed, tool |-> allowed \/ exec[e].tool,
     approval |-> Merges(e) /\ (allowed \/ exec[e].consumed), guardian |-> exec[e].guardian]

\* Records are added, one at a time, and nothing on record is lost.
LEMMA RecordsStep ==
    ASSUME BrokerTypeOK, [BrokerNext]_brokerVars
    PROVE  /\ attempts \subseteq attempts'
           /\ \/ decisions' = decisions
              \/ \E e \in Execs, replied \in BOOLEAN :
                    AppendDecision(e, replied) /\ decisions' = decisions \cup {DecisionOf(e)}
<1>1. ASSUME NEW e \in Execs, NEW replied \in BOOLEAN, AppendDecision(e, replied)
      PROVE  decisions' = decisions \cup {DecisionOf(e)}
  BY <1>1 DEF AppendDecision, DecisionOf
<1>2. ASSUME NEW e \in Execs, NEW replied \in BOOLEAN, AppendAttempt(e, replied)
      PROVE  attempts \subseteq attempts'
  BY <1>2 DEF AppendAttempt
<1>3. ASSUME NEW e \in Execs, ExecStep(e)
      PROVE  /\ attempts \subseteq attempts'
             /\ decisions' = decisions \/ \E replied \in BOOLEAN : AppendDecision(e, replied)
  BY <1>2, <1>3, ExecStepCases
<1>. QED BY <1>1, <1>3, OtherStepCases DEF BrokerNext

\* An execution that is over stays as it is, but for GitHub's answer to it.
LEMMA DoneStays ==
    ASSUME BrokerInv, [BrokerNext]_brokerVars, NEW e \in Execs, exec[e].pc = "done"
    PROVE  /\ exec'[e] = exec[e]
           /\ puts'[e] = puts[e] \/ (puts[e] = "sent" /\ puts'[e] # "unsent")
BY OthersStep, ExecStepPlace DEF BrokerInv

LEMMA NextAttemptsRecorded ==
    ASSUME BrokerInv, AttemptsRecorded, [BrokerNext]_brokerVars
    PROVE  AttemptsRecorded'
<1> SUFFICES ASSUME NEW e \in Execs,
                    exec'[e].pc \notin {"idle", "attempt", "done"} \/ puts'[e] # "unsent"
             PROVE  e \in attempts'
  BY DEF AttemptsRecorded
<1>1. SUFFICES ASSUME ~(e \in attempts) PROVE e \in attempts'
  BY RecordsStep DEF BrokerInv
<1>2. exec[e].pc \in {"idle", "attempt", "done"} /\ puts[e] = "unsent"
  BY <1>1 DEF AttemptsRecorded
<1>3. ExecStep(e)
  BY <1>2, OthersStep DEF BrokerInv
<1>4. puts' = puts
  BY <1>2, <1>3, ExecStepCases DEF SendPut, At
<1>5. PICK replied \in BOOLEAN : AppendAttempt(e, replied)
  BY <1>2, <1>3, <1>4, ExecStepPlace DEF BrokerInv
<1>. QED BY <1>5 DEF AppendAttempt

LEMMA NextDecisionsOK ==
    ASSUME BrokerInv, DecisionsOK, OkDecided, [BrokerNext]_brokerVars
    PROVE  DecisionsOK' /\ OkDecided'
<1>1. SpentUnits \subseteq SpentUnits'
  BY SpentStep DEF Spending, BrokerInv
<1>2. ASSUME NEW d \in decisions PROVE DecisionOK(d)'
  <2>1. d.attempt \in Execs /\ DecisionOK(d) /\ exec[d.attempt].pc = "done"
    BY <1>2 DEF BrokerInv, BrokerTypeOK, DecisionRows, DecisionsOK, DecisionOK
  <2>2. /\ exec'[d.attempt] = exec[d.attempt]
        /\ puts'[d.attempt] = puts[d.attempt]
            \/ (puts[d.attempt] = "sent" /\ puts'[d.attempt] # "unsent")
    BY <2>1, DoneStays
  <2>. QED BY <1>1, <2>1, <2>2 DEF DecisionOK, Merges, RequestOf, UnitOf
<1>3. ASSUME NEW e \in Execs, NEW replied \in BOOLEAN, AppendDecision(e, replied),
             NEW d, d = DecisionOf(e)
      PROVE  DecisionOK(d)'
  <2>1. /\ exec[e] \in ExecRows /\ exec[e].pc = "decide" /\ RowOK(exec[e], puts[e])
        /\ puts' = puts
    BY <1>3 DEF BrokerInv, BrokerTypeOK, RowsOK, AppendDecision, At, githubVars
  <2>2. /\ d.attempt = e
        /\ d.allowed <=> exec[e].code = "ok"
        /\ d.tool => exec[e].code = "ok" \/ exec[e].tool
        /\ d.approval => Merges(e) /\ (exec[e].code = "ok" \/ exec[e].consumed)
        /\ d.guardian = exec[e].guardian
    BY <1>3 DEF DecisionOf
  <2>3. exec'[e].pc = "done" /\ SameRequest(e)
    <3>1. PICK code : Return(e, code)
      BY <1>3 DEF AppendDecision
    <3>. QED BY <2>1, <3>1 DEF Return, Returned, SameRequest, BrokerInv, BrokerTypeOK, ExecRows
  <2>4. Merges(e)' = Merges(e) /\ UnitOf(e)' = UnitOf(e)
    BY <2>3 DEF SameRequest, Merges, UnitOf, RequestOf
  <2>5. d.allowed /\ Merges(e) => puts[e] = "merged" /\ exec[e].consumed
    BY <2>1, <2>2 DEF RowOK, Ending, Merges, RequestOf
  <2>6. d.approval => UnitOf(e) \in SpentUnits
    <3>1. d.approval => exec[e].consumed
      BY <2>2, <2>5
    <3>. QED BY <3>1 DEF BrokerInv, OwnersPay, Owner
  <2>7. d.guardian # "preserved" => ~d.allowed /\ ~d.tool /\ ~d.approval /\ puts[e] = "unsent"
    BY <2>1, <2>2 DEF RowOK, Ending
  <2>. QED BY <1>1, <2>1, <2>2, <2>3, <2>4, <2>5, <2>6, <2>7 DEF DecisionOK
<1>4. ASSUME NEW e \in Execs, NEW replied \in BOOLEAN, AppendDecision(e, replied), NEW d \in decisions
      PROVE  d.attempt # e
  <2>1. exec[e].pc = "decide" /\ exec[d.attempt].pc = "done"
    BY <1>4 DEF AppendDecision, At, DecisionsOK, DecisionOK
  <2>. QED BY <2>1
<1>5. DecisionsOK'
  <2>1. CASE decisions' = decisions
    BY <1>2, <2>1 DEF DecisionsOK
  <2>2. ASSUME NEW e \in Execs, NEW replied \in BOOLEAN, AppendDecision(e, replied),
               decisions' = decisions \cup {DecisionOf(e)}
        PROVE  DecisionsOK'
    <3>1. PICK d : d = DecisionOf(e)
      OBVIOUS
    <3>2. d.attempt = e
      BY <3>1 DEF DecisionOf
    <3>3. \A c \in decisions : c.attempt # d.attempt
      BY <1>4, <2>2, <3>2
    <3>4. DecisionOK(d)'
      BY <1>3, <2>2, <3>1
    <3>5. decisions' = decisions \cup {d}
      BY <2>2, <3>1
    <3>. QED BY <1>2, <3>3, <3>4, <3>5 DEF DecisionsOK
  <2>. QED BY <2>1, <2>2, RecordsStep DEF BrokerInv
<1>6. OkDecided'
  <2> SUFFICES ASSUME NEW e \in Execs, exec'[e].pc = "done", exec'[e].code = "ok"
               PROVE  \E d \in decisions' : d.attempt = e /\ d.allowed
    BY DEF OkDecided, At
  <2>1. CASE exec'[e] = exec[e]
    <3>1. PICK d \in decisions : d.attempt = e /\ d.allowed
      BY <2>1 DEF OkDecided, At
    <3>. QED BY <3>1, RecordsStep DEF BrokerInv
  <2>2. CASE exec'[e] # exec[e]
    <3>1. ExecStep(e)
      BY <2>2, OthersStep DEF BrokerInv
    <3>2. PICK replied \in BOOLEAN : AppendDecision(e, replied) /\ exec[e].code = "ok"
      BY <3>1, ExecStepPlace DEF BrokerInv
    <3>3. /\ DecisionOf(e) \in decisions'
          /\ DecisionOf(e).attempt = e /\ DecisionOf(e).allowed
      BY <3>2 DEF AppendDecision, DecisionOf
    <3>. QED BY <3>3
  <2>. QED BY <2>1, <2>2
<1>. QED BY <1>5, <1>6

\* Whoever knows of a charge, sends a PUT or decides has paid already, but for
\* the execution whose call is charged now.
LEMMA PayersStep ==
    ASSUME BrokerInv, [BrokerNext]_brokerVars
    PROVE  \/ Payers' \subseteq Payers /\ toolCalls' <= toolCalls
           \/ \E e \in Execs : Payers' \subseteq Payers \cup {e} /\ toolCalls' = toolCalls - 1
<1>1. ASSUME NEW e \in Execs, Charging(e)', ~Charging(e)
      PROVE  ExecStep(e) /\ \E replied \in BOOLEAN : ConsumeToolCall(e, replied) /\ exec'[e].tool
  <2>1. ~exec[e].tool /\ puts[e] = "unsent" /\ \A d \in decisions : ~(d.tool /\ d.attempt = e)
    BY <1>1 DEF Charging
  <2>2. ASSUME NEW replied \in BOOLEAN, AppendDecision(e, replied) PROVE ~DecisionOf(e).tool
    <3>1. exec[e].pc = "decide" /\ RowOK(exec[e], puts[e])
      BY <2>2 DEF AppendDecision, At, BrokerInv, RowsOK
    <3>2. exec[e].code # "ok"
      BY <2>1, <3>1 DEF RowOK, Ending
    <3>. QED BY <2>1, <3>2 DEF DecisionOf
  <2>3. \A d \in decisions' : ~(d.tool /\ d.attempt = e)
    BY <2>1, <2>2, RecordsStep DEF DecisionOf, BrokerInv
  <2>4. ExecStep(e)
    BY <1>1, <2>1, <2>3, OthersStep DEF Charging, BrokerInv
  <2>5. ~SendPut(e)
    BY <2>1 DEF SendPut, At, BrokerInv, RowsOK, RowOK, Assented, Paid
  <2>6. exec'[e].tool
    BY <1>1, <2>1, <2>3, <2>4, <2>5, ExecStepCases DEF Charging
  <2>. QED BY <2>1, <2>4, <2>6, ExecStepRow DEF BrokerInv
<1>2. ASSUME NEW e \in Execs, NEW replied \in BOOLEAN, ConsumeToolCall(e, replied),
             exec'[e].tool, ~exec[e].tool
      PROVE  toolCalls' = toolCalls - 1
  <2>1. exec[e] \in ExecRows
    BY DEF BrokerInv, BrokerTypeOK
  <2>2. Chargeable
    BY <1>2, <2>1 DEF ConsumeToolCall, Answered, Denied, BrokerInv, BrokerTypeOK, ExecRows
  <2>. QED BY <1>2, <2>2 DEF ConsumeToolCall
<1>3. CASE \E e \in Execs : Charging(e)' /\ ~Charging(e)
  <2>1. PICK e \in Execs : Charging(e)' /\ ~Charging(e)
    BY <1>3
  <2>2. PICK replied \in BOOLEAN : ConsumeToolCall(e, replied) /\ exec'[e].tool
    BY <1>1, <2>1
  <2>3. ~exec[e].tool
    BY <2>1 DEF Charging
  <2>4. ASSUME NEW f \in Execs, Charging(f)', ~Charging(f) PROVE f = e
    <3>1. exec'[f].tool /\ ~exec[f].tool
      BY <1>1, <2>4 DEF Charging
    <3>. QED BY <2>2, <3>1 DEF ConsumeToolCall, Answered, BrokerInv, BrokerTypeOK
  <2>5. Payers' \subseteq Payers \cup {e}
    BY <2>4 DEF Payers
  <2>. QED BY <1>2, <2>2, <2>3, <2>5
<1>4. CASE \A e \in Execs : Charging(e)' => Charging(e)
  <2>1. Payers' \subseteq Payers
    BY <1>4 DEF Payers
  <2>2. toolCalls' <= toolCalls
    <3>1. ASSUME NEW e \in Execs, NEW replied \in BOOLEAN, ConsumeToolCall(e, replied)
          PROVE  toolCalls' <= toolCalls
      BY <3>1, BrokerAssumption DEF ConsumeToolCall, BrokerInv, BrokerTypeOK
    <3>2. toolCalls' = toolCalls => toolCalls' <= toolCalls
      BY BrokerAssumption DEF BrokerInv, BrokerTypeOK
    <3>. QED BY <3>1, <3>2, ExecStepCases, OtherStepCases DEF BrokerNext, BrokerInv
  <2>. QED BY <2>1, <2>2
<1>. QED BY <1>3, <1>4

LEMMA NextCallsCharged ==
    ASSUME BrokerInv, CallsCharged, [BrokerNext]_brokerVars
    PROVE  CallsCharged'
<1>1. /\ IsFiniteSet(Payers) /\ Cardinality(Payers) \in Nat
      /\ Cardinality(Payers) + toolCalls <= ToolCalls
  BY FS_CardinalityType DEF CallsCharged
<1>2. toolCalls \in Nat /\ toolCalls' \in Nat /\ ToolCalls \in Nat
  BY BrokerAssumption, NextRowsOK DEF BrokerInv, BrokerTypeOK
<1>3. ASSUME Payers' \subseteq Payers, toolCalls' <= toolCalls PROVE CallsCharged'
  <2>1. IsFiniteSet(Payers') /\ Cardinality(Payers') <= Cardinality(Payers)
    BY <1>1, <1>3, FS_Subset
  <2>2. Cardinality(Payers') \in Nat
    BY <2>1, FS_CardinalityType
  <2>. QED BY <1>1, <1>2, <1>3, <2>1, <2>2 DEF CallsCharged
<1>4. ASSUME NEW e \in Execs, Payers' \subseteq Payers \cup {e}, toolCalls' = toolCalls - 1
      PROVE  CallsCharged'
  <2>1. IsFiniteSet(Payers \cup {e}) /\ Cardinality(Payers \cup {e}) <= Cardinality(Payers) + 1
    <3>1. /\ IsFiniteSet(Payers \cup {e})
          /\ Cardinality(Payers \cup {e}) =
                IF e \in Payers THEN Cardinality(Payers) ELSE Cardinality(Payers) + 1
      BY <1>1, FS_AddElement
    <3>. QED BY <1>1, <3>1
  <2>2. IsFiniteSet(Payers') /\ Cardinality(Payers') <= Cardinality(Payers \cup {e})
    BY <1>4, <2>1, FS_Subset
  <2>3. Cardinality(Payers') \in Nat /\ Cardinality(Payers \cup {e}) \in Nat
    BY <2>1, <2>2, FS_CardinalityType
  <2>. QED BY <1>1, <1>2, <1>4, <2>1, <2>2, <2>3 DEF CallsCharged
<1>. QED BY <1>3, <1>4, PayersStep

LEMMA InitRecordsInv == BrokerInit => RecordsInv
<1> SUFFICES ASSUME BrokerInit PROVE RecordsInv
  OBVIOUS
<1>1. \A e \in Execs : exec[e].pc = "idle" /\ ~exec[e].tool /\ puts[e] = "unsent"
  BY DEF BrokerInit
<1>2. decisions = {} /\ toolCalls = ToolCalls
  BY DEF BrokerInit
<1>3. Payers = {}
  BY <1>1, <1>2 DEF Payers, Charging
<1>4. CallsCharged
  BY <1>2, <1>3, FS_EmptySet, BrokerAssumption DEF CallsCharged
<1>. QED
  BY <1>1, <1>2, <1>4, InitBrokerInv
     DEF RecordsInv, AttemptsRecorded, DecisionsOK, OkDecided, At

\* What the broker put on record agrees with what its executions did.
THEOREM BrokerRecords == BrokerSpec => []RecordsInv
<1>1. RecordsInv /\ [BrokerNext]_brokerVars => RecordsInv'
  BY NextRowsOK, NextOwnersPay, NextAttemptsRecorded, NextDecisionsOK, NextCallsCharged
     DEF RecordsInv, BrokerInv
<1>. QED BY <1>1, InitRecordsInv, PTL DEF BrokerSpec

\* No PUT goes out without its attempt on record and a tool call charged for
\* it, replies lost or not.
THEOREM BrokerAccountsEffects == BrokerSpec => []EffectsAccounted
<1>1. ASSUME RecordsInv PROVE EffectsAccounted
  <2>1. Sent \subseteq attempts
    BY <1>1 DEF RecordsInv, AttemptsRecorded, Sent
  <2>2. Sent \subseteq Payers
    BY DEF Sent, Payers, Charging
  <2>3. IsFiniteSet(Payers) /\ Cardinality(Payers) + toolCalls <= ToolCalls
    BY <1>1 DEF RecordsInv, CallsCharged
  <2>4. IsFiniteSet(Sent) /\ Cardinality(Sent) <= Cardinality(Payers)
    BY <2>2, <2>3, FS_Subset
  <2>5. Cardinality(Sent) \in Nat /\ Cardinality(Payers) \in Nat
    BY <2>3, <2>4, FS_CardinalityType
  <2>6. toolCalls \in Nat /\ ToolCalls \in Nat
    BY <1>1, BrokerAssumption DEF RecordsInv, BrokerInv, BrokerTypeOK
  <2>. QED BY <2>1, <2>3, <2>4, <2>5, <2>6 DEF EffectsAccounted
<1>. QED BY <1>1, BrokerRecords, PTL

\* Every decision on record is true of what was sent and consumed, each charge
\* in them was made, and ok is never returned without an allowed decision.
THEOREM BrokerDecidesTruthfully == BrokerSpec => []DecisionsTruthful
<1>1. ASSUME RecordsInv PROVE DecisionsTruthful
  <2> DEFINE Tools == {d \in decisions : d.tool}
             attemptOf == [d \in Tools |-> d.attempt]
  <2>1. \A d \in decisions :
            /\ d.allowed /\ Merges(d.attempt) => puts[d.attempt] = "merged"
            /\ d.approval => UnitOf(d.attempt) \in SpentUnits
            /\ d.guardian # "preserved" =>
                ~d.allowed /\ ~d.tool /\ ~d.approval /\ puts[d.attempt] = "unsent"
    BY <1>1 DEF RecordsInv, DecisionsOK, DecisionOK
  <2>2. IsFiniteSet(Payers) /\ Cardinality(Payers) + toolCalls <= ToolCalls
    BY <1>1 DEF RecordsInv, CallsCharged
  <2>3. attemptOf \in Injection(Tools, Payers)
    <3>1. \A d \in Tools : d.attempt \in Payers
      BY <1>1 DEF RecordsInv, BrokerInv, BrokerTypeOK, DecisionRows, Payers, Charging
    <3>2. \A c, d \in Tools : attemptOf[c] = attemptOf[d] => c = d
      BY <1>1 DEF RecordsInv, DecisionsOK
    <3>. QED BY <3>1, <3>2 DEF Injection, IsInjective
  <2>4. IsFiniteSet(Tools) /\ Cardinality(Tools) <= Cardinality(Payers)
    <3>. HIDE DEF Tools, attemptOf
    <3>. QED BY <2>2, <2>3, FS_Injection
  <2>5. Cardinality(Tools) \in Nat /\ Cardinality(Payers) \in Nat
    <3>. HIDE DEF Tools
    <3>. QED BY <2>2, <2>4, FS_CardinalityType
  <2>6. toolCalls \in Nat /\ ToolCalls \in Nat
    BY <1>1, BrokerAssumption DEF RecordsInv, BrokerInv, BrokerTypeOK
  <2>7. Cardinality(Tools) + toolCalls <= ToolCalls
    <3>. HIDE DEF Tools
    <3>. QED BY <2>2, <2>4, <2>5, <2>6
  <2>. QED BY <1>1, <2>1, <2>7 DEF DecisionsTruthful, RecordsInv, OkDecided
<1>. QED BY <1>1, BrokerRecords, PTL
=============================================================================
