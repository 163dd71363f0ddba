--------------------------- MODULE DemoBudgetProofs ---------------------------
(* Theorems about DemoBudget, for every set of journeys, every policy an    *)
(* operator may put in force and every bound.                               *)
EXTENDS DemoBudget, FiniteSums

-----------------------------------------------------------------------------
(* The ledger's transactions.                                               *)

Tables == [Journeys -> LedgerRows]

\* The row of an admission.
Fresh(p) ==
    [state |-> "reserved", admittedAt |-> clock, expiresAt |-> clock + p.ttl,
     preauthorized |-> p.perJourney, unitPrice |-> prices.unitPrice, charged |-> 0]

LEMMA CommittedNat == ASSUME NEW row \in LedgerRows PROVE Committed(row) \in Nat
BY DEF LedgerRows, Committed

LEMMA CommittedAdds ==
    ASSUME NEW table \in Tables, NEW S \in SUBSET Journeys, IsFiniteSet(S),
           NEW j \in Journeys \ S
    PROVE  /\ CommittedBy(table, S \cup {j}) = CommittedBy(table, S) + Committed(table[j])
           /\ CommittedBy(table, S) \in Nat
<1> DEFINE f == [k \in S \cup {j} |-> Committed(table[k])]
           g == [k \in S |-> Committed(table[k])]
<1>1. f \in [S \cup {j} -> Nat] /\ g = [k \in S |-> f[k]] /\ f[j] = Committed(table[j])
  BY CommittedNat DEF Tables
<1>2. SumFunction(f) = f[j] + SumFunction(g) /\ SumFunction(g) \in Nat
  <2>1. PICK ff, gg : ff = f /\ gg = g
    OBVIOUS
  <2>2. /\ ff \in [S \cup {j} -> Nat] /\ gg = [k \in S |-> ff[k]]
        /\ j \notin S /\ IsFiniteSet(S)
    <3>. HIDE DEF f, g
    <3>. QED BY <1>1, <2>1
  <2>3. SumFunction(ff) = ff[j] + SumFunction(gg) /\ SumFunction(gg) \in Nat
    BY <2>2, SumAdds
  <2>. HIDE DEF f, g
  <2>. QED BY <2>1, <2>3
<1>3. CommittedBy(table, S \cup {j}) = SumFunction(f) /\ CommittedBy(table, S) = SumFunction(g)
  BY DEF CommittedBy
<1>4. f[j] \in Nat
  BY <1>1
<1>. HIDE DEF f, g
<1>. QED BY <1>1, <1>2, <1>3, <1>4

LEMMA CommittedLess ==
    ASSUME NEW table \in Tables, NEW after \in Tables, NEW S \in SUBSET Journeys, IsFiniteSet(S),
           \A k \in S : Committed(after[k]) <= Committed(table[k])
    PROVE  CommittedBy(after, S) <= CommittedBy(table, S)
<1> DEFINE f == [k \in S |-> Committed(after[k])]
           g == [k \in S |-> Committed(table[k])]
<1>1. f \in [S -> Nat] /\ g \in [S -> Nat] /\ \A k \in S : f[k] <= g[k]
  BY CommittedNat DEF Tables
<1>2. SumFunction(f) <= SumFunction(g)
  <2>. HIDE DEF f, g
  <2>. QED BY <1>1, SumLess
<1>. QED BY <1>2 DEF CommittedBy

LEMMA CommittedSame ==
    ASSUME NEW table, NEW after, NEW S, \A k \in S : Committed(after[k]) = Committed(table[k])
    PROVE  CommittedBy(after, S) = CommittedBy(table, S)
<1>1. [k \in S |-> Committed(after[k])] = [k \in S |-> Committed(table[k])]
  OBVIOUS
<1>. QED BY <1>1 DEF CommittedBy

\* A forfeiture changes neither what was admitted nor what it commits.
LEMMA ExpireOK ==
    ASSUME NEW table \in Tables
    PROVE  /\ Expire(table) \in Tables
           /\ Admitted(Expire(table)) = Admitted(table)
           /\ \A day : AdmittedOn(Expire(table), day) = AdmittedOn(table, day)
           /\ Reserved(Expire(table)) \subseteq Reserved(table)
           /\ \A S \in SUBSET Journeys : CommittedBy(Expire(table), S) = CommittedBy(table, S)
           /\ \A j \in Journeys :
                /\ Expire(table)[j].admittedAt = table[j].admittedAt
                /\ Expire(table)[j].state = "absent" <=> table[j].state = "absent"
                /\ \/ Expire(table)[j] = table[j]
                   \/ /\ table[j].state = "reserved"
                      /\ Expire(table)[j] = [table[j] EXCEPT !.state = "forfeited",
                                                             !.charged = table[j].preauthorized]
<1> DEFINE after == Expire(table)
<1>1. after \in Tables
  BY DEF Expire, Tables, LedgerRows, ReservationStates
<1>2. ASSUME NEW j \in Journeys
      PROVE  \/ after[j] = table[j]
             \/ /\ table[j].state = "reserved"
                /\ after[j] = [table[j] EXCEPT !.state = "forfeited",
                                               !.charged = table[j].preauthorized]
  BY DEF Expire
<1>3. ASSUME NEW j \in Journeys
      PROVE  /\ after[j].admittedAt = table[j].admittedAt
             /\ after[j].state = "absent" <=> table[j].state = "absent"
             /\ after[j].state = "reserved" => table[j].state = "reserved"
             /\ Committed(after[j]) = Committed(table[j])
  <2>1. table[j] \in LedgerRows
    BY DEF Tables
  <2>2. CASE after[j] = table[j]
    BY <2>2
  <2>3. CASE after[j] # table[j]
    <3>1. /\ table[j].state = "reserved" /\ after[j].state = "forfeited"
          /\ after[j].charged = table[j].preauthorized
          /\ after[j].admittedAt = table[j].admittedAt
      BY <1>2, <2>1, <2>3 DEF LedgerRows
    <3>. HIDE DEF after
    <3>. QED BY <3>1 DEF Committed
  <2>. QED BY <2>2, <2>3
<1>. HIDE DEF after
<1>4. \A S \in SUBSET Journeys : CommittedBy(after, S) = CommittedBy(table, S)
  BY <1>3, CommittedSame
<1>5. /\ Admitted(after) = Admitted(table)
      /\ \A day : AdmittedOn(after, day) = AdmittedOn(table, day)
      /\ Reserved(after) \subseteq Reserved(table)
  BY <1>3 DEF Admitted, AdmittedOn, Reserved
<1>. QED BY <1>1, <1>2, <1>3, <1>4, <1>5 DEF after

LEMMA ReserveOK ==
    ASSUME NEW p \in Policies, NEW table \in Tables, NEW j \in Journeys,
           table[j].state = "absent",
           clock \in Nat, prices \in [unitPrice: UnitPrices, expiresAt: Nat]
    PROVE  /\ Reserve(p, table, j) = [table EXCEPT ![j] = Fresh(p)]
           /\ Fresh(p) \in LedgerRows
           /\ Reserve(p, table, j) \in Tables
           /\ Admitted(Reserve(p, table, j)) = Admitted(table) \cup {j}
           /\ AdmittedOn(Reserve(p, table, j), Day(clock)) = AdmittedOn(table, Day(clock)) \cup {j}
           /\ Reserved(Reserve(p, table, j)) = Reserved(table) \cup {j}
           /\ j \notin Admitted(table)
<1> DEFINE after == Reserve(p, table, j)
<1>1. after = [table EXCEPT ![j] = Fresh(p)]
  BY DEF Reserve, Fresh
<1>2. p.ttl \in Nat /\ p.perJourney \in Nat
  BY PoliciesAssumption DEF PolicyRecords
<1>3. Fresh(p) \in LedgerRows /\ Fresh(p).state = "reserved" /\ Fresh(p).admittedAt = clock
  BY <1>2 DEF Fresh, LedgerRows, ReservationStates
<1>4. after \in Tables
  BY <1>1, <1>3 DEF Tables
<1>5. \A k \in Journeys : after[k] = IF k = j THEN Fresh(p) ELSE table[k]
  BY <1>1 DEF Tables
<1>. HIDE DEF after
<1>6. /\ Admitted(after) = Admitted(table) \cup {j}
      /\ AdmittedOn(after, Day(clock)) = AdmittedOn(table, Day(clock)) \cup {j}
      /\ Reserved(after) = Reserved(table) \cup {j}
      /\ j \notin Admitted(table)
  BY <1>3, <1>5 DEF Admitted, AdmittedOn, Reserved
<1>. QED BY <1>1, <1>3, <1>4, <1>6 DEF after

-----------------------------------------------------------------------------
(* The limits of a policy.                                                  *)

\* What BudgetHolds says of a table in which a step admitted some journeys.
Within(p, table, admitted) ==
    LET today == AdmittedOn(table, Day(clock)) IN
    /\ admitted # {} =>
        /\ p.enabled
        /\ CommittedBy(table, Admitted(table)) <= p.total
        /\ CommittedBy(table, today) <= p.daily
        /\ Cardinality(Admitted(table)) <= p.totalJourneys
        /\ Cardinality(today) <= p.dailyJourneys
        /\ Cardinality(Reserved(table)) <= p.concurrent
    /\ \A j \in admitted :
        /\ Cardinality(FromSource(table, j)) <= p.perSource
        /\ \A k \in FromSource(table, j) \ {j} : clock >= table[k].admittedAt + p.cooldown

\* The number of journeys grows by one.
LEMMA CountAdds ==
    ASSUME NEW S, IsFiniteSet(S), NEW x, NEW n \in Nat, Cardinality(S) < n
    PROVE  Cardinality(S \cup {x}) <= n
<1>1. Cardinality(S) \in Nat
  BY FS_CardinalityType
<1>2. Cardinality(S \cup {x}) = IF x \in S THEN Cardinality(S) ELSE Cardinality(S) + 1
  BY FS_AddElement
<1>. QED BY <1>1, <1>2

LEMMA LimitsNat ==
    ASSUME NEW p \in Policies
    PROVE  /\ p.total \in Nat /\ p.daily \in Nat /\ p.perJourney \in Nat
           /\ p.totalJourneys \in Nat /\ p.dailyJourneys \in Nat /\ p.perSource \in Nat
           /\ p.concurrent \in Nat /\ p.cooldown \in Nat /\ p.ttl \in Nat \ {0}
           /\ p.enabled \in BOOLEAN /\ p.queueTimeout \in Nat
BY PoliciesAssumption DEF PolicyRecords

LEMMA ExpireWithin ==
    ASSUME NEW p \in Policies, NEW table \in Tables, IsFiniteSet(Admitted(table)),
           NEW admitted \in SUBSET Admitted(table), Within(p, table, admitted)
    PROVE  Within(p, Expire(table), admitted)
<1> DEFINE after == Expire(table)
<1>1. /\ Admitted(after) = Admitted(table)
      /\ AdmittedOn(after, Day(clock)) = AdmittedOn(table, Day(clock))
      /\ Reserved(after) \subseteq Reserved(table)
      /\ CommittedBy(after, Admitted(table)) = CommittedBy(table, Admitted(table))
      /\ CommittedBy(after, AdmittedOn(table, Day(clock))) = CommittedBy(table, AdmittedOn(table, Day(clock)))
      /\ \A j \in Journeys : after[j].admittedAt = table[j].admittedAt
  <2>1. Admitted(table) \in SUBSET Journeys /\ AdmittedOn(table, Day(clock)) \in SUBSET Journeys
    BY DEF Admitted, AdmittedOn
  <2>. QED BY <2>1, ExpireOK
<1>. HIDE DEF after
<1>2. admitted # {} => Cardinality(Reserved(after)) <= p.concurrent
  <2>1. IsFiniteSet(Reserved(table))
    <3>1. Reserved(table) \subseteq Admitted(table)
      BY DEF Reserved, Admitted
    <3>. QED BY <3>1, FS_Subset
  <2>2. /\ Cardinality(Reserved(after)) <= Cardinality(Reserved(table))
        /\ Cardinality(Reserved(after)) \in Nat /\ Cardinality(Reserved(table)) \in Nat
    BY <1>1, <2>1, FS_Subset, FS_CardinalityType
  <2>3. admitted # {} => Cardinality(Reserved(table)) <= p.concurrent
    BY DEF Within
  <2>. QED BY <2>2, <2>3, LimitsNat
<1>3. \A j : FromSource(after, j) = FromSource(table, j)
  BY <1>1 DEF FromSource
<1>4. \A j : \A k \in FromSource(table, j) : k \in Journeys
  BY DEF FromSource, AdmittedOn, Admitted
<1>. QED BY <1>1, <1>2, <1>3, <1>4 DEF Within, after

\* An admission that is not denied keeps within the policy.
LEMMA AdmissionWithin ==
    ASSUME NEW p \in Policies, NEW table \in Tables, IsFiniteSet(Admitted(table)),
           clock \in Nat, prices \in [unitPrice: UnitPrices, expiresAt: Nat],
           NEW j \in Journeys, ~Denies(p, table, j), ~Crowded(p, table),
           NEW admitted \in SUBSET Admitted(table), Within(p, table, admitted),
           \A k \in admitted : table[k].admittedAt = clock
    PROVE  /\ Within(p, Reserve(p, table, j), admitted \cup {j})
           /\ IsFiniteSet(Admitted(Reserve(p, table, j)))
<1> DEFINE after == Reserve(p, table, j)
           today == AdmittedOn(table, Day(clock))
<1>1. table[j].state = "absent" /\ j \notin Admitted(table)
  BY DEF Denies, Admitted
<1>2. /\ after = [table EXCEPT ![j] = Fresh(p)]
      /\ after \in Tables /\ Fresh(p) \in LedgerRows
      /\ Admitted(after) = Admitted(table) \cup {j}
      /\ AdmittedOn(after, Day(clock)) = today \cup {j}
      /\ Reserved(after) = Reserved(table) \cup {j}
  BY <1>1, ReserveOK
<1>3. after[j] = Fresh(p) /\ \A k \in Journeys \ {j} : after[k] = table[k]
  BY <1>2 DEF Tables
<1>4. Committed(Fresh(p)) = p.perJourney /\ Fresh(p).admittedAt = clock
  BY DEF Fresh, Committed
<1>5. /\ Admitted(table) \in SUBSET Journeys
      /\ today \in SUBSET Admitted(table) /\ Reserved(table) \in SUBSET Admitted(table)
      /\ \A k : FromSource(table, k) \in SUBSET today
  BY DEF Admitted, AdmittedOn, Reserved, FromSource
<1>6. /\ IsFiniteSet(today) /\ IsFiniteSet(Reserved(table))
      /\ \A k : IsFiniteSet(FromSource(table, k))
  <2>. HIDE DEF today
  <2>. QED BY <1>5, FS_Subset
<1>. HIDE DEF after, today
<1>7. ASSUME NEW S \in SUBSET Admitted(table), IsFiniteSet(S), NEW n,
             ~(CommittedBy(table, S) + p.perJourney > n), n \in Nat
      PROVE  CommittedBy(after, S \cup {j}) <= n
  <2>1. S \in SUBSET Journeys /\ j \in Journeys \ S
    BY <1>1, <1>5, <1>7
  <2>2. /\ CommittedBy(after, S \cup {j}) = CommittedBy(after, S) + p.perJourney
        /\ CommittedBy(after, S) \in Nat
    <3>1. after \in Tables /\ IsFiniteSet(S)
      BY <1>2, <1>7
    <3>2. /\ CommittedBy(after, S \cup {j}) = CommittedBy(after, S) + Committed(after[j])
          /\ CommittedBy(after, S) \in Nat
      BY <2>1, <3>1, CommittedAdds
    <3>3. Committed(after[j]) = p.perJourney
      BY <1>3, <1>4
    <3>. QED BY <3>2, <3>3
  <2>3. CommittedBy(after, S) = CommittedBy(table, S)
    <3>1. \A k \in S : Committed(after[k]) = Committed(table[k])
      BY <1>3, <2>1
    <3>. QED BY <3>1, CommittedSame
  <2>. QED BY <1>7, <2>2, <2>3, LimitsNat
<1>8. CommittedBy(after, Admitted(after)) <= p.total /\ CommittedBy(after, today \cup {j}) <= p.daily
  <2>1. /\ ~(CommittedBy(table, Admitted(table)) + p.perJourney > p.total)
        /\ ~(CommittedBy(table, today) + p.perJourney > p.daily)
    BY DEF Denies, today
  <2>. QED BY <1>2, <1>5, <1>6, <1>7, <2>1, LimitsNat
<1>9. /\ Cardinality(Admitted(after)) <= p.totalJourneys
      /\ Cardinality(today \cup {j}) <= p.dailyJourneys
      /\ Cardinality(Reserved(after)) <= p.concurrent
      /\ Cardinality(FromSource(table, j) \cup {j}) <= p.perSource
  <2>1. /\ ~(Cardinality(Admitted(table)) >= p.totalJourneys)
        /\ ~(Cardinality(today) >= p.dailyJourneys)
        /\ ~(Cardinality(FromSource(table, j)) >= p.perSource)
        /\ ~(Cardinality(Reserved(table)) >= p.concurrent)
    BY DEF Denies, Crowded, today
  <2>2. ASSUME NEW S, IsFiniteSet(S), NEW n \in Nat, ~(Cardinality(S) >= n)
        PROVE  Cardinality(S \cup {j}) <= n
    <3>1. Cardinality(S) < n
      BY <2>2, FS_CardinalityType
    <3>. QED BY <2>2, <3>1, CountAdds
  <2>. QED BY <1>2, <1>6, <2>1, <2>2, LimitsNat
<1>10. ASSUME NEW i \in admitted \cup {j}
       PROVE  /\ Cardinality(FromSource(after, i)) <= p.perSource
              /\ \A k \in FromSource(after, i) \ {i} : clock >= after[k].admittedAt + p.cooldown
  <2>1. FromSource(after, i) = FromSource(table, i) \cup (IF SourceOf[i] = SourceOf[j] THEN {j} ELSE {})
    BY <1>2 DEF FromSource, today
  <2>2. \A k \in FromSource(table, j) : clock >= table[k].admittedAt + p.cooldown
    <3>1. \A k \in FromSource(table, j) : ~(clock < table[k].admittedAt + p.cooldown)
      BY DEF Denies
    <3>2. \A k \in FromSource(table, j) : table[k].admittedAt \in Nat
      BY <1>5 DEF Tables, LedgerRows
    <3>. QED BY <3>1, <3>2, LimitsNat
  <2>3. CASE i = j
    <3>1. FromSource(after, i) = FromSource(table, j) \cup {j}
      BY <2>1, <2>3
    <3>2. \A k \in FromSource(table, j) : after[k] = table[k]
      BY <1>1, <1>3, <1>5
    <3>. QED BY <1>9, <2>2, <2>3, <3>1, <3>2
  <2>4. CASE i # j
    <3>1. i \in admitted /\ i \in Admitted(table) /\ table[i].admittedAt = clock
      BY <1>10, <2>4
    <3>2. /\ Cardinality(FromSource(table, i)) <= p.perSource
          /\ \A k \in FromSource(table, i) \ {i} : clock >= table[k].admittedAt + p.cooldown
      BY <3>1 DEF Within
    <3>3. \A k \in FromSource(table, i) : after[k] = table[k]
      BY <1>1, <1>3, <1>5
    <3>4. CASE SourceOf[i] # SourceOf[j]
      BY <2>1, <3>2, <3>3, <3>4
    <3>5. CASE SourceOf[i] = SourceOf[j]
      <4>1. FromSource(table, i) = FromSource(table, j) /\ i \in FromSource(table, j)
        BY <3>1, <3>5 DEF FromSource, AdmittedOn
      <4>2. FromSource(after, i) = FromSource(table, j) \cup {j}
        BY <2>1, <3>5, <4>1
      <4>3. clock >= clock + p.cooldown
        BY <2>2, <3>1, <4>1
      <4>4. after[j].admittedAt = clock
        BY <1>3, <1>4
      <4>. QED BY <1>9, <2>2, <3>3, <4>1, <4>2, <4>3, <4>4
    <3>. QED BY <3>4, <3>5
  <2>. QED BY <2>3, <2>4
<1>11. p.enabled
  BY DEF Denies
<1>12. IsFiniteSet(Admitted(after))
  <2>1. IsFiniteSet(Admitted(table) \cup {j})
    BY FS_AddElement
  <2>2. Admitted(after) = Admitted(table) \cup {j}
    BY <1>2
  <2>. QED BY <2>1, <2>2, Zenon
<1>. QED BY <1>2, <1>8, <1>9, <1>10, <1>11, <1>12 DEF Within, after, today

-----------------------------------------------------------------------------
(* The queue.                                                               *)

Results == [rows: Tables, queue: Seq(Waiters), blocked: BOOLEAN,
            admitted: SUBSET Journeys, refused: SUBSET Journeys]

\* A row is left alone, or forfeited.
Kept(table, after, j) ==
    \/ after[j] = table[j]
    \/ /\ table[j].state = "reserved"
       /\ after[j] = [table[j] EXCEPT !.state = "forfeited", !.charged = table[j].preauthorized]

\* What the drain of a queue has done once it has seen its first n waiters.
DrainSoFar(p, table, pending, n, acc) ==
    /\ acc \in Results
    /\ \A j \in acc.admitted : table[j].state = "absent" /\ acc.rows[j] = Fresh(p)
    /\ \A j \in Journeys \ acc.admitted : Kept(table, acc.rows, j)
    /\ IsFiniteSet(Admitted(acc.rows))
    /\ Within(p, acc.rows, acc.admitted)
    /\ \A j \in acc.admitted \cup acc.refused : \E i \in 1..n : pending[i].journey = j
    /\ \A i \in 1..n : \/ pending[i].journey \in acc.admitted \cup acc.refused
                       \/ \E k \in DOMAIN acc.queue : acc.queue[k] = pending[i]
    /\ \A k \in DOMAIN acc.queue :
        /\ acc.queue[k].journey \notin acc.admitted
        /\ \E i \in 1..n : acc.queue[k] = pending[i]
        /\ \A m \in DOMAIN acc.queue : acc.queue[m].journey = acc.queue[k].journey => m = k

\* Every journey is queued once.
QueuedOnce(pending) ==
    \A i, k \in DOMAIN pending : pending[i].journey = pending[k].journey => i = k

\* The three things the loop does with the head of the queue.
Keeps(acc, waiter, next) ==
    \/ acc.blocked /\ next = [acc EXCEPT !.queue = Append(@, waiter)]
    \/ next = [acc EXCEPT !.rows = Expire(acc.rows), !.blocked = TRUE, !.queue = Append(@, waiter)]
Refuses(acc, waiter, next) ==
    next = [acc EXCEPT !.rows = Expire(acc.rows), !.refused = @ \cup {waiter.journey}]
Admits(p, acc, waiter, next) ==
    /\ ~Denies(p, Expire(acc.rows), waiter.journey)
    /\ ~Crowded(p, Expire(acc.rows))
    /\ next = [acc EXCEPT !.rows = Reserve(p, Expire(acc.rows), waiter.journey),
                          !.admitted = @ \cup {waiter.journey}]

LEMMA DrainHeadCases ==
    ASSUME NEW p, NEW acc, NEW waiter
    PROVE  LET next == DrainHead(p, acc, waiter) IN
           Keeps(acc, waiter, next) \/ Refuses(acc, waiter, next) \/ Admits(p, acc, waiter, next)
BY DEF DrainHead, Keeps, Refuses, Admits

\* The rows once expired ones are forfeited again.
LEMMA ExpireSoFar ==
    ASSUME NEW p \in Policies, NEW table \in Tables, NEW pending, NEW n, NEW acc,
           clock \in Nat, DrainSoFar(p, table, pending, n, acc)
    PROVE  /\ Expire(acc.rows) \in Tables
           /\ \A j \in acc.admitted : Expire(acc.rows)[j] = Fresh(p)
           /\ \A j \in Journeys \ acc.admitted : Kept(table, Expire(acc.rows), j)
           /\ Admitted(Expire(acc.rows)) = Admitted(acc.rows)
           /\ IsFiniteSet(Admitted(Expire(acc.rows)))
           /\ acc.admitted \in SUBSET Admitted(acc.rows)
           /\ Within(p, Expire(acc.rows), acc.admitted)
<1>1. /\ acc.rows \in Tables /\ acc.admitted \in SUBSET Journeys
      /\ \A j \in acc.admitted : acc.rows[j] = Fresh(p)
      /\ \A j \in Journeys \ acc.admitted : Kept(table, acc.rows, j)
      /\ IsFiniteSet(Admitted(acc.rows)) /\ Within(p, acc.rows, acc.admitted)
  BY DEF DrainSoFar, Results
<1>2. \A j \in acc.admitted : Expire(acc.rows)[j] = Fresh(p)
  <2>. SUFFICES ASSUME NEW j \in acc.admitted PROVE Expire(acc.rows)[j] = Fresh(p)
    OBVIOUS
  <2>1. acc.rows[j] = Fresh(p) /\ j \in Journeys
    BY <1>1
  <2>2. ~(Fresh(p).expiresAt <= clock)
    BY LimitsNat DEF Fresh
  <2>. QED BY <2>1, <2>2 DEF Expire
<1>3. \A j \in Journeys \ acc.admitted : Kept(table, Expire(acc.rows), j)
  <2>. SUFFICES ASSUME NEW j \in Journeys \ acc.admitted PROVE Kept(table, Expire(acc.rows), j)
    OBVIOUS
  <2>1. Kept(table, acc.rows, j) /\ table[j] \in LedgerRows
    BY <1>1 DEF Tables
  <2>2. Expire(acc.rows)[j] = acc.rows[j] \/ acc.rows[j].state = "reserved"
    BY DEF Expire
  <2>3. CASE Expire(acc.rows)[j] = acc.rows[j]
    BY <2>1, <2>3 DEF Kept
  <2>4. CASE Expire(acc.rows)[j] # acc.rows[j]
    <3>1. acc.rows[j].state = "reserved"
      BY <2>2, <2>4
    <3>2. acc.rows[j] = table[j]
      BY <2>1, <3>1 DEF Kept, LedgerRows
    <3>3. Expire(acc.rows)[j] = [table[j] EXCEPT !.state = "forfeited",
                                                 !.charged = table[j].preauthorized]
      BY <2>4, <3>2 DEF Expire
    <3>. QED BY <3>1, <3>2, <3>3 DEF Kept
  <2>. QED BY <2>3, <2>4
<1>4. acc.admitted \in SUBSET Admitted(acc.rows)
  BY <1>1 DEF Admitted, Fresh
<1>5. Admitted(Expire(acc.rows)) = Admitted(acc.rows) /\ Expire(acc.rows) \in Tables
  BY <1>1, ExpireOK
<1>6. Within(p, Expire(acc.rows), acc.admitted)
  BY <1>1, <1>4, ExpireWithin
<1>. QED BY <1>1, <1>2, <1>3, <1>4, <1>5, <1>6, Zenon

LEMMA DrainKeeps ==
    ASSUME NEW p \in Policies, NEW table \in Tables, NEW pending \in Seq(Waiters),
           QueuedOnce(pending), clock \in Nat,
           NEW n \in Nat, n + 1 \in DOMAIN pending, NEW acc,
           DrainSoFar(p, table, pending, n, acc), NEW next, Keeps(acc, pending[n + 1], next)
    PROVE  DrainSoFar(p, table, pending, n + 1, next)
<1>. DEFINE w == pending[n + 1]
<1>1. acc \in Results /\ w \in Waiters
  BY DEF DrainSoFar
<1>2. /\ next.admitted = acc.admitted /\ next.refused = acc.refused
      /\ next.queue = Append(acc.queue, w)
      /\ next.rows = acc.rows \/ next.rows = Expire(acc.rows)
      /\ next \in Results
  <2>1. Expire(acc.rows) \in Tables
    BY ExpireSoFar
  <2>2. acc.queue \in Seq(Waiters) /\ Append(acc.queue, w) \in Seq(Waiters)
    <3>1. acc.queue \in Seq(Waiters)
      BY <1>1 DEF Results
    <3>. QED BY <1>1, <3>1
  <2>3. CASE acc.blocked /\ next = [acc EXCEPT !.queue = Append(@, w)]
    BY <1>1, <2>2, <2>3 DEF Results
  <2>4. CASE next = [acc EXCEPT !.rows = Expire(acc.rows), !.blocked = TRUE,
                                !.queue = Append(@, w)]
    BY <1>1, <2>1, <2>2, <2>4 DEF Results
  <2>. QED BY <2>3, <2>4 DEF Keeps
<1>3. /\ \A j \in next.admitted : table[j].state = "absent" /\ next.rows[j] = Fresh(p)
      /\ \A j \in Journeys \ next.admitted : Kept(table, next.rows, j)
      /\ IsFiniteSet(Admitted(next.rows)) /\ Within(p, next.rows, next.admitted)
  <2>1. CASE next.rows = acc.rows
    BY <1>2, <2>1 DEF DrainSoFar
  <2>2. CASE next.rows = Expire(acc.rows)
    <3>1. \A j \in acc.admitted : table[j].state = "absent"
      BY DEF DrainSoFar
    <3>. QED BY <1>2, <2>2, <3>1, ExpireSoFar
  <2>. QED BY <1>2, <2>1, <2>2
<1>4. acc.queue \in Seq(Waiters)
  BY <1>1 DEF Results
<1>5. /\ DOMAIN next.queue = 1..(Len(acc.queue) + 1)
      /\ DOMAIN acc.queue = 1..Len(acc.queue) /\ Len(acc.queue) \in Nat
      /\ next.queue[Len(acc.queue) + 1] = w
      /\ \A k \in DOMAIN acc.queue : next.queue[k] = acc.queue[k] /\ k \in DOMAIN next.queue
  BY <1>2, <1>4
<1>6. \A i \in 1..n : i \in DOMAIN pending /\ pending[i].journey # w.journey
  BY DEF QueuedOnce
<1>7. \A j \in next.admitted \cup next.refused : \E i \in 1..(n + 1) : pending[i].journey = j
  BY <1>2 DEF DrainSoFar
<1>8. \A i \in 1..(n + 1) : \/ pending[i].journey \in next.admitted \cup next.refused
                            \/ \E k \in DOMAIN next.queue : next.queue[k] = pending[i]
  <2>. SUFFICES ASSUME NEW i \in 1..(n + 1), pending[i].journey \notin acc.admitted \cup acc.refused
                PROVE  \E k \in DOMAIN next.queue : next.queue[k] = pending[i]
    BY <1>2
  <2>1. CASE i = n + 1
    BY <1>5, <2>1
  <2>2. CASE i # n + 1
    <3>1. \E k \in DOMAIN acc.queue : acc.queue[k] = pending[i]
      BY <2>2 DEF DrainSoFar
    <3>. QED BY <1>5, <3>1
  <2>. QED BY <2>1, <2>2
<1>9. ASSUME NEW k \in DOMAIN next.queue
      PROVE  /\ next.queue[k].journey \notin next.admitted
             /\ \E i \in 1..(n + 1) : next.queue[k] = pending[i]
             /\ \A m \in DOMAIN next.queue : next.queue[m].journey = next.queue[k].journey => m = k
  <2>1. \A m \in DOMAIN acc.queue :
            /\ acc.queue[m].journey \notin acc.admitted
            /\ \E i \in 1..n : acc.queue[m] = pending[i]
            /\ \A l \in DOMAIN acc.queue : acc.queue[l].journey = acc.queue[m].journey => l = m
    BY DEF DrainSoFar
  <2>2. \A m \in DOMAIN acc.queue : acc.queue[m].journey # w.journey
    BY <1>6, <2>1
  <2>3. w.journey \notin acc.admitted
    <3>1. \A j \in acc.admitted : \E i \in 1..n : pending[i].journey = j
      BY DEF DrainSoFar
    <3>. QED BY <1>6, <3>1
  <2>4. CASE k = Len(acc.queue) + 1
    BY <1>2, <1>5, <2>2, <2>3, <2>4
  <2>5. CASE k \in DOMAIN acc.queue
    <3>1. \A m \in DOMAIN next.queue : m \in DOMAIN acc.queue \/ m = Len(acc.queue) + 1
      BY <1>5
    <3>. QED BY <1>2, <1>5, <2>1, <2>2, <2>5, <3>1
  <2>. QED BY <1>5, <2>4, <2>5
<1>. QED BY <1>2, <1>3, <1>7, <1>8, <1>9 DEF DrainSoFar

LEMMA DrainRefuses ==
    ASSUME NEW p \in Policies, NEW table \in Tables, NEW pending \in Seq(Waiters),
           QueuedOnce(pending), clock \in Nat,
           NEW n \in Nat, n + 1 \in DOMAIN pending, NEW acc,
           DrainSoFar(p, table, pending, n, acc), NEW next, Refuses(acc, pending[n + 1], next)
    PROVE  DrainSoFar(p, table, pending, n + 1, next)
<1>. DEFINE w == pending[n + 1]
<1>1. acc \in Results /\ w \in Waiters /\ w.journey \in Journeys
  <2>1. acc \in Results /\ w \in Waiters
    BY DEF DrainSoFar
  <2>. QED BY <2>1 DEF Waiters
<1>2. /\ next.admitted = acc.admitted /\ next.refused = acc.refused \cup {w.journey}
      /\ next.queue = acc.queue /\ next.rows = Expire(acc.rows)
      /\ next \in Results
  <2>1. Expire(acc.rows) \in Tables
    BY ExpireSoFar
  <2>. QED BY <1>1, <2>1 DEF Refuses, Results
<1>3. /\ \A j \in next.admitted : table[j].state = "absent" /\ next.rows[j] = Fresh(p)
      /\ \A j \in Journeys \ next.admitted : Kept(table, next.rows, j)
      /\ IsFiniteSet(Admitted(next.rows)) /\ Within(p, next.rows, next.admitted)
  <2>1. \A j \in acc.admitted : table[j].state = "absent"
    BY DEF DrainSoFar
  <2>. QED BY <1>2, <2>1, ExpireSoFar
<1>4. \A j \in next.admitted \cup next.refused : \E i \in 1..(n + 1) : pending[i].journey = j
  <2>1. \A j \in acc.admitted \cup acc.refused : \E i \in 1..n : pending[i].journey = j
    BY DEF DrainSoFar
  <2>2. \A i \in 1..n : i \in 1..(n + 1)
    OBVIOUS
  <2>. QED BY <1>2, <2>1, <2>2
<1>5. \A i \in 1..(n + 1) : \/ pending[i].journey \in next.admitted \cup next.refused
                            \/ \E k \in DOMAIN next.queue : next.queue[k] = pending[i]
  BY <1>2 DEF DrainSoFar
<1>6. \A k \in DOMAIN next.queue :
        /\ next.queue[k].journey \notin next.admitted
        /\ \E i \in 1..(n + 1) : next.queue[k] = pending[i]
        /\ \A m \in DOMAIN next.queue : next.queue[m].journey = next.queue[k].journey => m = k
  BY <1>2 DEF DrainSoFar
<1>. QED BY <1>2, <1>3, <1>4, <1>5, <1>6 DEF DrainSoFar

LEMMA DrainAdmits ==
    ASSUME NEW p \in Policies, NEW table \in Tables, NEW pending \in Seq(Waiters),
           QueuedOnce(pending), clock \in Nat, prices \in [unitPrice: UnitPrices, expiresAt: Nat],
           NEW n \in Nat, n + 1 \in DOMAIN pending, NEW acc,
           DrainSoFar(p, table, pending, n, acc), NEW next, Admits(p, acc, pending[n + 1], next)
    PROVE  DrainSoFar(p, table, pending, n + 1, next)
<1>. DEFINE w == pending[n + 1]
            j == w.journey
<1>1. acc \in Results /\ w \in Waiters /\ j \in Journeys
  <2>1. acc \in Results /\ w \in Waiters
    BY DEF DrainSoFar
  <2>. QED BY <2>1 DEF Waiters
<1>2. PICK expired : expired = Expire(acc.rows)
  OBVIOUS
<1>3. /\ expired \in Tables
      /\ \A k \in acc.admitted : expired[k] = Fresh(p)
      /\ \A k \in Journeys \ acc.admitted : Kept(table, expired, k)
      /\ Admitted(expired) = Admitted(acc.rows)
      /\ IsFiniteSet(Admitted(expired))
      /\ acc.admitted \in SUBSET Admitted(expired)
      /\ Within(p, expired, acc.admitted)
  BY <1>2, ExpireSoFar
<1>4. ~Denies(p, expired, j) /\ ~Crowded(p, expired)
  BY <1>2 DEF Admits
<1>5. expired[j].state = "absent"
  BY <1>4 DEF Denies
<1>6. PICK after : after = Reserve(p, expired, j)
  OBVIOUS
<1>7. /\ after = [expired EXCEPT ![j] = Fresh(p)] /\ after \in Tables
  BY <1>1, <1>3, <1>5, <1>6, ReserveOK
<1>8. after[j] = Fresh(p) /\ \A k \in Journeys \ {j} : after[k] = expired[k]
  BY <1>1, <1>3, <1>7 DEF Tables
<1>9. /\ Within(p, after, acc.admitted \cup {j}) /\ IsFiniteSet(Admitted(after))
  <2>1. \A k \in acc.admitted : expired[k].admittedAt = clock
    BY <1>3 DEF Fresh
  <2>. QED BY <1>1, <1>3, <1>4, <1>6, <2>1, AdmissionWithin
<1>10. /\ next.admitted = acc.admitted \cup {j} /\ next.refused = acc.refused
       /\ next.queue = acc.queue /\ next.rows = after
       /\ next \in Results
  <2>1. next = [acc EXCEPT !.rows = after, !.admitted = @ \cup {j}]
    BY <1>2, <1>6 DEF Admits
  <2>. QED BY <1>1, <1>7, <2>1 DEF Results
<1>11. j \notin acc.admitted
  BY <1>3, <1>5 DEF Fresh
<1>12. table[j].state = "absent"
  <2>1. Kept(table, expired, j) /\ table[j] \in LedgerRows
    BY <1>1, <1>3, <1>11 DEF Tables
  <2>. QED BY <1>5, <2>1 DEF Kept, LedgerRows
<1>13. \A k \in next.admitted : table[k].state = "absent" /\ next.rows[k] = Fresh(p)
  <2>1. \A k \in acc.admitted : table[k].state = "absent" /\ k \in Journeys
    BY <1>1 DEF DrainSoFar, Results
  <2>. QED BY <1>3, <1>8, <1>10, <1>12, <2>1
<1>14. \A k \in Journeys \ next.admitted : Kept(table, next.rows, k)
  BY <1>3, <1>8, <1>10 DEF Kept
<1>15. \A k \in next.admitted \cup next.refused : \E i \in 1..(n + 1) : pending[i].journey = k
  <2>1. \A k \in acc.admitted \cup acc.refused : \E i \in 1..n : pending[i].journey = k
    BY DEF DrainSoFar
  <2>2. \A i \in 1..n : i \in 1..(n + 1)
    OBVIOUS
  <2>. QED BY <1>10, <2>1, <2>2
<1>16. \A i \in 1..(n + 1) : \/ pending[i].journey \in next.admitted \cup next.refused
                             \/ \E k \in DOMAIN next.queue : next.queue[k] = pending[i]
  BY <1>10 DEF DrainSoFar
<1>17. \A k \in DOMAIN next.queue :
        /\ next.queue[k].journey \notin next.admitted
        /\ \E i \in 1..(n + 1) : next.queue[k] = pending[i]
        /\ \A m \in DOMAIN next.queue : next.queue[m].journey = next.queue[k].journey => m = k
  <2>1. \A k \in DOMAIN acc.queue :
        /\ acc.queue[k].journey \notin acc.admitted
        /\ \E i \in 1..n : acc.queue[k] = pending[i]
        /\ \A m \in DOMAIN acc.queue : acc.queue[m].journey = acc.queue[k].journey => m = k
    BY DEF DrainSoFar
  <2>2. \A i \in 1..n : i \in DOMAIN pending /\ pending[i].journey # j
    BY DEF QueuedOnce
  <2>. QED BY <1>10, <2>1, <2>2
<1>. QED BY <1>9, <1>10, <1>13, <1>14, <1>15, <1>16, <1>17 DEF DrainSoFar

\* The recursive function of drain is defined, and its turns are the loop's.
LEMMA DrainRun ==
    ASSUME NEW p, NEW table, NEW pending \in Seq(Waiters)
    PROVE  \E after :
            /\ after[0] = Undrained(table, <<>>)
            /\ \A n \in 1..Len(pending) : after[n] = DrainHead(p, after[n - 1], pending[n])
            /\ Drain(p, table, pending) = after[Len(pending)]
<1> DEFINE N == Len(pending)
           Run(m, f) == f = [n \in 0..m |->
                IF n = 0 THEN Undrained(table, <<>>) ELSE DrainHead(p, f[n - 1], pending[n])]
           P == {m \in Nat : \E f : Run(m, f)}
<1>0. N \in Nat
  OBVIOUS
<1>1. 0 \in P
  <2>1. Run(0, [n \in 0..0 |-> Undrained(table, <<>>)])
    OBVIOUS
  <2>. QED BY <2>1
<1>2. ASSUME NEW m \in Nat, m \in P PROVE m + 1 \in P
  <2>1. PICK f : Run(m, f)
    BY <1>2
  <2>2. PICK g : g = [n \in 0..(m + 1) |->
            IF n \in 0..m THEN f[n] ELSE DrainHead(p, f[m], pending[m + 1])]
    OBVIOUS
  <2>3. \A n \in 0..(m + 1) :
            g[n] = IF n = 0 THEN Undrained(table, <<>>) ELSE DrainHead(p, g[n - 1], pending[n])
    <3>1. \A n \in 0..m : g[n] = f[n]
      BY <2>2
    <3>2. \A n \in 0..m :
            f[n] = IF n = 0 THEN Undrained(table, <<>>) ELSE DrainHead(p, f[n - 1], pending[n])
      BY <2>1
    <3>3. g[m + 1] = DrainHead(p, f[m], pending[m + 1])
      BY <2>2
    <3>4. g[m + 1] = DrainHead(p, g[m], pending[m + 1])
      BY <3>1, <3>3
    <3>5. \A n \in 0..m : n # 0 => n - 1 \in 0..m
      OBVIOUS
    <3>6. ASSUME NEW n \in 0..m
          PROVE  g[n] = IF n = 0 THEN Undrained(table, <<>>) ELSE DrainHead(p, g[n - 1], pending[n])
      BY <3>1, <3>2, <3>5
    <3>7. (m + 1) - 1 = m /\ m + 1 # 0 /\ \A n \in 0..(m + 1) : n \in 0..m \/ n = m + 1
      OBVIOUS
    <3>. QED BY <3>4, <3>6, <3>7
  <2>4. g = [n \in 0..(m + 1) |-> g[n]]
    BY <2>2
  <2>5. Run(m + 1, g)
    BY <2>3, <2>4
  <2>. QED BY <2>5
<1>3. N \in P
  <2>. HIDE DEF P
  <2>. QED BY <1>0, <1>1, <1>2, NatInductionSet
<1>4. PICK after : after = CHOOSE f : Run(N, f)
  OBVIOUS
<1>5. Run(N, after)
  BY <1>3, <1>4, Zenon
<1>6. Drain(p, table, pending) = after[N]
  BY <1>4, Zenon DEF Drain
<1>7. after[0] = Undrained(table, <<>>) /\ \A n \in 1..N : after[n] = DrainHead(p, after[n - 1], pending[n])
  BY <1>0, <1>5
<1>. QED BY <1>6, <1>7

LEMMA DrainOK ==
    ASSUME NEW p \in Policies, NEW table \in Tables, NEW pending \in Seq(Waiters),
           IsFiniteSet(Admitted(table)), QueuedOnce(pending),
           clock \in Nat, prices \in [unitPrice: UnitPrices, expiresAt: Nat]
    PROVE  DrainSoFar(p, table, pending, Len(pending), Drain(p, table, pending))
<1>1. PICK after :
        /\ after[0] = Undrained(table, <<>>)
        /\ \A n \in 1..Len(pending) : after[n] = DrainHead(p, after[n - 1], pending[n])
        /\ Drain(p, table, pending) = after[Len(pending)]
  BY DrainRun
<1> DEFINE P == {n \in Nat : n <= Len(pending) => DrainSoFar(p, table, pending, n, after[n])}
<1>2. 0 \in P
  <2>1. Undrained(table, <<>>) \in Results
    BY DEF Undrained, Results
  <2>2. DrainSoFar(p, table, pending, 0, Undrained(table, <<>>))
    BY <2>1 DEF DrainSoFar, Undrained, Kept, Within
  <2>. QED BY <1>1, <2>2
<1>3. ASSUME NEW n \in Nat, n \in P PROVE n + 1 \in P
  <2>. SUFFICES ASSUME n + 1 <= Len(pending) PROVE DrainSoFar(p, table, pending, n + 1, after[n + 1])
    OBVIOUS
  <2>1. DrainSoFar(p, table, pending, n, after[n]) /\ n + 1 \in DOMAIN pending
    BY <1>3
  <2>2. after[n + 1] = DrainHead(p, after[n], pending[n + 1])
    BY <1>1
  <2>3. \/ Keeps(after[n], pending[n + 1], after[n + 1])
        \/ Refuses(after[n], pending[n + 1], after[n + 1])
        \/ Admits(p, after[n], pending[n + 1], after[n + 1])
    BY <2>2, DrainHeadCases
  <2>. QED BY <2>1, <2>3, DrainKeeps, DrainRefuses, DrainAdmits
<1>4. Nat \subseteq P
  <2>. HIDE DEF P
  <2>. QED BY <1>2, <1>3, NatInductionSet
<1>5. Len(pending) \in P
  BY <1>4
<1>. QED BY <1>1, <1>5

-----------------------------------------------------------------------------
(* The inductive invariant.                                                 *)

Collectors == [state: {"none", "open", "sealed"}, usage: 0..MaxUsage]

\* The row, the collector, the controller and the usage of one journey.
JourneyOK(row, collector, caller, units) ==
    /\ row.state = "absent" => row = AbsentRow /\ collector = NoCollector /\ units = 0
    /\ row.state # "absent" => caller # "idle"
    /\ row.state = "forfeited" => row.charged = row.preauthorized
    /\ row.state \in {"settled", "forfeited"} =>
        /\ row.charged <= row.preauthorized
        /\ row.charged = row.preauthorized \/ row.charged >= units * row.unitPrice
    /\ collector.state # "none" => row.state \in {"reserved", "forfeited"} /\ collector.usage = units

\* A ledger, a queue, collectors, controllers and usage that fit together.
Coherent(table, pending, kept, callers, units) ==
    /\ table \in Tables /\ IsFiniteSet(Admitted(table))
    /\ pending \in Seq(Waiters) /\ QueuedOnce(pending)
    /\ kept \in [Journeys -> Collectors]
    /\ callers \in [Journeys -> ControllerStates]
    /\ units \in [Journeys -> Nat]
    /\ \A j \in Journeys : JourneyOK(table[j], kept[j], callers[j], units[j])
    /\ \A i \in DOMAIN pending :
        table[pending[i].journey].state = "absent" /\ callers[pending[i].journey] # "idle"
    /\ \A j \in Journeys : callers[j] = "waiting" => \E i \in DOMAIN pending : pending[i].journey = j

DemoInv ==
    /\ DemoTypeOK
    /\ Coherent(rows, queue, collectors, controller, metered)
    /\ ~up => queue = <<>> /\ \A j \in Journeys : collectors[j] = NoCollector

\* What becomes of a row: nothing, or the end of its reservation.
RowEnds(row, next) ==
    \/ next = row
    \/ /\ row.state = "reserved"
       /\ next.state \in {"settled", "forfeited"}
       /\ next.preauthorized = row.preauthorized
       /\ next.unitPrice = row.unitPrice
       /\ next.charged <= row.preauthorized

\* What a step does to the ledger: it admits some journeys within the policy
\* it leaves in force, and may end the reservations of others.
LedgerStep ==
    \E admitted \in SUBSET Journeys :
        /\ Within(policy', rows', admitted)
        /\ \A j \in admitted : rows[j].state = "absent" /\ rows'[j].state = "reserved"
        /\ \A j \in Journeys \ admitted : RowEnds(rows[j], rows'[j])

LEMMA KeptEnds ==
    ASSUME NEW table \in Tables, NEW after, NEW j \in Journeys, Kept(table, after, j)
    PROVE  RowEnds(table[j], after[j])
<1>1. table[j] \in LedgerRows
  BY DEF Tables
<1>2. CASE after[j] = table[j]
  BY <1>2 DEF RowEnds
<1>3. CASE after[j] # table[j]
  <2>1. /\ table[j].state = "reserved" /\ after[j].state = "forfeited"
        /\ after[j].preauthorized = table[j].preauthorized
        /\ after[j].unitPrice = table[j].unitPrice
        /\ after[j].charged = table[j].preauthorized /\ table[j].preauthorized \in Nat
    BY <1>1, <1>3 DEF Kept, LedgerRows
  <2>. QED BY <2>1 DEF RowEnds
<1>. QED BY <1>2, <1>3

LEMMA RowEndsTwice ==
    ASSUME NEW row \in LedgerRows, NEW next, NEW last, RowEnds(row, next), RowEnds(next, last)
    PROVE  RowEnds(row, last)
BY DEF RowEnds

\* What an answer leaves behind fits together if what it was made from did.
LEMMA AnswerCoherent ==
    ASSUME NEW p \in Policies, clock \in Nat, prices \in [unitPrice: UnitPrices, expiresAt: Nat],
           NEW table, NEW pending, NEW kept, NEW callers, NEW units,
           Coherent(table, pending, kept, callers, units),
           NEW result, DrainSoFar(p, table, pending, Len(pending), result),
           NEW nextKept, nextKept = [j \in Journeys |->
                IF j \in result.admitted THEN [state |-> "open", usage |-> 0] ELSE kept[j]],
           NEW nextCallers, nextCallers = [j \in Journeys |->
                IF callers[j] # "waiting" THEN callers[j]
                ELSE IF j \in result.admitted THEN "running"
                ELSE IF j \in result.refused THEN "refused"
                ELSE "waiting"]
    PROVE  Coherent(result.rows, result.queue, nextKept, nextCallers, units)
<1>1. /\ result.rows \in Tables /\ result.queue \in Seq(Waiters)
      /\ result.admitted \in SUBSET Journeys
      /\ IsFiniteSet(Admitted(result.rows))
  BY DEF DrainSoFar, Results
<1>2. /\ table \in Tables /\ pending \in Seq(Waiters)
      /\ kept \in [Journeys -> Collectors] /\ callers \in [Journeys -> ControllerStates]
      /\ units \in [Journeys -> Nat]
  BY DEF Coherent
<1>3. nextKept \in [Journeys -> Collectors]
  <2>1. [state |-> "open", usage |-> 0] \in Collectors
    BY DemoBoundsAssumption DEF Collectors
  <2>. QED BY <1>2, <2>1
<1>4. nextCallers \in [Journeys -> ControllerStates]
  BY <1>2 DEF ControllerStates
<1>5. \A j \in result.admitted : callers[j] # "idle" /\ table[j].state = "absent"
  <2>1. \A j \in result.admitted : \E i \in 1..Len(pending) : pending[i].journey = j
    BY DEF DrainSoFar
  <2>2. \A i \in DOMAIN pending : callers[pending[i].journey] # "idle"
    BY DEF Coherent
  <2>3. DOMAIN pending = 1..Len(pending)
    BY <1>2
  <2>. QED BY <2>1, <2>2, <2>3 DEF DrainSoFar
<1>6. ASSUME NEW j \in Journeys
      PROVE  JourneyOK(result.rows[j], nextKept[j], nextCallers[j], units[j])
  <2>1. JourneyOK(table[j], kept[j], callers[j], units[j]) /\ table[j] \in LedgerRows
    BY <1>2 DEF Coherent, Tables
  <2>2. callers[j] # "idle" => nextCallers[j] # "idle"
    OBVIOUS
  <2>3. CASE j \in result.admitted
    <3>1. result.rows[j] = Fresh(p) /\ units[j] = 0 /\ nextCallers[j] # "idle"
      BY <1>5, <2>1, <2>2, <2>3 DEF DrainSoFar, JourneyOK
    <3>2. nextKept[j] = [state |-> "open", usage |-> 0] /\ Fresh(p).state = "reserved"
      BY <2>3 DEF Fresh
    <3>. QED BY <3>1, <3>2 DEF JourneyOK
  <2>4. CASE j \notin result.admitted
    <3>1. Kept(table, result.rows, j) /\ nextKept[j] = kept[j]
      BY <2>4 DEF DrainSoFar
    <3>2. CASE result.rows[j] = table[j]
      BY <2>1, <2>2, <3>1, <3>2 DEF JourneyOK
    <3>3. CASE result.rows[j] # table[j]
      <4>1. /\ table[j].state = "reserved" /\ result.rows[j].state = "forfeited"
            /\ result.rows[j].charged = table[j].preauthorized
            /\ result.rows[j].preauthorized = table[j].preauthorized
            /\ table[j].preauthorized \in Nat
        BY <2>1, <3>1, <3>3 DEF Kept, LedgerRows
      <4>. QED BY <2>1, <2>2, <3>1, <4>1 DEF JourneyOK
    <3>. QED BY <3>2, <3>3
  <2>. QED BY <2>3, <2>4
<1>7. ASSUME NEW k \in DOMAIN result.queue
      PROVE  /\ result.rows[result.queue[k].journey].state = "absent"
             /\ nextCallers[result.queue[k].journey] # "idle"
  <2>1. PICK i \in 1..Len(pending) : result.queue[k] = pending[i]
    BY DEF DrainSoFar
  <2>2. PICK j : j = pending[i].journey
    OBVIOUS
  <2>3. i \in DOMAIN pending /\ j \in Journeys
    <3>1. i \in DOMAIN pending /\ pending[i] \in Waiters
      BY <1>2, <2>1
    <3>. QED BY <2>2, <3>1 DEF Waiters
  <2>4. table[j].state = "absent" /\ callers[j] # "idle"
    BY <2>2, <2>3 DEF Coherent
  <2>5. j \notin result.admitted
    BY <2>1, <2>2 DEF DrainSoFar
  <2>6. Kept(table, result.rows, j)
    BY <2>3, <2>5 DEF DrainSoFar
  <2>. QED BY <2>1, <2>2, <2>3, <2>4, <2>6 DEF Kept
<1>8. ASSUME NEW j \in Journeys, nextCallers[j] = "waiting"
      PROVE  \E k \in DOMAIN result.queue : result.queue[k].journey = j
  <2>1. callers[j] = "waiting" /\ j \notin result.admitted \cup result.refused
    BY <1>8
  <2>2. PICK i \in DOMAIN pending : pending[i].journey = j
    BY <2>1 DEF Coherent
  <2>3. i \in 1..Len(pending)
    BY <1>2
  <2>. QED BY <2>1, <2>2, <2>3 DEF DrainSoFar
<1>9. QueuedOnce(result.queue)
  BY DEF QueuedOnce, DrainSoFar
<1>. QED BY <1>1, <1>2, <1>3, <1>4, <1>6, <1>7, <1>8, <1>9 DEF Coherent

LEMMA AnswerStep ==
    ASSUME DemoInv, NEW p \in Policies, policy' = p,
           NEW table, NEW pending, NEW kept, NEW callers,
           Coherent(table, pending, kept, callers, metered),
           \A j \in Journeys : RowEnds(rows[j], table[j]),
           NEW result, DrainSoFar(p, table, pending, Len(pending), result),
           Answer(result, kept, callers), metered' = metered
    PROVE  /\ Coherent(rows, queue, collectors, controller, metered)'
           /\ LedgerStep
<1>1. clock \in Nat /\ prices \in [unitPrice: UnitPrices, expiresAt: Nat] /\ rows \in Tables
  BY DemoBoundsAssumption DEF DemoInv, DemoTypeOK, Tables
<1>2. Coherent(rows', queue', collectors', controller', metered')
  <2>1. /\ rows' = result.rows /\ queue' = result.queue
        /\ collectors' = [j \in Journeys |->
                IF j \in result.admitted THEN [state |-> "open", usage |-> 0] ELSE kept[j]]
        /\ controller' = [j \in Journeys |->
                IF callers[j] # "waiting" THEN callers[j]
                ELSE IF j \in result.admitted THEN "running"
                ELSE IF j \in result.refused THEN "refused"
                ELSE "waiting"]
    BY DEF Answer
  <2>2. Coherent(result.rows, result.queue, collectors', controller', metered)
    BY <1>1, <2>1, AnswerCoherent
  <2>. QED BY <2>1, <2>2
<1>3. rows' = result.rows /\ result.admitted \in SUBSET Journeys
  BY DEF Answer, DrainSoFar, Results
<1>4. Within(policy', rows', result.admitted)
  BY <1>3 DEF DrainSoFar
<1>5. \A j \in result.admitted : rows[j].state = "absent" /\ rows'[j].state = "reserved"
  <2>1. \A j \in result.admitted : /\ table[j].state = "absent" /\ rows'[j] = Fresh(p)
                                   /\ RowEnds(rows[j], table[j])
    BY <1>3 DEF DrainSoFar
  <2>. QED BY <2>1 DEF RowEnds, Fresh
<1>6. \A j \in Journeys \ result.admitted : RowEnds(rows[j], rows'[j])
  <2>. SUFFICES ASSUME NEW j \in Journeys \ result.admitted PROVE RowEnds(rows[j], rows'[j])
    OBVIOUS
  <2>1. Kept(table, result.rows, j) /\ table \in Tables /\ rows[j] \in LedgerRows
    BY <1>1 DEF DrainSoFar, Coherent, Tables
  <2>2. RowEnds(table[j], result.rows[j])
    BY <2>1, KeptEnds
  <2>. QED BY <1>3, <2>1, <2>2, RowEndsTwice
<1>7. LedgerStep
  BY <1>3, <1>4, <1>5, <1>6 DEF LedgerStep
<1>. QED BY <1>2, <1>7

-----------------------------------------------------------------------------
(* One lemma per operation.                                                 *)

LEMMA InvTypes ==
    ASSUME DemoInv
    PROVE  /\ clock \in Nat /\ prices \in [unitPrice: UnitPrices, expiresAt: Nat]
           /\ policy \in Policies /\ rows \in Tables /\ IsFiniteSet(Admitted(rows))
           /\ queue \in Seq(Waiters) /\ QueuedOnce(queue)
           /\ collectors \in [Journeys -> Collectors]
           /\ controller \in [Journeys -> ControllerStates]
           /\ metered \in [Journeys -> Nat]
           /\ Coherent(rows, queue, collectors, controller, metered)
BY DemoBoundsAssumption DEF DemoInv, DemoTypeOK, Coherent

\* The types and a stopped process, when the service stays up.
LEMMA InvAgain ==
    ASSUME DemoInv, up, up' = up, boots' = boots, clock' = clock,
           policy' \in Policies, prices' \in [unitPrice: UnitPrices, expiresAt: Nat],
           updates' \in [policy: 0..MaxUpdates, prices: 0..MaxUpdates],
           Coherent(rows, queue, collectors, controller, metered)'
    PROVE  DemoInv'
BY DEF DemoInv, DemoTypeOK, Coherent, Tables, Collectors

LEMMA QuietLedger ==
    ASSUME \A j \in Journeys : RowEnds(rows[j], rows'[j])
    PROVE  LedgerStep
<1>1. Within(policy', rows', {})
  BY DEF Within
<1>. QED BY <1>1 DEF LedgerStep

LEMMA ExpireEnds ==
    ASSUME NEW table \in Tables
    PROVE  /\ Expire(table) \in Tables
           /\ Admitted(Expire(table)) = Admitted(table)
           /\ \A j \in Journeys : /\ Kept(table, Expire(table), j)
                                  /\ RowEnds(table[j], Expire(table)[j])
                                  /\ Expire(table)[j].state = "absent" <=> table[j].state = "absent"
<1>1. \A j \in Journeys : Kept(table, Expire(table), j)
  BY ExpireOK DEF Kept
<1>2. Expire(table) \in Tables /\ Admitted(Expire(table)) = Admitted(table)
  BY ExpireOK
<1>3. \A j \in Journeys : RowEnds(table[j], Expire(table)[j])
  BY <1>1, KeptEnds
<1>. QED BY <1>1, <1>2, <1>3, ExpireOK

LEMMA ExpireCoherent ==
    ASSUME NEW table, NEW pending, NEW kept, NEW callers, NEW units,
           Coherent(table, pending, kept, callers, units)
    PROVE  Coherent(Expire(table), pending, kept, callers, units)
<1>1. PICK after : after = Expire(table)
  OBVIOUS
<1>2. /\ table \in Tables /\ after \in Tables /\ Admitted(after) = Admitted(table)
      /\ \A j \in Journeys : /\ Kept(table, after, j)
                             /\ after[j].state = "absent" <=> table[j].state = "absent"
  BY <1>1, ExpireEnds DEF Coherent
<1>3. ASSUME NEW j \in Journeys PROVE JourneyOK(after[j], kept[j], callers[j], units[j])
  <2>1. JourneyOK(table[j], kept[j], callers[j], units[j]) /\ table[j] \in LedgerRows
    BY <1>2 DEF Coherent, Tables
  <2>2. CASE after[j] = table[j]
    BY <2>1, <2>2
  <2>3. CASE after[j] # table[j]
    <3>1. /\ table[j].state = "reserved" /\ after[j].state = "forfeited"
          /\ after[j].charged = table[j].preauthorized
          /\ after[j].preauthorized = table[j].preauthorized
          /\ table[j].preauthorized \in Nat
      BY <1>2, <2>1, <2>3 DEF Kept, LedgerRows
    <3>. QED BY <2>1, <3>1 DEF JourneyOK
  <2>. QED BY <2>2, <2>3
<1>4. \A i \in DOMAIN pending : pending[i].journey \in Journeys
  <2>1. \A i \in DOMAIN pending : pending[i] \in Waiters
    BY DEF Coherent
  <2>. QED BY <2>1 DEF Waiters
<1>5. \A i \in DOMAIN pending : after[pending[i].journey].state = "absent"
  BY <1>2, <1>4 DEF Coherent
<1>. QED BY <1>1, <1>2, <1>3, <1>5 DEF Coherent

\* The four answers to a request come out of the queue with the request at
\* its end.
LEMMA RequestResult ==
    ASSUME DemoInv, NEW j \in Journeys, controller[j] = "idle", NEW w \in Waiters, w.journey = j,
           NEW result,
           \/ /\ result \in {[Undrained(rows, queue) EXCEPT !.refused = {j}],
                             [Undrained(Expire(rows), queue) EXCEPT !.refused = {j}]}
           \/ /\ ~Denies(policy, Expire(rows), j) /\ ~Crowded(policy, Expire(rows))
              /\ result = [Undrained(Reserve(policy, Expire(rows), j), queue)
                              EXCEPT !.admitted = {j}]
           \/ result = Undrained(Expire(rows), Append(queue, w))
    PROVE  DrainSoFar(policy, rows, Append(queue, w), Len(Append(queue, w)), result)
<1>. DEFINE N == Len(queue) + 1
<1>1. PICK pending : pending = Append(queue, w)
  OBVIOUS
<1>2. /\ queue \in Seq(Waiters) /\ QueuedOnce(queue) /\ rows \in Tables
      /\ IsFiniteSet(Admitted(rows))
      /\ \A i \in DOMAIN queue : controller[queue[i].journey] # "idle"
  BY InvTypes DEF Coherent
<1>3. /\ pending \in Seq(Waiters) /\ Len(pending) = N /\ N \in Nat
      /\ DOMAIN queue = 1..Len(queue) /\ pending[N] = w
      /\ \A i \in 1..Len(queue) : pending[i] = queue[i] /\ queue[i].journey # j
      /\ Len(queue) \in Nat
  BY <1>1, <1>2
<1>4. PICK table : table = Expire(rows)
  OBVIOUS
<1>5. /\ table \in Tables /\ Admitted(table) = Admitted(rows)
      /\ \A k \in Journeys : /\ Kept(rows, table, k) /\ Kept(rows, rows, k)
                             /\ table[k].state = "absent" <=> rows[k].state = "absent"
  BY <1>2, <1>4, ExpireEnds DEF Kept
<1>6. \A any : Within(policy, any, {})
  BY DEF Within
<1>7. \A i \in DOMAIN queue :
        /\ queue[i].journey # j
        /\ \E k \in 1..N : queue[i] = pending[k]
        /\ \A k \in DOMAIN queue : queue[k].journey = queue[i].journey => k = i
  BY <1>2, <1>3 DEF QueuedOnce
<1>8. \A i \in 1..N : pending[i].journey = j \/ \E k \in DOMAIN queue : queue[k] = pending[i]
  BY <1>3
<1>9. \E i \in 1..N : pending[i].journey = j
  BY <1>3
<1>10. CASE \E any \in {rows, table} : result = [Undrained(any, queue) EXCEPT !.refused = {j}]
  <2>1. PICK any \in {rows, table} : result = [Undrained(any, queue) EXCEPT !.refused = {j}]
    BY <1>10
  <2>2. /\ result.rows = any /\ result.queue = queue /\ result.admitted = {} /\ result.refused = {j}
        /\ result = [rows |-> any, queue |-> queue, blocked |-> FALSE, admitted |-> {}, refused |-> {j}]
    BY <2>1 DEF Undrained
  <2>3. result \in Results
    BY <1>2, <1>5, <2>2 DEF Results
  <2>4. IsFiniteSet(Admitted(any)) /\ \A k \in Journeys : Kept(rows, any, k)
    BY <1>2, <1>5
  <2>5. DrainSoFar(policy, rows, pending, N, result)
    BY <1>6, <1>7, <1>8, <1>9, <2>2, <2>3, <2>4 DEF DrainSoFar
  <2>. QED BY <1>1, <1>3, <2>5
<1>11. CASE /\ ~Denies(policy, table, j) /\ ~Crowded(policy, table)
            /\ result = [Undrained(Reserve(policy, table, j), queue) EXCEPT !.admitted = {j}]
  <2>1. PICK after : after = Reserve(policy, table, j)
    OBVIOUS
  <2>2. /\ result.rows = after /\ result.queue = queue /\ result.admitted = {j} /\ result.refused = {}
        /\ result = [rows |-> after, queue |-> queue, blocked |-> FALSE, admitted |-> {j}, refused |-> {}]
    BY <1>11, <2>1 DEF Undrained
  <2>3. table[j].state = "absent"
    BY <1>11 DEF Denies
  <2>4. after = [table EXCEPT ![j] = Fresh(policy)] /\ after \in Tables
    BY <1>5, <2>1, <2>3, InvTypes, ReserveOK
  <2>5. result \in Results
    BY <1>2, <2>2, <2>4 DEF Results
  <2>6. Within(policy, after, {j}) /\ IsFiniteSet(Admitted(after))
    <3>1. IsFiniteSet(Admitted(table)) /\ {} \in SUBSET Admitted(table)
      BY <1>2, <1>5
    <3>2. Within(policy, after, {} \cup {j}) /\ IsFiniteSet(Admitted(after))
      BY <1>5, <1>6, <1>11, <2>1, <3>1, InvTypes, AdmissionWithin
    <3>. QED BY <3>2
  <2>7. after[j] = Fresh(policy) /\ \A k \in Journeys \ {j} : Kept(rows, after, k)
    BY <1>5, <2>4 DEF Kept, Tables
  <2>8. DrainSoFar(policy, rows, pending, N, result)
    BY <1>5, <1>7, <1>8, <1>9, <2>2, <2>3, <2>5, <2>6, <2>7 DEF DrainSoFar
  <2>. QED BY <1>1, <1>3, <2>8
<1>12. CASE result = Undrained(table, pending)
  <2>1. /\ result.rows = table /\ result.queue = pending /\ result.admitted = {} /\ result.refused = {}
        /\ result = [rows |-> table, queue |-> pending, blocked |-> FALSE, admitted |-> {}, refused |-> {}]
    BY <1>12 DEF Undrained
  <2>2. result \in Results
    BY <1>3, <1>5, <2>1 DEF Results
  <2>3. IsFiniteSet(Admitted(table)) /\ \A k \in Journeys : Kept(rows, table, k)
    BY <1>2, <1>5
  <2>4. \A i, k \in 1..N : pending[k].journey = pending[i].journey => k = i
    BY <1>3, <1>7
  <2>5. DOMAIN pending = 1..N
    BY <1>3
  <2>6. DrainSoFar(policy, rows, pending, N, result)
    BY <1>6, <2>1, <2>2, <2>3, <2>4, <2>5 DEF DrainSoFar
  <2>. QED BY <1>1, <1>3, <2>6
<1>. QED BY <1>1, <1>4, <1>10, <1>11, <1>12

LEMMA RequestStep ==
    ASSUME DemoInv, NEW j \in Journeys, RequestAdmission(j)
    PROVE  DemoInv' /\ LedgerStep
<1>. DEFINE w == [journey |-> j, deadline |-> clock + policy.queueTimeout]
            waiting == [controller EXCEPT ![j] = "waiting"]
            denied(left) == [Undrained(left, queue) EXCEPT !.refused = {j}]
<1>1. /\ up /\ controller[j] = "idle"
      /\ clock' = clock /\ policy' = policy /\ prices' = prices /\ updates' = updates
      /\ up' = up /\ boots' = boots /\ metered' = metered
  BY DEF RequestAdmission
<1>2. \E result :
        /\ Answer(result, collectors, waiting)
        /\ \/ /\ result \in {[Undrained(rows, queue) EXCEPT !.refused = {j}],
                             [Undrained(Expire(rows), queue) EXCEPT !.refused = {j}]}
           \/ /\ ~Denies(policy, Expire(rows), j) /\ ~Crowded(policy, Expire(rows))
              /\ result = [Undrained(Reserve(policy, Expire(rows), j), queue)
                              EXCEPT !.admitted = {j}]
           \/ result = Undrained(Expire(rows), Append(queue, w))
  <2>2. \/ Answer(denied(rows), collectors, waiting)
        \/ Answer(denied(Expire(rows)), collectors, waiting)
        \/ /\ ~Denies(policy, Expire(rows), j) /\ ~Crowded(policy, Expire(rows))
           /\ Answer([Undrained(Reserve(policy, Expire(rows), j), queue) EXCEPT !.admitted = {j}],
                     collectors, waiting)
        \/ Answer(Undrained(Expire(rows), Append(queue, w)), collectors, waiting)
    BY DEF RequestAdmission
  <2>3. CASE Answer(denied(rows), collectors, waiting)
    BY <2>3
  <2>4. CASE Answer(denied(Expire(rows)), collectors, waiting)
    BY <2>4
  <2>5. CASE /\ ~Denies(policy, Expire(rows), j) /\ ~Crowded(policy, Expire(rows))
             /\ Answer([Undrained(Reserve(policy, Expire(rows), j), queue) EXCEPT !.admitted = {j}],
                       collectors, waiting)
    BY <2>5
  <2>6. CASE Answer(Undrained(Expire(rows), Append(queue, w)), collectors, waiting)
    BY <2>6
  <2>. QED BY <2>2, <2>3, <2>4, <2>5, <2>6
<1>3. w \in Waiters /\ w.journey = j
  BY InvTypes, LimitsNat DEF Waiters
<1>4. PICK request, callers, pending :
        request = w /\ callers = waiting /\ pending = Append(queue, request)
  OBVIOUS
<1>5. PICK result :
        /\ Answer(result, collectors, callers)
        /\ DrainSoFar(policy, rows, pending, Len(pending), result)
  <2>1. PICK result :
        /\ Answer(result, collectors, callers)
        /\ \/ /\ result \in {[Undrained(rows, queue) EXCEPT !.refused = {j}],
                             [Undrained(Expire(rows), queue) EXCEPT !.refused = {j}]}
           \/ /\ ~Denies(policy, Expire(rows), j) /\ ~Crowded(policy, Expire(rows))
              /\ result = [Undrained(Reserve(policy, Expire(rows), j), queue)
                              EXCEPT !.admitted = {j}]
           \/ result = Undrained(Expire(rows), Append(queue, request))
    BY <1>2, <1>4
  <2>2. request \in Waiters /\ request.journey = j
    BY <1>3, <1>4
  <2>. HIDE DEF w, waiting, denied
  <2>3. DrainSoFar(policy, rows, pending, Len(pending), result)
    BY <1>1, <1>4, <2>1, <2>2, RequestResult
  <2>. QED BY <2>1, <2>3
<1>6. Coherent(rows, pending, collectors, callers, metered)
  <2>1. /\ rows \in Tables /\ IsFiniteSet(Admitted(rows))
        /\ collectors \in [Journeys -> Collectors] /\ metered \in [Journeys -> Nat]
        /\ queue \in Seq(Waiters) /\ controller \in [Journeys -> ControllerStates]
        /\ QueuedOnce(queue)
        /\ \A k \in Journeys : JourneyOK(rows[k], collectors[k], controller[k], metered[k])
        /\ \A i \in DOMAIN queue :
            rows[queue[i].journey].state = "absent" /\ controller[queue[i].journey] # "idle"
        /\ \A k \in Journeys : controller[k] = "waiting" =>
                \E i \in DOMAIN queue : queue[i].journey = k
    BY InvTypes DEF Coherent
  <2>2. /\ callers \in [Journeys -> ControllerStates]
        /\ callers[j] = "waiting" /\ \A k \in Journeys \ {j} : callers[k] = controller[k]
    BY <1>4, <2>1 DEF ControllerStates
  <2>3. request \in Waiters /\ request.journey = j
    BY <1>3, <1>4
  <2>. HIDE DEF w, waiting, denied
  <2>4. /\ pending \in Seq(Waiters) /\ Len(queue) \in Nat
        /\ DOMAIN pending = 1..(Len(queue) + 1) /\ DOMAIN queue = 1..Len(queue)
        /\ pending[Len(queue) + 1] = request
        /\ \A i \in DOMAIN queue : pending[i] = queue[i]
    BY <1>4, <2>1, <2>3
  <2>5. \A i \in DOMAIN queue : queue[i].journey \in Journeys \ {j}
    <3>1. \A i \in DOMAIN queue : queue[i] \in Waiters
      BY <2>1
    <3>2. \A i \in DOMAIN queue : queue[i].journey \in Journeys
      BY <3>1 DEF Waiters
    <3>. QED BY <1>1, <2>1, <3>2
  <2>6. rows[j].state = "absent"
    BY <1>1, <2>1 DEF JourneyOK
  <2>7. QueuedOnce(pending)
    BY <2>1, <2>3, <2>4, <2>5 DEF QueuedOnce
  <2>8. \A i \in DOMAIN pending :
            rows[pending[i].journey].state = "absent" /\ callers[pending[i].journey] # "idle"
    BY <2>1, <2>2, <2>3, <2>4, <2>5, <2>6
  <2>9. \A k \in Journeys : callers[k] = "waiting" => \E i \in DOMAIN pending : pending[i].journey = k
    BY <2>1, <2>2, <2>3, <2>4
  <2>10. \A k \in Journeys : JourneyOK(rows[k], collectors[k], callers[k], metered[k])
    BY <1>1, <2>1, <2>2 DEF JourneyOK
  <2>. QED BY <2>1, <2>2, <2>4, <2>7, <2>8, <2>9, <2>10 DEF Coherent
<1>. HIDE DEF w, waiting, denied
<1>7. Coherent(rows, queue, collectors, controller, metered)' /\ LedgerStep
  <2>1. \A k \in Journeys : RowEnds(rows[k], rows[k])
    BY DEF RowEnds
  <2>. QED BY <1>1, <1>5, <1>6, <2>1, InvTypes, AnswerStep
<1>8. DemoInv'
  <2>1. updates \in [policy: 0..MaxUpdates, prices: 0..MaxUpdates]
    BY DEF DemoInv, DemoTypeOK
  <2>. QED BY <1>1, <1>7, <2>1, InvTypes, InvAgain
<1>. QED BY <1>7, <1>8

LEMMA PolicyStep ==
    ASSUME DemoInv, NEW p \in Policies, UpdatePolicy(p)
    PROVE  DemoInv' /\ LedgerStep
<1>1. /\ up /\ updates.policy < MaxUpdates
      /\ policy' = p /\ updates' = [updates EXCEPT !.policy = @ + 1]
      /\ Answer(Drain(p, Expire(rows), queue), collectors, controller)
      /\ clock' = clock /\ prices' = prices /\ up' = up /\ boots' = boots /\ metered' = metered
  BY DEF UpdatePolicy
<1>2. PICK table, result : table = Expire(rows) /\ result = Drain(p, table, queue)
  OBVIOUS
<1>3. /\ table \in Tables /\ IsFiniteSet(Admitted(table))
      /\ \A j \in Journeys : RowEnds(rows[j], table[j])
  BY <1>2, InvTypes, ExpireEnds
<1>4. Coherent(table, queue, collectors, controller, metered)
  BY <1>2, InvTypes, ExpireCoherent
<1>5. DrainSoFar(p, table, queue, Len(queue), result)
  BY <1>2, <1>3, InvTypes, DrainOK
<1>6. Coherent(rows, queue, collectors, controller, metered)' /\ LedgerStep
  BY <1>1, <1>2, <1>3, <1>4, <1>5, AnswerStep
<1>7. updates' \in [policy: 0..MaxUpdates, prices: 0..MaxUpdates]
  <2>1. updates \in [policy: 0..MaxUpdates, prices: 0..MaxUpdates] /\ MaxUpdates \in Nat
    BY DemoBoundsAssumption DEF DemoInv, DemoTypeOK
  <2>. QED BY <1>1, <2>1
<1>8. DemoInv'
  BY <1>1, <1>6, <1>7, InvTypes, InvAgain
<1>. QED BY <1>6, <1>8

LEMMA SnapshotStep ==
    ASSUME DemoInv, Snapshot
    PROVE  DemoInv' /\ LedgerStep
<1>1. /\ up /\ rows' = Expire(rows)
      /\ clock' = clock /\ policy' = policy /\ prices' = prices /\ updates' = updates
      /\ up' = up /\ boots' = boots /\ queue' = queue /\ collectors' = collectors
      /\ controller' = controller /\ metered' = metered
  BY DEF Snapshot, serviceVars
<1>2. \A j \in Journeys : RowEnds(rows[j], rows'[j])
  BY <1>1, InvTypes, ExpireEnds
<1>3. LedgerStep
  BY <1>2, QuietLedger
<1>4. Coherent(rows', queue', collectors', controller', metered')
  BY <1>1, InvTypes, ExpireCoherent
<1>5. updates \in [policy: 0..MaxUpdates, prices: 0..MaxUpdates]
  BY DEF DemoInv, DemoTypeOK
<1>. QED BY <1>1, <1>3, <1>4, <1>5, InvTypes, InvAgain

\* A waiter taken off the queue.
LEMMA RemoveWaiter ==
    ASSUME NEW pending \in Seq(Waiters), NEW i \in DOMAIN pending, NEW rest, rest = RemoveAt(pending, i)
    PROVE  /\ rest \in Seq(Waiters) /\ Len(rest) = Len(pending) - 1
           /\ \A k \in 1..(i - 1) : k \in DOMAIN rest /\ rest[k] = pending[k]
           /\ \A k \in (i + 1)..Len(pending) : k - 1 \in DOMAIN rest /\ rest[k - 1] = pending[k]
           /\ \A k \in DOMAIN rest : IF k < i THEN rest[k] = pending[k] ELSE rest[k] = pending[k + 1]
<1>1. PICK left, right : left = SubSeq(pending, 1, i - 1) /\ right = SubSeq(pending, i + 1, Len(pending))
  OBVIOUS
<1>2. i \in 1..Len(pending) /\ Len(pending) \in Nat
  OBVIOUS
<1>3. /\ left \in Seq(Waiters) /\ Len(left) = i - 1 /\ \A k \in 1..(i - 1) : left[k] = pending[k]
  BY <1>1, <1>2
<1>4. /\ right \in Seq(Waiters) /\ Len(right) = Len(pending) - i
      /\ \A k \in 1..(Len(pending) - i) : right[k] = pending[k + i]
  <2>1. \A k \in (i + 1)..Len(pending) : pending[k] \in Waiters
    BY <1>2
  <2>2. IF i + 1 <= Len(pending) THEN Len(right) = Len(pending) - (i + 1) + 1 ELSE Len(right) = 0
    BY <1>1, <1>2
  <2>3. \A k \in 1..(Len(pending) - i) : right[k] = pending[i + 1 + k - 1]
    BY <1>1, <1>2
  <2>4. \A k \in 1..(Len(pending) - i) : i + 1 + k - 1 = k + i
    BY <1>2
  <2>5. right \in Seq(Waiters)
    BY <1>1, <1>2, <2>1
  <2>. QED BY <1>2, <2>2, <2>3, <2>4, <2>5
<1>5. rest = left \o right
  BY <1>1 DEF RemoveAt
<1>6. /\ rest \in Seq(Waiters) /\ Len(rest) = Len(left) + Len(right)
      /\ DOMAIN rest = 1..Len(rest)
      /\ \A k \in 1..Len(rest) : rest[k] = IF k <= Len(left) THEN left[k] ELSE right[k - Len(left)]
  <2>1. left \in Seq(Waiters) /\ right \in Seq(Waiters)
    BY <1>3, <1>4
  <2>2. Len(left) \in Nat /\ Len(right) \in Nat
    BY <2>1
  <2>3. rest \in Seq(Waiters)
    BY <1>5, <2>1
  <2>4. Len(rest) = Len(left) + Len(right)
    BY <1>5, <2>1
  <2>5. DOMAIN rest = 1..Len(rest)
    BY <2>3
  <2>6. ASSUME NEW k \in 1..Len(rest)
        PROVE  rest[k] = IF k <= Len(left) THEN left[k] ELSE right[k - Len(left)]
    BY <1>5, <2>1, <2>2, <2>4
  <2>. QED BY <2>3, <2>4, <2>5, <2>6
<1>7. ASSUME NEW k \in 1..(i - 1) PROVE k \in DOMAIN rest /\ rest[k] = pending[k]
  <2>1. Len(left) = i - 1 /\ Len(rest) = (i - 1) + (Len(pending) - i)
    BY <1>3, <1>4, <1>6
  <2>2. k \in 1..Len(rest) /\ k <= Len(left)
    BY <1>2, <2>1
  <2>3. rest[k] = left[k]
    BY <1>6, <2>2
  <2>. QED BY <1>3, <1>6, <2>2, <2>3
<1>8. ASSUME NEW k \in (i + 1)..Len(pending)
      PROVE  k - 1 \in DOMAIN rest /\ rest[k - 1] = pending[k]
  <2>1. k - 1 \in 1..Len(rest) /\ ~(k - 1 <= Len(left)) /\ k - i \in 1..(Len(pending) - i)
    <3>1. Len(left) = i - 1 /\ Len(rest) = Len(pending) - 1
      BY <1>2, <1>3, <1>4, <1>6
    <3>2. k \in Nat /\ i + 1 <= k /\ k <= Len(pending)
      BY <1>2
    <3>. QED BY <1>2, <3>1, <3>2
  <2>2. (k - 1) - Len(left) = k - i /\ (k - i) + i = k
    BY <1>2, <1>3
  <2>3. rest[k - 1] = right[k - i]
    BY <1>6, <2>1, <2>2
  <2>4. right[k - i] = pending[(k - i) + i]
    BY <1>4, <2>1
  <2>. QED BY <1>6, <2>1, <2>2, <2>3, <2>4
<1>9. ASSUME NEW k \in DOMAIN rest
      PROVE  IF k < i THEN rest[k] = pending[k] ELSE rest[k] = pending[k + 1]
  <2>1. CASE k < i
    BY <1>2, <1>6, <1>7, <2>1
  <2>2. CASE ~(k < i)
    <3>1. k + 1 \in (i + 1)..Len(pending) /\ (k + 1) - 1 = k
      <4>1. Len(rest) = (i - 1) + (Len(pending) - i)
        BY <1>3, <1>4, <1>6
      <4>2. k \in 1..Len(rest)
        BY <1>6
      <4>. QED BY <1>2, <2>2, <4>1, <4>2
    <3>2. rest[(k + 1) - 1] = pending[k + 1]
      BY <1>8, <3>1
    <3>. QED BY <2>2, <3>1, <3>2
  <2>. QED BY <2>1, <2>2
<1>10. Len(rest) = Len(pending) - 1
  BY <1>2, <1>3, <1>4, <1>6
<1>. QED BY <1>6, <1>7, <1>8, <1>9, <1>10

LEMMA KeptTwice ==
    ASSUME NEW table \in Tables, NEW after, NEW last, NEW j \in Journeys,
           Kept(table, after, j), Kept(after, last, j)
    PROVE  Kept(table, last, j)
BY DEF Kept, Tables, LedgerRows

\* A timeout drains the queue without the waiter it refuses.
LEMMA TimeoutResult ==
    ASSUME NEW p \in Policies, NEW table \in Tables, IsFiniteSet(Admitted(table)),
           NEW pending \in Seq(Waiters), QueuedOnce(pending),
           clock \in Nat, prices \in [unitPrice: UnitPrices, expiresAt: Nat],
           NEW i \in DOMAIN pending, NEW j \in Journeys, pending[i].journey = j,
           NEW drained, drained = Drain(p, Expire(table), RemoveAt(pending, i)),
           NEW result, result = [drained EXCEPT !.refused = @ \cup {j}]
    PROVE  DrainSoFar(p, table, pending, Len(pending), result)
<1>1. PICK expired, rest : expired = Expire(table) /\ rest = RemoveAt(pending, i)
  OBVIOUS
<1>2. /\ expired \in Tables /\ Admitted(expired) = Admitted(table)
      /\ \A k \in Journeys : /\ Kept(table, expired, k)
                             /\ expired[k].state = "absent" <=> table[k].state = "absent"
  BY <1>1, ExpireEnds
<1>3. /\ rest \in Seq(Waiters) /\ Len(rest) = Len(pending) - 1
      /\ \A k \in 1..(i - 1) : k \in DOMAIN rest /\ rest[k] = pending[k]
      /\ \A k \in (i + 1)..Len(pending) : k - 1 \in DOMAIN rest /\ rest[k - 1] = pending[k]
      /\ \A k \in DOMAIN rest : IF k < i THEN rest[k] = pending[k] ELSE rest[k] = pending[k + 1]
  BY <1>1, RemoveWaiter
<1>4. /\ DOMAIN rest = 1..Len(rest) /\ Len(rest) \in Nat
      /\ DOMAIN pending = 1..Len(pending) /\ Len(pending) \in Nat /\ i \in 1..Len(pending)
  BY <1>3
<1>5. \A k \in 1..Len(rest) : \E m \in 1..Len(pending) : rest[k] = pending[m]
  <2>. SUFFICES ASSUME NEW k \in 1..Len(rest) PROVE \E m \in 1..Len(pending) : rest[k] = pending[m]
    OBVIOUS
  <2>1. k \in 1..Len(pending) /\ k + 1 \in 1..Len(pending)
    BY <1>3, <1>4
  <2>2. rest[k] = pending[k] \/ rest[k] = pending[k + 1]
    BY <1>3, <1>4
  <2>. QED BY <2>1, <2>2
<1>6. \A m \in 1..Len(pending) : m = i \/ \E k \in 1..Len(rest) : rest[k] = pending[m]
  <2>. SUFFICES ASSUME NEW m \in 1..Len(pending), m # i
                PROVE  \E k \in 1..Len(rest) : rest[k] = pending[m]
    OBVIOUS
  <2>1. CASE m < i
    BY <1>3, <1>4, <2>1
  <2>2. CASE m > i
    <3>1. m \in (i + 1)..Len(pending)
      BY <1>4, <2>2
    <3>. QED BY <1>3, <1>4, <3>1
  <2>. QED BY <1>4, <2>1, <2>2
<1>7. QueuedOnce(rest)
  <2>. SUFFICES ASSUME NEW k \in DOMAIN rest, NEW m \in DOMAIN rest,
                       rest[k].journey = rest[m].journey
                PROVE  k = m
    BY DEF QueuedOnce
  <2>. DEFINE at(n) == IF n < i THEN n ELSE n + 1
  <2>1. /\ at(k) \in DOMAIN pending /\ rest[k] = pending[at(k)]
        /\ at(m) \in DOMAIN pending /\ rest[m] = pending[at(m)]
    BY <1>3, <1>4
  <2>2. at(k) = at(m)
    <3>. HIDE DEF at
    <3>. QED BY <2>1 DEF QueuedOnce
  <2>. QED BY <1>4, <2>2
<1>8. DrainSoFar(p, expired, rest, Len(rest), drained)
  BY <1>1, <1>2, <1>3, <1>7, DrainOK
<1>9. drained \in Results
  BY <1>8 DEF DrainSoFar
<1>10. /\ result.rows = drained.rows /\ result.queue = drained.queue
       /\ result.admitted = drained.admitted /\ result.refused = drained.refused \cup {j}
       /\ result \in Results
  BY <1>9 DEF Results
<1>11. \A k \in result.admitted : table[k].state = "absent" /\ result.rows[k] = Fresh(p)
  <2>1. \A k \in drained.admitted : expired[k].state = "absent" /\ drained.rows[k] = Fresh(p)
    BY <1>8 DEF DrainSoFar
  <2>2. drained.admitted \in SUBSET Journeys
    BY <1>9 DEF Results
  <2>. QED BY <1>2, <1>10, <2>1, <2>2
<1>12. \A k \in Journeys \ result.admitted : Kept(table, result.rows, k)
  <2>1. \A k \in Journeys \ drained.admitted : Kept(expired, drained.rows, k)
    BY <1>8 DEF DrainSoFar
  <2>. QED BY <1>2, <1>10, <2>1, KeptTwice
<1>13. \A k \in result.admitted \cup result.refused :
        \E m \in 1..Len(pending) : pending[m].journey = k
  <2>1. \A k \in drained.admitted \cup drained.refused : \E m \in 1..Len(rest) : rest[m].journey = k
    BY <1>8 DEF DrainSoFar
  <2>. QED BY <1>4, <1>5, <1>10, <2>1
<1>14. \A m \in 1..Len(pending) : \/ pending[m].journey \in result.admitted \cup result.refused
                                  \/ \E k \in DOMAIN result.queue : result.queue[k] = pending[m]
  <2>1. \A m \in 1..Len(rest) : \/ rest[m].journey \in drained.admitted \cup drained.refused
                                \/ \E k \in DOMAIN drained.queue : drained.queue[k] = rest[m]
    BY <1>8 DEF DrainSoFar
  <2>2. ASSUME NEW m \in 1..Len(pending)
        PROVE  \/ pending[m].journey \in result.admitted \cup result.refused
               \/ \E k \in DOMAIN result.queue : result.queue[k] = pending[m]
    <3>1. CASE m = i
      BY <1>10, <3>1
    <3>2. CASE m # i
      <4>1. PICK k \in 1..Len(rest) : rest[k] = pending[m]
        BY <1>6, <3>2
      <4>. QED BY <1>10, <2>1, <4>1
    <3>. QED BY <3>1, <3>2
  <2>. QED BY <2>2
<1>15. \A k \in DOMAIN result.queue :
        /\ result.queue[k].journey \notin result.admitted
        /\ \E m \in 1..Len(pending) : result.queue[k] = pending[m]
        /\ \A m \in DOMAIN result.queue : result.queue[m].journey = result.queue[k].journey => m = k
  <2>1. \A k \in DOMAIN drained.queue :
        /\ drained.queue[k].journey \notin drained.admitted
        /\ \E m \in 1..Len(rest) : drained.queue[k] = rest[m]
        /\ \A m \in DOMAIN drained.queue : drained.queue[m].journey = drained.queue[k].journey => m = k
    BY <1>8 DEF DrainSoFar
  <2>. QED BY <1>5, <1>10, <2>1
<1>16. IsFiniteSet(Admitted(result.rows)) /\ Within(p, result.rows, result.admitted)
  BY <1>8, <1>10 DEF DrainSoFar
<1>. QED BY <1>10, <1>11, <1>12, <1>13, <1>14, <1>15, <1>16 DEF DrainSoFar

LEMMA TimeoutStep ==
    ASSUME DemoInv, NEW j \in Journeys, QueueTimeout(j)
    PROVE  DemoInv' /\ LedgerStep
<1>1. /\ up /\ clock' = clock /\ policy' = policy /\ prices' = prices /\ updates' = updates
      /\ up' = up /\ boots' = boots /\ metered' = metered
  BY DEF QueueTimeout
<1>2. PICK i \in DOMAIN queue :
        /\ queue[i].journey = j
        /\ LET drained == Drain(policy, Expire(rows), RemoveAt(queue, i)) IN
           Answer([drained EXCEPT !.refused = @ \cup {j}], collectors, controller)
  BY DEF QueueTimeout
<1>3. PICK drained, result :
        /\ drained = Drain(policy, Expire(rows), RemoveAt(queue, i))
        /\ result = [drained EXCEPT !.refused = @ \cup {j}]
  OBVIOUS
<1>4. Answer(result, collectors, controller)
  BY <1>2, <1>3
<1>5. DrainSoFar(policy, rows, queue, Len(queue), result)
  BY <1>2, <1>3, InvTypes, TimeoutResult
<1>6. Coherent(rows, queue, collectors, controller, metered)' /\ LedgerStep
  <2>1. \A k \in Journeys : RowEnds(rows[k], rows[k])
    BY DEF RowEnds
  <2>. QED BY <1>1, <1>4, <1>5, <2>1, InvTypes, AnswerStep
<1>7. DemoInv'
  <2>1. updates \in [policy: 0..MaxUpdates, prices: 0..MaxUpdates]
    BY DEF DemoInv, DemoTypeOK
  <2>. QED BY <1>1, <1>6, <2>1, InvTypes, InvAgain
<1>. QED BY <1>6, <1>7

LEMMA RowNat ==
    ASSUME NEW row \in LedgerRows
    PROVE  row.unitPrice \in Nat /\ row.preauthorized \in Nat
<1>1. (row.unitPrice \in UnitPrices \/ row.unitPrice = 0) /\ row.preauthorized \in Nat
  BY DEF LedgerRows
<1>2. CASE row.unitPrice \in UnitPrices
  BY <1>1, <1>2, DemoBoundsAssumption
<1>3. CASE row.unitPrice = 0
  BY <1>1, <1>3
<1>. QED BY <1>1, <1>2, <1>3

LEMMA SettleRowOK ==
    ASSUME NEW row \in LedgerRows, row.state \in {"reserved", "forfeited"},
           row.state = "forfeited" => row.charged = row.preauthorized,
           NEW usage \in Nat, row.state = "reserved" => ~(usage * row.unitPrice > row.preauthorized),
           NEW outcome, NEW next, next = SettleRow(row, outcome, usage)
    PROVE  /\ next \in LedgerRows /\ RowEnds(row, next)
           /\ next.state \in {"settled", "forfeited"}
           /\ next.state = "forfeited" => next.charged = next.preauthorized
           /\ next.charged <= next.preauthorized
           /\ next.charged = next.preauthorized \/ next.charged >= usage * next.unitPrice
<1>1. row.unitPrice \in Nat /\ row.preauthorized \in Nat
  BY RowNat
<1>2. PICK cost : cost = usage * row.unitPrice
  OBVIOUS
<1>3. cost \in Nat
  BY <1>1, <1>2
<1>4. CASE row.state = "forfeited"
  BY <1>1, <1>4 DEF SettleRow, RowEnds
<1>5. CASE row.state = "reserved" /\ outcome = "failed" /\ usage = 0
  <2>1. next = [row EXCEPT !.state = "forfeited", !.charged = row.preauthorized]
    BY <1>5 DEF SettleRow
  <2>2. /\ next.state = "forfeited" /\ next.charged = row.preauthorized
        /\ next.preauthorized = row.preauthorized /\ next.unitPrice = row.unitPrice
        /\ next \in LedgerRows
    BY <1>1, <2>1 DEF LedgerRows, ReservationStates
  <2>. QED BY <1>1, <1>5, <2>2 DEF RowEnds
<1>6. CASE row.state = "reserved" /\ ~(outcome = "failed" /\ usage = 0)
  <2>1. next = [row EXCEPT !.state = "settled", !.charged = cost]
    BY <1>2, <1>6 DEF SettleRow
  <2>2. /\ next.state = "settled" /\ next.charged = cost
        /\ next.preauthorized = row.preauthorized /\ next.unitPrice = row.unitPrice
        /\ next \in LedgerRows
    BY <1>1, <1>3, <2>1 DEF LedgerRows, ReservationStates
  <2>3. cost <= row.preauthorized
    BY <1>1, <1>2, <1>3, <1>6
  <2>. QED BY <1>1, <1>2, <1>3, <1>6, <2>2, <2>3 DEF RowEnds
<1>. QED BY <1>4, <1>5, <1>6

\* The controller of an admitted journey is past its request.
LEMMA CallerMoves ==
    ASSUME NEW table, NEW pending, NEW kept, NEW callers, NEW units,
           Coherent(table, pending, kept, callers, units),
           NEW j \in Journeys, callers[j] = "running" \/ callers[j] = "waiting",
           NEW state \in ControllerStates \ {"idle", "waiting"},
           NEW next, next = [callers EXCEPT ![j] = state]
    PROVE  Coherent(table, pending, kept, next, units)
<1>1. callers \in [Journeys -> ControllerStates]
  BY DEF Coherent
<1>2. /\ next \in [Journeys -> ControllerStates]
      /\ \A k \in Journeys : next[k] # "idle" \/ callers[k] = "idle"
      /\ \A k \in Journeys : callers[k] # "idle" => next[k] # "idle"
      /\ \A k \in Journeys : next[k] = "waiting" => callers[k] = "waiting"
  BY <1>1
<1>3. \A k \in Journeys : JourneyOK(table[k], kept[k], next[k], units[k])
  <2>1. \A k \in Journeys : JourneyOK(table[k], kept[k], callers[k], units[k])
    BY DEF Coherent
  <2>. QED BY <1>2, <2>1 DEF JourneyOK
<1>4. \A i \in DOMAIN pending : pending[i].journey \in Journeys
  <2>1. \A i \in DOMAIN pending : pending[i] \in Waiters
    BY DEF Coherent
  <2>. QED BY <2>1 DEF Waiters
<1>. QED BY <1>2, <1>3, <1>4 DEF Coherent

LEMMA SettleStep ==
    ASSUME DemoInv, NEW j \in Journeys, NEW outcome, SettleJourney(j, outcome)
    PROVE  DemoInv' /\ LedgerStep
<1>. DEFINE finished == [controller EXCEPT ![j] = "finished"]
<1>1. /\ up /\ controller[j] = "running"
      /\ clock' = clock /\ policy' = policy /\ prices' = prices /\ updates' = updates
      /\ up' = up /\ boots' = boots /\ metered' = metered
  BY DEF SettleJourney
<1>2. PICK callers : callers = finished
  OBVIOUS
<1>3. Coherent(rows, queue, collectors, callers, metered)
  <2>1. "finished" \in ControllerStates \ {"idle", "waiting"}
    BY DEF ControllerStates
  <2>. QED BY <1>1, <1>2, <2>1, InvTypes, CallerMoves
<1>4. /\ collectors \in [Journeys -> Collectors] /\ rows \in Tables
      /\ \A k \in Journeys : JourneyOK(rows[k], collectors[k], callers[k], metered[k])
      /\ metered \in [Journeys -> Nat]
  BY <1>3 DEF Coherent
<1>. SUFFICES Coherent(rows, queue, collectors, controller, metered)' /\ LedgerStep
  <2>. SUFFICES ASSUME Coherent(rows, queue, collectors, controller, metered)' PROVE DemoInv'
    OBVIOUS
  <2>1. updates \in [policy: 0..MaxUpdates, prices: 0..MaxUpdates]
    BY DEF DemoInv, DemoTypeOK
  <2>. QED BY <1>1, <2>1, InvTypes, InvAgain
<1>5. CASE /\ controller' = finished
           /\ UNCHANGED <<rows, queue, collectors>>
  <2>1. controller' = callers
    BY <1>2, <1>5
  <2>2. Coherent(rows', queue', collectors', controller', metered')
    BY <1>1, <1>3, <1>5, <2>1
  <2>3. \A k \in Journeys : RowEnds(rows[k], rows'[k])
    BY <1>5 DEF RowEnds
  <2>. QED BY <2>2, <2>3, QuietLedger
<1>6. CASE /\ controller' = finished
           /\ collectors[j].state = "open"
           /\ collectors' = [collectors EXCEPT ![j].state = "sealed"]
           /\ UNCHANGED <<rows, queue>>
  <2>1. controller' = callers
    BY <1>2, <1>6
  <2>2. PICK kept : kept = [collectors EXCEPT ![j].state = "sealed"]
    OBVIOUS
  <2>3. /\ kept \in [Journeys -> Collectors]
        /\ kept[j].state = "sealed" /\ kept[j].usage = collectors[j].usage
        /\ \A k \in Journeys \ {j} : kept[k] = collectors[k]
    BY <1>4, <2>2 DEF Collectors
  <2>4. JourneyOK(rows[j], kept[j], callers[j], metered[j])
    <3>1. JourneyOK(rows[j], collectors[j], callers[j], metered[j])
      BY <1>4
    <3>2. rows[j].state # "absent"
      BY <1>6, <3>1 DEF JourneyOK, NoCollector
    <3>. QED BY <1>6, <2>3, <3>1, <3>2 DEF JourneyOK
  <2>5. \A k \in Journeys : JourneyOK(rows[k], kept[k], callers[k], metered[k])
    BY <1>4, <2>3, <2>4
  <2>6. Coherent(rows, queue, kept, callers, metered)
    BY <1>3, <2>3, <2>5 DEF Coherent
  <2>7. collectors' = kept
    BY <1>6, <2>2
  <2>8. Coherent(rows', queue', collectors', controller', metered')
    BY <1>1, <1>6, <2>1, <2>6, <2>7
  <2>9. \A k \in Journeys : RowEnds(rows[k], rows'[k])
    BY <1>6 DEF RowEnds
  <2>. QED BY <2>8, <2>9, QuietLedger
<1>7. CASE /\ Settleable(j, outcome) /\ ~SettleFails(j)
           /\ LET table == [Expire(rows) EXCEPT
                    ![j] = SettleRow(@, outcome, collectors[j].usage)] IN
              Answer(Drain(policy, table, queue), WithoutCollector(j), finished)
  <2>1. PICK expired : expired = Expire(rows)
    OBVIOUS
  <2>2. PICK table, kept, next :
          /\ next = SettleRow(expired[j], outcome, collectors[j].usage)
          /\ table = [expired EXCEPT ![j] = next] /\ kept = WithoutCollector(j)
    OBVIOUS
  <2>3. PICK result : result = Drain(policy, table, queue)
    OBVIOUS
  <2>4. Answer(result, kept, callers)
    <3>1. table = [Expire(rows) EXCEPT ![j] = SettleRow(@, outcome, collectors[j].usage)]
      BY <2>1, <2>2
    <3>. QED BY <1>2, <1>7, <2>2, <2>3, <3>1
  <2>5. Coherent(expired, queue, collectors, callers, metered)
    BY <1>3, <2>1, ExpireCoherent
  <2>6. /\ expired \in Tables /\ IsFiniteSet(Admitted(expired))
        /\ \A k \in Journeys : JourneyOK(expired[k], collectors[k], callers[k], metered[k])
        /\ \A k \in Journeys : RowEnds(rows[k], expired[k])
    BY <1>4, <2>1, <2>5, ExpireEnds DEF Coherent
  <2>7. /\ collectors[j].state = "open" /\ collectors[j].usage = metered[j]
        /\ expired[j].state \in {"reserved", "forfeited"} /\ expired[j] \in LedgerRows
    BY <1>7, <2>6 DEF Settleable, JourneyOK, Tables
  <2>8. expired[j].state = "reserved" => ~(metered[j] * expired[j].unitPrice > expired[j].preauthorized)
    <3>1. ASSUME expired[j].state = "reserved" PROVE expired[j] = rows[j]
      <4>1. rows[j] \in LedgerRows
        BY <1>4 DEF Tables
      <4>2. ASSUME expired[j] # rows[j] PROVE expired[j].state = "forfeited"
        BY <2>1, <4>1, <4>2 DEF Expire, LedgerRows
      <4>. QED BY <3>1, <4>2
    <3>. QED BY <1>7, <2>1, <2>7, <3>1 DEF SettleFails, Cost
  <2>9. /\ next \in LedgerRows /\ RowEnds(expired[j], next)
        /\ next.state \in {"settled", "forfeited"}
        /\ next.state = "forfeited" => next.charged = next.preauthorized
        /\ next.charged <= next.preauthorized
        /\ next.charged = next.preauthorized \/ next.charged >= metered[j] * next.unitPrice
    <3>1. expired[j].state = "forfeited" => expired[j].charged = expired[j].preauthorized
      BY <2>6 DEF JourneyOK
    <3>. QED BY <1>4, <2>2, <2>7, <2>8, <3>1, SettleRowOK
  <2>10. /\ table \in Tables /\ table[j] = next
         /\ \A k \in Journeys \ {j} : table[k] = expired[k]
    BY <2>2, <2>6, <2>9 DEF Tables
  <2>11. Admitted(table) = Admitted(expired)
    BY <2>7, <2>9, <2>10 DEF Admitted
  <2>12. /\ kept \in [Journeys -> Collectors] /\ kept[j] = NoCollector
         /\ \A k \in Journeys \ {j} : kept[k] = collectors[k]
    <3>1. NoCollector \in Collectors
      BY DemoBoundsAssumption DEF NoCollector, Collectors
    <3>. QED BY <1>4, <2>2, <3>1 DEF WithoutCollector
  <2>13. JourneyOK(table[j], kept[j], callers[j], metered[j])
    <3>1. callers[j] # "idle"
      BY <2>6, <2>7 DEF JourneyOK
    <3>. QED BY <2>9, <2>10, <2>12, <3>1 DEF JourneyOK, NoCollector
  <2>14. \A k \in Journeys : JourneyOK(table[k], kept[k], callers[k], metered[k])
    BY <2>6, <2>10, <2>12, <2>13
  <2>15. \A i \in DOMAIN queue : table[queue[i].journey].state = "absent"
    <3>1. \A i \in DOMAIN queue : queue[i].journey \in Journeys
      <4>1. \A i \in DOMAIN queue : queue[i] \in Waiters
        BY <2>5 DEF Coherent
      <4>. QED BY <4>1 DEF Waiters
    <3>2. \A i \in DOMAIN queue : expired[queue[i].journey].state = "absent"
      BY <2>5 DEF Coherent
    <3>. QED BY <2>7, <2>10, <3>1, <3>2
  <2>16. Coherent(table, queue, kept, callers, metered)
    BY <2>5, <2>10, <2>11, <2>12, <2>14, <2>15 DEF Coherent
  <2>17. \A k \in Journeys : RowEnds(rows[k], table[k])
    <3>1. \A k \in Journeys : rows[k] \in LedgerRows
      BY <1>4 DEF Tables
    <3>2. RowEnds(rows[j], table[j])
      BY <2>6, <2>9, <2>10, <3>1, RowEndsTwice
    <3>. QED BY <2>6, <2>10, <3>2
  <2>18. DrainSoFar(policy, table, queue, Len(queue), result)
    BY <2>3, <2>6, <2>10, <2>11, InvTypes, DrainOK
  <2>. QED BY <1>1, <2>4, <2>16, <2>17, <2>18, InvTypes, AnswerStep
<1>8. \/ /\ controller' = finished
         /\ UNCHANGED <<rows, queue, collectors>>
      \/ /\ controller' = finished
         /\ collectors[j].state = "open"
         /\ collectors' = [collectors EXCEPT ![j].state = "sealed"]
         /\ UNCHANGED <<rows, queue>>
      \/ /\ Settleable(j, outcome) /\ ~SettleFails(j)
         /\ LET table == [Expire(rows) EXCEPT
                  ![j] = SettleRow(@, outcome, collectors[j].usage)] IN
            Answer(Drain(policy, table, queue), WithoutCollector(j), finished)
  BY Zenon DEF SettleJourney, Settleable
<1>. QED BY <1>5, <1>6, <1>7, <1>8

\* A step that leaves the ledger, and reads nothing of the queue's.
LEMMA UsageStep ==
    ASSUME DemoInv, NEW j \in Journeys, RecordUsage(j)
    PROVE  DemoInv' /\ LedgerStep
<1>1. /\ up /\ collectors[j].state = "open" /\ collectors[j].usage < MaxUsage
      /\ collectors' = [collectors EXCEPT ![j].usage = @ + 1]
      /\ metered' = [metered EXCEPT ![j] = @ + 1]
      /\ clock' = clock /\ rows' = rows /\ policy' = policy /\ prices' = prices
      /\ updates' = updates /\ up' = up /\ boots' = boots /\ queue' = queue
      /\ controller' = controller
  BY DEF RecordUsage, ledgerVars
<1>2. LedgerStep
  <2>1. \A k \in Journeys : RowEnds(rows[k], rows'[k])
    BY <1>1 DEF RowEnds
  <2>. QED BY <2>1, QuietLedger
<1>3. /\ rows \in Tables /\ collectors \in [Journeys -> Collectors]
      /\ metered \in [Journeys -> Nat]
      /\ \A k \in Journeys : JourneyOK(rows[k], collectors[k], controller[k], metered[k])
  BY InvTypes DEF Coherent
<1>4. PICK kept, units :
        kept = [collectors EXCEPT ![j].usage = @ + 1] /\ units = [metered EXCEPT ![j] = @ + 1]
  OBVIOUS
<1>5. collectors[j].usage \in Nat /\ collectors[j].usage + 1 \in 0..MaxUsage
  <2>1. collectors[j].usage \in 0..MaxUsage
    BY <1>3 DEF Collectors
  <2>. QED BY <1>1, <2>1, DemoBoundsAssumption
<1>6. /\ kept \in [Journeys -> Collectors] /\ units \in [Journeys -> Nat]
      /\ kept[j].state = "open" /\ kept[j].usage = collectors[j].usage + 1
      /\ units[j] = metered[j] + 1
      /\ \A k \in Journeys \ {j} : kept[k] = collectors[k] /\ units[k] = metered[k]
  BY <1>1, <1>3, <1>4, <1>5 DEF Collectors
<1>7. JourneyOK(rows[j], kept[j], controller[j], units[j])
  <2>1. JourneyOK(rows[j], collectors[j], controller[j], metered[j])
    BY <1>3
  <2>2. rows[j].state \in {"reserved", "forfeited"} /\ collectors[j].usage = metered[j]
    BY <1>1, <2>1 DEF JourneyOK
  <2>. QED BY <1>6, <2>1, <2>2 DEF JourneyOK
<1>8. \A k \in Journeys : JourneyOK(rows[k], kept[k], controller[k], units[k])
  BY <1>3, <1>6, <1>7
<1>9. Coherent(rows, queue, kept, controller, units)
  BY <1>6, <1>8, InvTypes DEF Coherent
<1>10. Coherent(rows', queue', collectors', controller', metered')
  BY <1>1, <1>4, <1>9
<1>11. DemoInv'
  <2>1. updates \in [policy: 0..MaxUpdates, prices: 0..MaxUpdates]
    BY DEF DemoInv, DemoTypeOK
  <2>. QED BY <1>1, <1>10, <2>1, InvTypes, InvAgain
<1>. QED BY <1>2, <1>11

LEMMA PricesStep ==
    ASSUME DemoInv, NEW unitPrice \in UnitPrices, UpdatePrices(unitPrice)
    PROVE  DemoInv' /\ LedgerStep
<1>1. /\ up /\ updates.prices < MaxUpdates
      /\ prices' = [unitPrice |-> unitPrice, expiresAt |-> clock + EvidenceLifetime]
      /\ updates' = [updates EXCEPT !.prices = @ + 1]
      /\ clock' = clock /\ rows' = rows /\ policy' = policy /\ up' = up /\ boots' = boots
      /\ queue' = queue /\ collectors' = collectors /\ controller' = controller
      /\ metered' = metered
  BY DEF UpdatePrices, serviceVars
<1>2. LedgerStep
  <2>1. \A k \in Journeys : RowEnds(rows[k], rows'[k])
    BY <1>1 DEF RowEnds
  <2>. QED BY <2>1, QuietLedger
<1>3. Coherent(rows', queue', collectors', controller', metered')
  BY <1>1, InvTypes
<1>4. prices' \in [unitPrice: UnitPrices, expiresAt: Nat]
  <2>1. clock + EvidenceLifetime \in Nat
    BY InvTypes, DemoBoundsAssumption
  <2>. QED BY <1>1, <2>1
<1>5. updates' \in [policy: 0..MaxUpdates, prices: 0..MaxUpdates]
  <2>1. updates \in [policy: 0..MaxUpdates, prices: 0..MaxUpdates] /\ MaxUpdates \in Nat
    BY DemoBoundsAssumption DEF DemoInv, DemoTypeOK
  <2>. QED BY <1>1, <2>1
<1>6. DemoInv'
  BY <1>1, <1>3, <1>4, <1>5, InvTypes, InvAgain
<1>. QED BY <1>2, <1>6

LEMMA GiveUpStep ==
    ASSUME DemoInv, NEW j \in Journeys, GiveUp(j)
    PROVE  DemoInv' /\ LedgerStep
<1>1. /\ clock' = clock /\ rows' = rows /\ policy' = policy /\ prices' = prices
      /\ updates' = updates /\ up' = up /\ boots' = boots /\ queue' = queue
      /\ collectors' = collectors /\ metered' = metered
  BY DEF GiveUp, ledgerVars, serviceVars
<1>2. LedgerStep
  <2>1. \A k \in Journeys : RowEnds(rows[k], rows'[k])
    BY <1>1 DEF RowEnds
  <2>. QED BY <2>1, QuietLedger
<1>3. \E state \in {"gone", "finished"} :
        /\ controller[j] = "waiting" \/ controller[j] = "running"
        /\ controller' = [controller EXCEPT ![j] = state]
  BY DEF GiveUp
<1>4. PICK state, callers :
        /\ state \in {"gone", "finished"}
        /\ controller[j] = "waiting" \/ controller[j] = "running"
        /\ callers = [controller EXCEPT ![j] = state] /\ controller' = callers
  BY <1>3
<1>5. state \in ControllerStates \ {"idle", "waiting"}
  BY <1>4 DEF ControllerStates
<1>6. Coherent(rows, queue, collectors, callers, metered)
  BY <1>4, <1>5, InvTypes, CallerMoves
<1>7. Coherent(rows', queue', collectors', controller', metered')
  BY <1>1, <1>4, <1>6
<1>8. DemoInv'
  <2>1. /\ DemoTypeOK
        /\ ~up => queue = <<>> /\ \A k \in Journeys : collectors[k] = NoCollector
    BY DEF DemoInv
  <2>2. controller' \in [Journeys -> ControllerStates]
    BY <1>7 DEF Coherent
  <2>3. DemoTypeOK'
    BY <1>1, <2>1, <2>2 DEF DemoTypeOK
  <2>. QED BY <1>1, <1>7, <2>1, <2>3 DEF DemoInv
<1>. QED BY <1>2, <1>8

\* Waiters and collectors are lost with the process, reservations are not.
LEMMA StopStep ==
    ASSUME DemoInv, StopService
    PROVE  DemoInv' /\ LedgerStep
<1>1. /\ up' = FALSE /\ queue' = <<>>
      /\ collectors' = [j \in Journeys |-> NoCollector]
      /\ controller' = [j \in Journeys |->
            IF controller[j] = "waiting" THEN "gone" ELSE controller[j]]
      /\ clock' = clock /\ rows' = rows /\ policy' = policy /\ prices' = prices
      /\ updates' = updates /\ boots' = boots /\ metered' = metered
  BY DEF StopService, ledgerVars
<1>2. LedgerStep
  <2>1. \A k \in Journeys : RowEnds(rows[k], rows'[k])
    BY <1>1 DEF RowEnds
  <2>. QED BY <2>1, QuietLedger
<1>3. PICK kept, callers : kept = collectors' /\ callers = controller'
  OBVIOUS
<1>4. /\ rows \in Tables /\ IsFiniteSet(Admitted(rows)) /\ metered \in [Journeys -> Nat]
      /\ controller \in [Journeys -> ControllerStates]
      /\ \A k \in Journeys : JourneyOK(rows[k], collectors[k], controller[k], metered[k])
  BY InvTypes DEF Coherent
<1>5. /\ kept \in [Journeys -> Collectors] /\ \A j \in Journeys : kept[j] = NoCollector
  <2>1. NoCollector \in Collectors
    BY DemoBoundsAssumption DEF NoCollector, Collectors
  <2>. QED BY <1>1, <1>3, <2>1
<1>6. /\ callers \in [Journeys -> ControllerStates]
      /\ \A j \in Journeys : callers[j] # "waiting" /\ (controller[j] # "idle" => callers[j] # "idle")
  BY <1>1, <1>3, <1>4 DEF ControllerStates
<1>7. \A k \in Journeys : JourneyOK(rows[k], kept[k], callers[k], metered[k])
  BY <1>4, <1>5, <1>6 DEF JourneyOK, NoCollector
<1>8. Coherent(rows, <<>>, kept, callers, metered)
  BY <1>4, <1>5, <1>6, <1>7 DEF Coherent, QueuedOnce
<1>9. Coherent(rows', queue', collectors', controller', metered')
  BY <1>1, <1>3, <1>8
<1>10. DemoInv'
  <2>1. DemoTypeOK
    BY DEF DemoInv
  <2>2. controller' \in [Journeys -> ControllerStates] /\ collectors' \in [Journeys -> Collectors]
    BY <1>9 DEF Coherent
  <2>3. DemoTypeOK'
    <3>1. <<>> \in Seq(Waiters)
      OBVIOUS
    <3>2. collectors' \in [Journeys -> [state: {"none", "open", "sealed"}, usage: 0..MaxUsage]]
      BY <2>2 DEF Collectors
    <3>. QED BY <1>1, <2>1, <2>2, <3>1, <3>2 DEF DemoTypeOK
  <2>. QED BY <1>1, <1>9, <2>3 DEF DemoInv
<1>. QED BY <1>2, <1>10

LEMMA StartStep ==
    ASSUME DemoInv, StartService
    PROVE  DemoInv' /\ LedgerStep
<1>1. /\ up' = TRUE /\ boots < MaxBoots /\ boots' = boots + 1
      /\ clock' = clock /\ rows' = rows /\ policy' = policy /\ prices' = prices
      /\ updates' = updates /\ queue' = queue /\ collectors' = collectors
      /\ controller' = controller /\ metered' = metered
  BY DEF StartService, ledgerVars
<1>2. LedgerStep
  <2>1. \A k \in Journeys : RowEnds(rows[k], rows'[k])
    BY <1>1 DEF RowEnds
  <2>. QED BY <2>1, QuietLedger
<1>3. Coherent(rows', queue', collectors', controller', metered')
  BY <1>1, InvTypes
<1>4. DemoTypeOK'
  <2>1. DemoTypeOK
    BY DEF DemoInv
  <2>2. boots' \in 1..MaxBoots
    BY <1>1, <2>1, DemoBoundsAssumption DEF DemoTypeOK
  <2>. QED BY <1>1, <2>1, <2>2 DEF DemoTypeOK
<1>5. DemoInv'
  BY <1>1, <1>3, <1>4 DEF DemoInv
<1>. QED BY <1>2, <1>5

LEMMA TickStep ==
    ASSUME DemoInv, DemoTick
    PROVE  DemoInv' /\ LedgerStep
<1>1. /\ clock < MaxTime /\ clock' = clock + 1 /\ up' = up /\ boots' = boots
      /\ rows' = rows /\ policy' = policy /\ prices' = prices
      /\ updates' = updates /\ queue' = queue /\ collectors' = collectors
      /\ controller' = controller /\ metered' = metered
  BY DEF DemoTick, ledgerVars, serviceVars
<1>2. LedgerStep
  <2>1. \A k \in Journeys : RowEnds(rows[k], rows'[k])
    BY <1>1 DEF RowEnds
  <2>. QED BY <2>1, QuietLedger
<1>3. Coherent(rows', queue', collectors', controller', metered')
  BY <1>1, InvTypes
<1>4. DemoTypeOK'
  <2>1. DemoTypeOK
    BY DEF DemoInv
  <2>2. clock' \in 0..MaxTime
    BY <1>1, <2>1, DemoBoundsAssumption DEF DemoTypeOK
  <2>. QED BY <1>1, <2>1, <2>2 DEF DemoTypeOK
<1>5. ~up => queue = <<>> /\ \A k \in Journeys : collectors[k] = NoCollector
  BY DEF DemoInv
<1>6. DemoInv'
  BY <1>1, <1>3, <1>4, <1>5 DEF DemoInv
<1>. QED BY <1>2, <1>6

LEMMA DemoStep == ASSUME DemoInv, [DemoNext]_demoVars PROVE DemoInv' /\ LedgerStep
<1>1. CASE DemoNext
  <2>1. ASSUME NEW j \in Journeys, RequestAdmission(j) PROVE DemoInv' /\ LedgerStep
    BY <2>1, RequestStep
  <2>2. ASSUME NEW j \in Journeys, QueueTimeout(j) PROVE DemoInv' /\ LedgerStep
    BY <2>2, TimeoutStep
  <2>3. ASSUME NEW j \in Journeys, RecordUsage(j) PROVE DemoInv' /\ LedgerStep
    BY <2>3, UsageStep
  <2>4. ASSUME NEW j \in Journeys, GiveUp(j) PROVE DemoInv' /\ LedgerStep
    BY <2>4, GiveUpStep
  <2>5. ASSUME NEW j \in Journeys, NEW outcome \in {"completed", "failed"}, SettleJourney(j, outcome)
        PROVE  DemoInv' /\ LedgerStep
    BY <2>5, SettleStep
  <2>6. CASE Snapshot
    BY <2>6, SnapshotStep
  <2>7. ASSUME NEW p \in Policies, UpdatePolicy(p) PROVE DemoInv' /\ LedgerStep
    BY <2>7, PolicyStep
  <2>8. ASSUME NEW unitPrice \in UnitPrices, UpdatePrices(unitPrice) PROVE DemoInv' /\ LedgerStep
    BY <2>8, PricesStep
  <2>9. CASE StopService
    BY <2>9, StopStep
  <2>10. CASE StartService
    BY <2>10, StartStep
  <2>11. CASE DemoTick
    BY <2>11, TickStep
  <2>. QED BY <1>1, <2>1, <2>2, <2>3, <2>4, <2>5, <2>6, <2>7, <2>8, <2>9, <2>10, <2>11 DEF DemoNext
<1>2. CASE UNCHANGED demoVars
  <2>1. /\ clock' = clock /\ rows' = rows /\ policy' = policy /\ prices' = prices
        /\ updates' = updates /\ up' = up /\ boots' = boots /\ queue' = queue
        /\ collectors' = collectors /\ controller' = controller /\ metered' = metered
    BY <1>2 DEF demoVars, ledgerVars, serviceVars
  <2>2. \A j \in Journeys : RowEnds(rows[j], rows'[j])
    BY <2>1 DEF RowEnds
  <2>3. DemoTypeOK'
    BY <2>1 DEF DemoInv, DemoTypeOK
  <2>4. Coherent(rows', queue', collectors', controller', metered')
    BY <2>1, InvTypes
  <2>5. ~up => queue = <<>> /\ \A k \in Journeys : collectors[k] = NoCollector
    BY DEF DemoInv
  <2>. QED BY <2>1, <2>2, <2>3, <2>4, <2>5, QuietLedger DEF DemoInv
<1>. QED BY <1>1, <1>2

LEMMA DemoInitInv == ASSUME DemoInit PROVE DemoInv
<1>1. DemoTypeOK
  <2>1. AbsentRow \in LedgerRows
    BY DEF AbsentRow, LedgerRows, ReservationStates
  <2>2. NoCollector \in [state: {"none", "open", "sealed"}, usage: 0..MaxUsage]
    BY DemoBoundsAssumption DEF NoCollector
  <2>3. prices \in [unitPrice: UnitPrices, expiresAt: Nat]
    BY DemoBoundsAssumption DEF DemoInit
  <2>4. <<>> \in Seq(Waiters)
    OBVIOUS
  <2>. QED BY <2>1, <2>2, <2>3, <2>4, DemoBoundsAssumption DEF DemoInit, DemoTypeOK, ControllerStates
<1>2. Admitted(rows) = {}
  BY DEF DemoInit, Admitted, AbsentRow
<1>3. IsFiniteSet(Admitted(rows))
  BY <1>2, FS_EmptySet
<1>4. \A j \in Journeys : JourneyOK(rows[j], collectors[j], controller[j], metered[j])
  BY DEF DemoInit, JourneyOK, AbsentRow, NoCollector
<1>5. QueuedOnce(queue) /\ DOMAIN queue = {} /\ \A j \in Journeys : controller[j] # "waiting"
  BY DEF DemoInit, QueuedOnce
<1>6. Coherent(rows, queue, collectors, controller, metered)
  BY <1>1, <1>3, <1>4, <1>5 DEF Coherent, DemoTypeOK, Tables, Collectors
<1>. QED BY <1>1, <1>6 DEF DemoInv, DemoInit

-----------------------------------------------------------------------------
(* The theorems.                                                            *)

\* Ledger, queue, collectors, controllers and acknowledged usage fit together
\* in every state, whatever was queued, settled, lost in a crash or expired.
THEOREM DemoInvariant == DemoSpec => []DemoInv
<1>1. DemoInit => DemoInv
  BY DemoInitInv
<1>2. DemoInv /\ [DemoNext]_demoVars => DemoInv'
  BY DemoStep
<1>. QED BY <1>1, <1>2, PTL DEF DemoSpec

\* Every variable keeps its type: no charge is negative, and no sequence of
\* boots, updates or ticks leaves the ledger's rows malformed.
THEOREM DemoTypes == DemoSpec => []DemoTypeOK
<1>1. DemoInv => DemoTypeOK
  BY DEF DemoInv
<1>. QED BY <1>1, DemoInvariant, PTL

\* ADR-0043: what the service acknowledged is charged, or the preauthorization
\* is, once settleAt or expireInside ended the reservation.
THEOREM DemoChargesUsage == DemoSpec => []MeteredIsCharged
<1>1. DemoInv => MeteredIsCharged
  BY InvTypes DEF Coherent, JourneyOK, MeteredIsCharged
<1>. QED BY <1>1, DemoInvariant, PTL

\* A collector is there for an open or an expired reservation only, and holds
\* all the usage acknowledged for it.
THEOREM DemoKeepsCollectors == DemoSpec => []CollectorsFollowLedger
<1>1. DemoInv => CollectorsFollowLedger
  BY InvTypes DEF Coherent, JourneyOK, CollectorsFollowLedger
<1>. QED BY <1>1, DemoInvariant, PTL

\* ADR-0044: whoever is queued holds no reservation and no collector, is queued
\* once, and a controller that waits has its waiter in a running service.
THEOREM DemoQueueHoldsNothing == DemoSpec => []WaitersHoldNothing
<1>1. ASSUME DemoInv PROVE WaitersHoldNothing
  <2>1. /\ \A j \in Journeys : JourneyOK(rows[j], collectors[j], controller[j], metered[j])
        /\ QueuedOnce(queue) /\ queue \in Seq(Waiters)
        /\ \A i \in DOMAIN queue : rows[queue[i].journey].state = "absent"
        /\ \A j \in Journeys : controller[j] = "waiting" => \E i \in DOMAIN queue : queue[i].journey = j
    BY <1>1, InvTypes DEF Coherent
  <2>2. ASSUME NEW i \in DOMAIN queue
        PROVE  /\ rows[queue[i].journey] = AbsentRow
               /\ collectors[queue[i].journey] = NoCollector
               /\ metered[queue[i].journey] = 0
               /\ \A k \in DOMAIN queue : queue[k].journey = queue[i].journey => k = i
    <3>1. PICK j : j = queue[i].journey
      OBVIOUS
    <3>2. j \in Journeys
      <4>1. queue[i] \in Waiters
        BY <2>1
      <4>. QED BY <3>1, <4>1 DEF Waiters
    <3>3. rows[j] = AbsentRow /\ collectors[j] = NoCollector /\ metered[j] = 0
      BY <2>1, <3>1, <3>2 DEF JourneyOK
    <3>. QED BY <2>1, <3>1, <3>3 DEF QueuedOnce
  <2>3. ASSUME NEW j \in Journeys, controller[j] = "waiting"
        PROVE  up /\ \E i \in DOMAIN queue : queue[i].journey = j
    <3>1. PICK i \in DOMAIN queue : queue[i].journey = j
      BY <2>1, <2>3
    <3>2. queue # <<>>
      BY <3>1
    <3>. QED BY <1>1, <3>1, <3>2 DEF DemoInv
  <2>. QED BY <2>2, <2>3 DEF WaitersHoldNothing
<1>. QED BY <1>1, DemoInvariant, PTL

\* A reservation ends once, whatever settlement, snapshot, policy or price
\* comes after, and keeps the preauthorization and the price it was made with.
THEOREM DemoEndsOnce == DemoSpec => TerminalIsFinal
<1> DEFINE Final ==
        \A j \in Journeys :
            /\ rows[j].state \in {"settled", "forfeited"} => rows'[j] = rows[j]
            /\ rows[j].state # "absent" =>
                /\ rows'[j].preauthorized = rows[j].preauthorized
                /\ rows'[j].unitPrice = rows[j].unitPrice
<1>1. DemoInv /\ [DemoNext]_demoVars => [Final]_demoVars
  <2>. SUFFICES ASSUME DemoInv, [DemoNext]_demoVars PROVE Final
    OBVIOUS
  <2>1. LedgerStep
    BY DemoStep
  <2>2. \A j \in Journeys : rows[j].state = "absent" \/ RowEnds(rows[j], rows'[j])
    BY <2>1 DEF LedgerStep
  <2>. QED BY <2>2 DEF RowEnds
<1>. QED BY <1>1, DemoInvariant, PTL DEF DemoSpec, TerminalIsFinal

\* What a step commits grows only by what it admits.
LEMMA AdmitsNothing ==
    ASSUME DemoInv, NEW after, after \in Tables,
           \A j \in Journeys : RowEnds(rows[j], after[j])
    PROVE  CommittedBy(after, Admitted(after)) <= CommittedBy(rows, Admitted(rows))
<1>1. rows \in Tables /\ IsFiniteSet(Admitted(rows))
  BY InvTypes
<1>2. \A j \in Journeys : after[j].state = "absent" <=> rows[j].state = "absent"
  BY DEF RowEnds
<1>3. Admitted(after) = Admitted(rows) /\ Admitted(rows) \in SUBSET Journeys
  BY <1>2 DEF Admitted
<1>4. ASSUME NEW j \in Admitted(rows) PROVE Committed(after[j]) <= Committed(rows[j])
  <2>1. rows[j] \in LedgerRows /\ RowEnds(rows[j], after[j]) /\ Committed(rows[j]) \in Nat
    BY <1>1, <1>3, CommittedNat DEF Tables
  <2>2. CASE after[j] = rows[j]
    BY <2>1, <2>2
  <2>3. CASE after[j] # rows[j]
    BY <2>1, <2>3 DEF RowEnds, Committed
  <2>. QED BY <2>2, <2>3
<1>5. CommittedBy(after, Admitted(rows)) <= CommittedBy(rows, Admitted(rows))
  BY <1>1, <1>3, <1>4, CommittedLess
<1>. QED BY <1>3, <1>5

\* Every admission, of a newcomer or of any number of waiters that one drain
\* lets in, keeps within the policy in force after the step: money, journeys
\* and cooldown of its day and its source, and reservations at once.
THEOREM DemoKeepsBudget == DemoSpec => BudgetHolds
<1> DEFINE new == Admitted(rows') \ Admitted(rows)
           today == AdmittedOn(rows', Day(clock))
           Budget ==
               /\ new = {} => CommittedBy(rows', Admitted(rows')) <= CommittedBy(rows, Admitted(rows))
               /\ new # {} =>
                    /\ policy'.enabled
                    /\ CommittedBy(rows', Admitted(rows')) <= policy'.total
                    /\ CommittedBy(rows', today) <= policy'.daily
                    /\ Cardinality(Admitted(rows')) <= policy'.totalJourneys
                    /\ Cardinality(today) <= policy'.dailyJourneys
                    /\ Cardinality(Reserved(rows')) <= policy'.concurrent
               /\ \A j \in new :
                    /\ Cardinality({k \in today : SourceOf[k] = SourceOf[j]}) <= policy'.perSource
                    /\ \A k \in today \ {j} : SourceOf[k] = SourceOf[j] =>
                            clock >= rows'[k].admittedAt + policy'.cooldown
<1>1. DemoInv /\ [DemoNext]_demoVars => [Budget]_demoVars
  <2>. SUFFICES ASSUME DemoInv, [DemoNext]_demoVars PROVE Budget
    OBVIOUS
  <2>1. DemoInv' /\ LedgerStep
    BY DemoStep
  <2>2. PICK after, next : after = rows' /\ next = policy'
    OBVIOUS
  <2>3. PICK admitted \in SUBSET Journeys :
          /\ Within(next, after, admitted)
          /\ \A j \in admitted : rows[j].state = "absent" /\ after[j].state = "reserved"
          /\ \A j \in Journeys \ admitted : RowEnds(rows[j], after[j])
    BY <2>1, <2>2 DEF LedgerStep
  <2>4. Admitted(after) \ Admitted(rows) = admitted
    BY <2>3 DEF Admitted, RowEnds
  <2>5. after \in Tables
    BY <2>1, <2>2 DEF DemoInv, DemoTypeOK, Tables
  <2>6. admitted = {} => CommittedBy(after, Admitted(after)) <= CommittedBy(rows, Admitted(rows))
    BY <2>3, <2>5, AdmitsNothing
  <2>7. /\ admitted # {} =>
            /\ next.enabled
            /\ CommittedBy(after, Admitted(after)) <= next.total
            /\ CommittedBy(after, AdmittedOn(after, Day(clock))) <= next.daily
            /\ Cardinality(Admitted(after)) <= next.totalJourneys
            /\ Cardinality(AdmittedOn(after, Day(clock))) <= next.dailyJourneys
            /\ Cardinality(Reserved(after)) <= next.concurrent
        /\ \A j \in admitted :
            /\ Cardinality({k \in AdmittedOn(after, Day(clock)) : SourceOf[k] = SourceOf[j]})
                    <= next.perSource
            /\ \A k \in AdmittedOn(after, Day(clock)) \ {j} : SourceOf[k] = SourceOf[j] =>
                    clock >= after[k].admittedAt + next.cooldown
    BY <2>3 DEF Within, FromSource
  <2>. QED BY <2>2, <2>4, <2>6, <2>7
<1>. QED BY <1>1, DemoInvariant, PTL DEF DemoSpec, BudgetHolds
=============================================================================
