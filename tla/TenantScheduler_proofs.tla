----------------------- MODULE TenantScheduler_proofs -----------------------
(***************************************************************************)
(* Proofs about TenantScheduler for every number of tenants and every      *)
(* bound on their queues.                                                  *)
(***************************************************************************)
EXTENDS TenantScheduler, WellFoundedInduction, TLAPS

-----------------------------------------------------------------------------
(* FairTenantScheduler.select *)

\* A set of tenants that is not empty has a least member.
LEMMA LeastTenant ==
    ASSUME NEW S \in SUBSET Tenants, S # {}
    PROVE  /\ Min(S) \in S
           /\ \A t \in S : Min(S) <= t
<1> USE SchedulerAssumption DEF Tenants
<1>1. IsWellFoundedOn(OpToRel(<, Nat), Nat)
  BY NatLessThanWellFounded
<1>2. S \subseteq Nat
  OBVIOUS
<1>3. \E x \in S : \A y \in S : ~ (<<y, x>> \in OpToRel(<, Nat))
  BY <1>1, <1>2, WFMin
<1>4. \A x, y \in S : <<y, x>> \in OpToRel(<, Nat) <=> y < x
  BY <1>2 DEF OpToRel
<1>5. \E x \in S : \A y \in S : ~ (y < x)
  BY <1>3, <1>4, Zenon
<1>6. \E x \in S : \A y \in S : x <= y
  BY <1>2, <1>5
<1> QED
  BY <1>6 DEF Min

\* What select returns: the next candidate after the last one in the cyclic
\* order, or the first if the last one is no candidate.
LEMMA SelectFacts ==
    ASSUME NEW last \in Nat, NEW S \in SUBSET Tenants, S # {}
    PROVE  /\ Select(last, S) \in S
           /\ last \in S => \/ /\ Select(last, S) > last
                              /\ \A t \in S : t <= last \/ Select(last, S) <= t
                           \/ /\ Select(last, S) <= last
                              /\ \A t \in S : t <= last /\ Select(last, S) <= t
<1> DEFINE after == {t \in S : t > last}
<1>1. Min(S) \in S /\ \A t \in S : Min(S) <= t
  BY LeastTenant
<1>2. after # {} => Min(after) \in after /\ \A t \in after : Min(after) <= t
  BY LeastTenant
<1>3. \A t \in S : t \in Nat
  BY SchedulerAssumption DEF Tenants
<1>4. CASE last \notin S \/ after = {}
  <2>1. Select(last, S) = Min(S)
    BY <1>4 DEF Select
  <2> QED
    BY <1>1, <1>3, <1>4, <2>1
<1>5. CASE last \in S /\ after # {}
  <2>1. Select(last, S) = Min(after)
    BY <1>5 DEF Select
  <2> QED
    BY <1>2, <1>3, <1>5, <2>1
<1> QED
  BY <1>4, <1>5

-----------------------------------------------------------------------------
(* The inductive invariant *)

TypeOK ==
    /\ queue \in [Tenants -> Nat]
    /\ lastServed \in Tenants \union {NoTenant}
    /\ passedOver \in [Tenants -> Nat]
    /\ disturbed \in [Tenants -> BOOLEAN]

\* How far the rotation has come since it was at t.
Distance(t) == IF lastServed > t THEN lastServed - t ELSE lastServed + TenantCount - t

\* A tenant without work is not waiting.  One that is passed over has been
\* passed over by tenants that lie between it and the tenant served last, which
\* still has work.
RotationApproaches ==
    \A t \in Tenants :
        /\ t \notin Eligible => passedOver[t] = 0
        /\ passedOver[t] > 0 /\ ~ disturbed[t] =>
            lastServed \in Eligible \ {t} /\ passedOver[t] <= Distance(t)

IInv == TypeOK /\ RotationApproaches
\* Nobody waits.
LEMMA InitIInv == SchedulerInit => IInv
BY SchedulerAssumption DEF SchedulerInit, IInv, TypeOK, RotationApproaches, Eligible, Tenants

\* The tenant that a cycle serves.
LEMMA CycleFacts ==
    ASSUME TypeOK, Cycle
    PROVE  \E s \in Eligible :
            /\ s = Select(lastServed, Eligible)
            /\ lastServed' = s
            /\ queue' = [queue EXCEPT ![s] = queue[s] - 1]
            /\ \A u \in Tenants :
                /\ u = s \/ u \notin Eligible => passedOver'[u] = 0 /\ disturbed'[u] = FALSE
                /\ u # s /\ u \in Eligible =>
                    /\ passedOver'[u] \in Nat /\ passedOver'[u] <= passedOver[u] + 1
                    /\ disturbed'[u] = (disturbed[u] \/ queue[s] = 1)
            /\ passedOver' \in [Tenants -> Nat] /\ disturbed' \in [Tenants -> BOOLEAN]
<1>1. Eligible \subseteq Tenants /\ Eligible # {} /\ lastServed \in Nat
  BY SchedulerAssumption DEF Eligible, Cycle, TypeOK, Tenants, NoTenant
<1>2. Select(lastServed, Eligible) \in Eligible
  BY <1>1, SelectFacts
<1> DEFINE s == Select(lastServed, Eligible)
<1>3. PICK t \in Eligible : t = s
  BY <1>2
<1>4. /\ lastServed' = t
      /\ queue' = [queue EXCEPT ![t] = queue[t] - 1]
      /\ passedOver' = [u \in Tenants |->
                IF u = t \/ u \notin Eligible THEN 0
                ELSE IF passedOver[u] > TenantCount THEN passedOver[u]
                ELSE passedOver[u] + 1]
      /\ disturbed' = [u \in Tenants |->
                IF u = t \/ u \notin Eligible THEN FALSE
                ELSE disturbed[u] \/ queue[t] = 1]
  BY <1>3 DEF Cycle
<1>5. \A u \in Tenants : passedOver[u] \in Nat /\ disturbed[u] \in BOOLEAN
  BY DEF TypeOK
<1> HIDE DEF s
<1>6. passedOver' \in [Tenants -> Nat]
  BY <1>4, <1>5
<1>7. \A u \in Tenants :
        /\ u = t \/ u \notin Eligible => passedOver'[u] = 0
        /\ u # t /\ u \in Eligible =>
            passedOver'[u] \in Nat /\ passedOver'[u] <= passedOver[u] + 1
  BY <1>4, <1>5
<1>8. \A u \in Tenants :
        /\ disturbed'[u] \in BOOLEAN
        /\ u = t \/ u \notin Eligible => disturbed'[u] = FALSE
        /\ u # t /\ u \in Eligible => disturbed'[u] = (disturbed[u] \/ queue[t] = 1)
  BY <1>4, <1>5, Zenon
<1>9. disturbed' \in [Tenants -> BOOLEAN]
  BY <1>4, <1>8, Zenon
<1> QED
  BY <1>3, <1>4, <1>6, <1>7, <1>8, <1>9, Zenon DEF s

\* A cycle brings the rotation nearer to every tenant that it passes over.
LEMMA CycleStep ==
    ASSUME IInv, Cycle
    PROVE  IInv'
<1>0. PICK s \in Eligible :
        /\ s = Select(lastServed, Eligible)
        /\ lastServed' = s
        /\ queue' = [queue EXCEPT ![s] = queue[s] - 1]
        /\ \A u \in Tenants :
            /\ u = s \/ u \notin Eligible => passedOver'[u] = 0 /\ disturbed'[u] = FALSE
            /\ u # s /\ u \in Eligible =>
                /\ passedOver'[u] \in Nat /\ passedOver'[u] <= passedOver[u] + 1
                /\ disturbed'[u] = (disturbed[u] \/ queue[s] = 1)
        /\ passedOver' \in [Tenants -> Nat] /\ disturbed' \in [Tenants -> BOOLEAN]
  BY CycleFacts DEF IInv
<1>1. s \in Tenants /\ queue[s] \in Nat /\ queue[s] > 0
  BY DEF Eligible, IInv, TypeOK
<1>2. TypeOK'
  BY <1>0, <1>1 DEF IInv, TypeOK
<1>3. \A u \in Tenants : u # s => (u \in Eligible' <=> u \in Eligible)
  BY <1>0, <1>1 DEF Eligible, IInv, TypeOK
<1>4. s \in Eligible' <=> queue[s] # 1
  BY <1>0, <1>1 DEF Eligible, IInv, TypeOK
<1>5. RotationApproaches'
  <2> SUFFICES ASSUME NEW t \in Tenants
               PROVE  /\ t \notin Eligible' => passedOver'[t] = 0
                      /\ passedOver'[t] > 0 /\ ~ disturbed'[t] =>
                            /\ lastServed' \in Eligible' \ {t}
                            /\ passedOver'[t] <= Distance(t)'
    BY DEF RotationApproaches
  <2>1. CASE t = s \/ t \notin Eligible
    BY <1>0, <2>1
  <2>2. CASE t # s /\ t \in Eligible
    <3>1. t \in Eligible'
      BY <1>3, <2>2
    <3> SUFFICES ASSUME ~ disturbed'[t]
                 PROVE  s \in Eligible' \ {t} /\ passedOver'[t] <= Distance(t)'
      BY <1>0, <3>1
    <3>2. ~ disturbed[t] /\ queue[s] # 1
      BY <1>0, <2>2
    <3>3. passedOver'[t] \in Nat /\ passedOver'[t] <= passedOver[t] + 1 /\ passedOver[t] \in Nat
      BY <1>0, <2>2 DEF IInv, TypeOK
    <3>4. /\ s \in 1 .. TenantCount /\ t \in 1 .. TenantCount /\ TenantCount \in Nat
          /\ Distance(t)' = IF s > t THEN s - t ELSE s + TenantCount - t
      BY <1>0, <1>1, SchedulerAssumption DEF Tenants, Distance
    <3>5. CASE passedOver[t] = 0
      BY <1>4, <2>2, <3>2, <3>3, <3>4, <3>5
    <3>6. CASE passedOver[t] > 0
      <4>1. /\ lastServed \in Eligible \ {t}
            /\ passedOver[t] <= Distance(t)
        BY <3>2, <3>6 DEF IInv, RotationApproaches
      <4>2. lastServed \in 1 .. TenantCount /\ Eligible \subseteq 1 .. TenantCount
        BY <4>1 DEF Eligible, Tenants
      <4>3. \/ s > lastServed /\ \A u \in Eligible : u <= lastServed \/ s <= u
            \/ s <= lastServed /\ \A u \in Eligible : u <= lastServed /\ s <= u
        BY <1>0, <4>1, <4>2, SelectFacts, SchedulerAssumption DEF Tenants
      <4>4. \/ s > lastServed /\ (t <= lastServed \/ s <= t)
            \/ s <= lastServed /\ t <= lastServed /\ s <= t
        BY <2>2, <4>3
      <4>5. Distance(t) + 1 <= Distance(t)'
        BY <2>2, <3>4, <4>1, <4>2, <4>4 DEF Distance
      <4>6. Distance(t) \in Int /\ Distance(t)' \in Int
        BY <3>4, <4>2 DEF Distance
      <4> QED
        BY <1>4, <2>2, <3>2, <3>3, <4>1, <4>5, <4>6
    <3> QED
      BY <3>3, <3>5, <3>6
  <2> QED
    BY <2>1, <2>2
<1> QED
  BY <1>2, <1>5 DEF IInv

\* Arrivals add work, and a restart disturbs everyone who waits.
LEMMA OtherStep ==
    ASSUME IInv, Restart \/ (\E t \in Tenants : Arrive(t)) \/ UNCHANGED schedulerVars
    PROVE  IInv'
<1>1. CASE Restart
  <2>1. TypeOK'
    BY <1>1 DEF IInv, TypeOK, Restart, Eligible
  <2>2. Eligible' = Eligible
    BY <1>1 DEF Restart, Eligible
  <2>3. \A t \in Tenants : (disturbed'[t] <=> t \in Eligible) /\ passedOver'[t] = passedOver[t]
    BY <1>1 DEF Restart
  <2>4. RotationApproaches'
    BY <2>2, <2>3 DEF IInv, RotationApproaches, TypeOK
  <2> QED
    BY <2>1, <2>4 DEF IInv
<1>2. CASE \E t \in Tenants : Arrive(t)
  <2> PICK a \in Tenants : Arrive(a)
    BY <1>2
  <2>1. TypeOK'
    BY DEF IInv, TypeOK, Arrive
  <2>2. UNCHANGED <<lastServed, passedOver, disturbed>> /\ Eligible \subseteq Eligible'
    BY DEF IInv, TypeOK, Arrive, Eligible
  <2>3. RotationApproaches'
    BY <2>2 DEF IInv, RotationApproaches, Distance
  <2> QED
    BY <2>1, <2>3 DEF IInv
<1>3. CASE UNCHANGED schedulerVars
  BY <1>3 DEF IInv, TypeOK, RotationApproaches, Distance, Eligible, schedulerVars
<1> QED
  BY <1>1, <1>2, <1>3

\* The inductive invariant holds in every behaviour.
LEMMA Inductive == SchedulerSpec => []IInv
<1>1. IInv /\ [SchedulerNext]_schedulerVars => IInv'
  BY CycleStep, OtherStep DEF SchedulerNext
<1> QED
  BY <1>1, InitIInv, PTL DEF SchedulerSpec

-----------------------------------------------------------------------------
(* The theorems *)

\* The rotation is fair for any number of tenants: while the tenants that are
\* served keep work in their queues and the worker is not restarted, a waiting
\* tenant is passed over at most once by each other tenant.
THEOREM RotationIsFair == SchedulerSpec => []FairWhileBacklogged
<1>1. IInv => FairWhileBacklogged
  <2> SUFFICES ASSUME IInv, NEW t \in Tenants, ~ disturbed[t]
               PROVE  passedOver[t] < TenantCount
    BY DEF FairWhileBacklogged
  <2>1. passedOver[t] \in Nat /\ t \in 1 .. TenantCount /\ TenantCount \in Nat
    BY SchedulerAssumption DEF IInv, TypeOK, Tenants
  <2>2. CASE passedOver[t] > 0
    <3>1. lastServed \in 1 .. TenantCount /\ lastServed # t /\ passedOver[t] <= Distance(t)
      BY <2>2 DEF IInv, RotationApproaches, Eligible, Tenants
    <3> QED
      BY <2>1, <3>1 DEF Distance
  <2> QED
    BY <2>1, <2>2
<1> QED
  BY <1>1, Inductive, PTL

\* Nobody is served twice in a row while somebody else has work.
THEOREM NoTenantMonopolizes == SchedulerSpec => NoMonopoly
<1>1. IInv /\ [SchedulerNext]_schedulerVars
        => [Cycle /\ lastServed' = lastServed => Eligible = {lastServed}]_schedulerVars
  <2> SUFFICES ASSUME IInv, Cycle, lastServed' = lastServed
               PROVE  Eligible = {lastServed}
    OBVIOUS
  <2>1. PICK s \in Eligible : s = Select(lastServed, Eligible) /\ lastServed' = s
    BY CycleFacts DEF IInv
  <2>2. Eligible \in SUBSET Tenants
    BY DEF Eligible
  <2>3. \A u \in Eligible : u \in Nat
    BY <2>2, SchedulerAssumption DEF Tenants
  <2>4. s = lastServed /\ s \in Eligible /\ s \in Nat
    BY <2>1, <2>3
  <2>5. \/ s > s /\ \A u \in Eligible : u <= s \/ s <= u
        \/ s <= s /\ \A u \in Eligible : u <= s /\ s <= u
    BY <2>1, <2>2, <2>4, SelectFacts
  <2>6. \A u \in Eligible : u <= s /\ s <= u
    BY <2>4, <2>5
  <2>7. \A u \in Eligible : u = s
    BY <2>3, <2>4, <2>6
  <2> QED
    BY <2>4, <2>7, Zenon
<1> QED
  BY <1>1, Inductive, PTL DEF SchedulerSpec, NoMonopoly
=============================================================================
