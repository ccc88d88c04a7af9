-------------------------- MODULE PoolManagerProofs --------------------------
(***************************************************************************)
(* Proofs about the pool manager, for any resource groups, nodes, weights  *)
(* and limits, any number of runs, and any changes of the pool meanwhile.  *)
(***************************************************************************)
EXTENDS PoolManager, SumTheorems

-----------------------------------------------------------------------------
(* Capacities.                                                              *)

\* The sums of the model are those that SumTheorems is about.
LEMMA CapacityIsSum ==
  ASSUME NEW S
  PROVE  Capacity(S) = SumOf(Weight, S)
  BY DEF Capacity, SumOf

\* So are those of numbers per group or node.
LEMMA TotalIsSum ==
  ASSUME NEW f, NEW S
  PROVE  Total(f, S) = SumOf(f, S)
  BY DEF Total, SumOf

\* The capacity of a set of nodes is a number.
LEMMA CapacityType ==
  ASSUME NEW S \in SUBSET Nodes
  PROVE  IsFiniteSet(S) /\ Capacity(S) \in Nat
  <1>1. IsFiniteSet(S) /\ \A n \in S : Weight[n] \in Nat
    BY ConstantsAssumption, FS_Subset
  <1>2. QED
    BY <1>1, CapacityIsSum, SumNat

\* A capacity that AWS accepts as the target of a group.
IsWhole(c) == \E k \in Int : c = k * Unit

\* A group may have none.
LEMMA ZeroIsWhole ==
  IsWhole(0)
  <1>1. 0 = 0 * Unit
    BY ConstantsAssumption
  <1>2. QED
    BY <1>1 DEF IsWhole

\* int() rounds down to a whole capacity.
LEMMA FloorIsWhole ==
  ASSUME NEW c \in Nat
  PROVE  Floor(c) \in Nat /\ IsWhole(Floor(c))
  <1>1. Unit \in Nat \ {0}
    BY ConstantsAssumption
  <1>2. c \div Unit \in Nat
    BY <1>1
  <1>3. (c \div Unit) * Unit \in Nat
    BY <1>1, <1>2
  <1>4. QED
    BY <1>2, <1>3 DEF Floor, IsWhole

\* math.ceil rounds up to a whole capacity, and by less than one.
LEMMA CeilingIsNext ==
  ASSUME NEW c \in Int
  PROVE  /\ Ceiling(c) \in Int /\ IsWhole(Ceiling(c))
         /\ c <= Ceiling(c) /\ Ceiling(c) < c + Unit
  <1> DEFINE q == (c + Unit - 1) \div Unit
  <1>1. Unit \in Nat \ {0}
    BY ConstantsAssumption
  <1>2. q \in Int /\ c <= q * Unit /\ q * Unit < c + Unit
    BY <1>1, RoundedUp
  <1>3. Ceiling(c) = q * Unit
    BY DEF Ceiling
  <1> HIDE DEF q
  <1>4. QED
    BY <1>1, <1>2, <1>3 DEF IsWhole

-----------------------------------------------------------------------------
(* _compute_new_resource_group_targets.                                     *)

\* What it starts from: the targets of the reload.
Start == [g \in Groups |-> IF g \in NonStale THEN view.target[g] ELSE 0]

Constrained(c, t, g) ==
  IF c > 0 THEN t[g] + Unit > GroupMax[g] ELSE t[g] - Unit < GroupMin[g]

Free(c, t) == {g \in NonStale : ~Constrained(c, t, g)}

Before(c, t, g, h) == c * t[g] < c * t[h] \/ (t[g] = t[h] /\ g <= h)

First(c, t) == CHOOSE g \in Free(c, t) : \A h \in Free(c, t) : Before(c, t, g, h)

\* One round of its loop.
Round(c, t) ==
  IF Free(c, t) = {} THEN t ELSE [t EXCEPT ![First(c, t)] = @ + c * Unit]

\* h has the targets after each of k rounds.
Rounds(c, k, h) == h = [i \in 0..k |-> IF i = 0 THEN Start ELSE Round(c, h[i - 1])]

Coeff(new) == IF new < target_capacity THEN -1 ELSE 1

NumRounds(new) ==
  Greatest((Coeff(new) * (Ceiling(new) - target_capacity) + Unit - 1) \div Unit, 0)

\* These are the parts of the definition.
LEMMA TargetsAreRounds ==
  ASSUME NEW new
  PROVE  _compute_new_resource_group_targets(new)
           = (CHOOSE h : Rounds(Coeff(new), NumRounds(new), h))[NumRounds(new)]
  BY DEF _compute_new_resource_group_targets, Rounds, Round, First, Before, Free,
         Constrained, Start, Coeff, NumRounds

\* The loop can go on for any number of rounds.
LEMMA RoundsExist ==
  ASSUME NEW c, NEW k \in Nat
  PROVE  \E h : Rounds(c, k, h)
  <1> DEFINE D == {n \in Nat : ~\E h : Rounds(c, n, h)}
  <1>1. \E h : Rounds(c, 0, h)
    <2> DEFINE h == [i \in 0..0 |-> Start]
    <2>1. h = [i \in 0..0 |-> IF i = 0 THEN Start ELSE Round(c, h[i - 1])]
      OBVIOUS
    <2>2. QED
      BY <2>1 DEF Rounds
  <1>2. ASSUME NEW n \in Nat, \E h : Rounds(c, n, h)
        PROVE  \E h : Rounds(c, n + 1, h)
    <2>1. PICK g : Rounds(c, n, g)
      BY <1>2
    <2> DEFINE h == [i \in 0..(n + 1) |-> IF i = 0 THEN Start ELSE Round(c, g[i - 1])]
    <2>2. \A i \in 0..n : h[i] = g[i]
      BY <2>1 DEF Rounds
    <2>3. \A i \in 0..(n + 1) : i # 0 => i - 1 \in 0..n
      OBVIOUS
    <2>4. \A i \in 0..(n + 1) : i # 0 => h[i - 1] = g[i - 1]
      <3> HIDE DEF h
      <3> QED BY <2>2, <2>3
    <2>5. h = [i \in 0..(n + 1) |-> IF i = 0 THEN Start ELSE Round(c, h[i - 1])]
      BY <2>4
    <2>6. QED
      BY <2>5 DEF Rounds
  <1>3. SUFFICES ASSUME D # {} PROVE FALSE
    OBVIOUS
  <1>4. PICK m \in D : \A d \in D : m <= d
    <2>1. D \in SUBSET Nat
      OBVIOUS
    <2> HIDE DEF D
    <2>2. QED
      BY <1>3, <2>1, SmallestNumber
  <1>5. m \in Nat /\ m # 0 /\ m - 1 \in Nat /\ m - 1 \notin D /\ (m - 1) + 1 = m
    BY <1>1, <1>4
  <1>6. QED
    BY <1>2, <1>4, <1>5

\* sorted()[0]: among the groups that are free one comes first.
LEMMA FirstIsFree ==
  ASSUME NEW c \in {1, -1}, NEW t \in [Groups -> Int], Free(c, t) # {}
  PROVE  /\ First(c, t) \in Free(c, t)
         /\ \A h \in Free(c, t) : c * t[First(c, t)] <= c * t[h]
  <1> DEFINE v == [g \in Groups |-> c * t[g]]
             id == [g \in Groups |-> g]
  <1>1. /\ Free(c, t) \in SUBSET Groups /\ IsFiniteSet(Free(c, t))
        /\ \A g \in Free(c, t) : g \in Nat /\ t[g] \in Int /\ v[g] \in Int /\ v[g] = c * t[g] /\ id[g] = g
    BY ConstantsAssumption, FS_Subset DEF Free, NonStale
  <1> HIDE DEF v, id
  <1>2. PICK x \in Free(c, t) : \A y \in Free(c, t) : v[x] <= v[y]
    BY <1>1, SmallestValue
  <1> DEFINE L == {y \in Free(c, t) : v[y] = v[x]}
  <1>3. L \in SUBSET Free(c, t) /\ x \in L /\ IsFiniteSet(L) /\ L # {} /\ \A y \in L : id[y] \in Int
    BY <1>1, <1>2, FS_Subset
  <1>4. PICK g \in L : \A y \in L : id[g] <= id[y]
    <2> HIDE DEF L
    <2> QED BY <1>3, SmallestValue
  <1>5. \A h \in Free(c, t) : Before(c, t, g, h)
    BY <1>1, <1>2, <1>4 DEF Before
  <1>6. \E z \in Free(c, t) : \A h \in Free(c, t) : Before(c, t, z, h)
    BY <1>3, <1>4, <1>5
  <1>7. First(c, t) \in Free(c, t) /\ \A h \in Free(c, t) : Before(c, t, First(c, t), h)
    BY <1>6 DEF First
  <1>8. QED
    BY <1>1, <1>7 DEF Before

\* What reload_state knows of the groups.
ViewOK ==
  /\ view.target \in [Groups -> Nat]
  /\ \A g \in Groups : IsWhole(view.target[g])

\* What holds after i rounds.  The sum is as far from target_capacity as the
\* rounds have taken it, or no group is free any more; and the groups that
\* have been changed are no further than one capacity from those that could
\* have been changed instead.
Fair(c, i, t) ==
  /\ t \in [Groups -> Nat]
  /\ \A g \in Groups : IsWhole(t[g])
  /\ \A g \in NonStale : c * view.target[g] <= c * t[g]
  /\ c * (SumOf(t, NonStale) - target_capacity) <= i * Unit
  /\ Free(c, t) # {} => c * (SumOf(t, NonStale) - target_capacity) = i * Unit
  /\ \A g \in NonStale, h \in Free(c, t) :
       c * view.target[g] < c * t[g] => c * t[g] <= c * t[h] + Unit

\* target_capacity is a whole number, as its parts are.
LEMMA TargetCapacityType ==
  ASSUME ViewOK
  PROVE  /\ IsFiniteSet(NonStale) /\ NonStale \in SUBSET Groups
         /\ target_capacity = SumOf(view.target, NonStale)
         /\ target_capacity \in Nat /\ IsWhole(target_capacity)
  <1>1. NonStale \in SUBSET Groups /\ IsFiniteSet(NonStale)
    BY ConstantsAssumption, FS_Subset DEF NonStale
  <1>2. target_capacity = SumOf(view.target, NonStale)
    BY TotalIsSum DEF target_capacity
  <1>3. /\ \A g \in NonStale : view.target[g] \in Nat
        /\ \A g \in NonStale : \E k \in Int : view.target[g] = k * Unit
    BY <1>1 DEF ViewOK, IsWhole
  <1>4. SumOf(view.target, NonStale) \in Nat
    BY <1>1, <1>3, SumNat
  <1>5. Unit \in Int
    BY ConstantsAssumption
  <1>6. \E k \in Int : SumOf(view.target, NonStale) = k * Unit
    BY <1>1, <1>3, <1>5, SumMultiple
  <1>7. QED
    BY <1>1, <1>2, <1>4, <1>6 DEF IsWhole

\* It holds at the start.
LEMMA StartIsFair ==
  ASSUME ViewOK, NEW c \in {1, -1}
  PROVE  Fair(c, 0, Start)
  <1>1. /\ IsFiniteSet(NonStale) /\ NonStale \in SUBSET Groups /\ target_capacity \in Nat
        /\ target_capacity = SumOf(view.target, NonStale)
    BY TargetCapacityType
  <1>2. Unit \in Int
    BY ConstantsAssumption
  <1>3. Start \in [Groups -> Nat] /\ \A g \in NonStale : Start[g] = view.target[g]
    BY <1>1 DEF Start, ViewOK
  <1>4. IsWhole(0)
    BY ZeroIsWhole
  <1>5. \A g \in Groups : IsWhole(Start[g])
    BY <1>3, <1>4 DEF Start, ViewOK
  <1>6. SumOf(Start, NonStale) = target_capacity
    BY <1>1, <1>3, SumSame
  <1>7. \A g \in NonStale : view.target[g] \in Int /\ Start[g] = view.target[g]
    BY <1>1, <1>3 DEF ViewOK
  <1>8. c * (target_capacity - target_capacity) = 0 * Unit
    BY <1>1, <1>2
  <1>9. QED
    BY <1>1, <1>2, <1>3, <1>5, <1>6, <1>7, <1>8 DEF Fair

\* A whole capacity stays one if one is added or taken away.
LEMMA StaysWhole ==
  ASSUME NEW v \in Int, IsWhole(v), NEW c \in {1, -1}
  PROVE  IsWhole(v + c * Unit)
  <1>1. Unit \in Int
    BY ConstantsAssumption
  <1>2. PICK k \in Int : v = k * Unit
    BY DEF IsWhole
  <1>3. v + c * Unit = (k + c) * Unit /\ k + c \in Int
    BY <1>1, <1>2
  <1>4. QED
    BY <1>3 DEF IsWhole

\* A round preserves it.
LEMMA RoundIsFair ==
  ASSUME ViewOK, NEW c \in {1, -1}, NEW i \in Nat, NEW t, Fair(c, i, t)
  PROVE  Fair(c, i + 1, Round(c, t))
  <1>1. /\ IsFiniteSet(NonStale) /\ NonStale \in SUBSET Groups /\ target_capacity \in Nat
        /\ Unit \in Nat /\ Unit > 0 /\ GroupMin \in [Groups -> Nat] /\ GroupMax \in [Groups -> Nat]
        /\ view.target \in [Groups -> Nat] /\ t \in [Groups -> Nat]
    BY TargetCapacityType, ConstantsAssumption DEF ViewOK, Fair
  <1>2. \A f \in [Groups -> Nat] : SumOf(f, NonStale) \in Int
    <2>1. SUFFICES ASSUME NEW f \in [Groups -> Nat] PROVE SumOf(f, NonStale) \in Int
      OBVIOUS
    <2>2. \A g \in NonStale : f[g] \in Int
      BY <1>1
    <2>3. QED
      BY <1>1, <2>2, SumType
  <1> DEFINE m == i * Unit
             s == SumOf(t, NonStale)
  <1>3. m \in Int /\ (i + 1) * Unit = m + Unit /\ s \in Int
    BY <1>1, <1>2
  <1>4. CASE Free(c, t) = {}
    <2>1. Round(c, t) = t
      BY <1>4 DEF Round
    <2>2. c * (s - target_capacity) <= m
      BY DEF Fair
    <2> HIDE DEF m, s
    <2>3. c * (s - target_capacity) <= m + Unit
      BY <1>1, <1>3, <2>2
    <2>4. QED
      BY <1>3, <1>4, <2>1, <2>3 DEF Fair, s
  <1>5. CASE Free(c, t) # {}
    <2> DEFINE x == First(c, t)
               u == [t EXCEPT ![x] = @ + c * Unit]
               r == SumOf(u, NonStale)
    <2>1. x \in Free(c, t) /\ \A h \in Free(c, t) : c * t[x] <= c * t[h]
      BY <1>1, <1>5, FirstIsFree
    <2>2. Round(c, t) = u
      BY <1>5 DEF Round
    <2> HIDE DEF x
    <2>3. x \in NonStale /\ x \in Groups /\ ~Constrained(c, t, x)
      BY <1>1, <2>1 DEF Free
    <2>4. /\ u \in [Groups -> Nat] /\ u[x] = t[x] + c * Unit
          /\ \A g \in Groups \ {x} : u[g] = t[g]
      BY <1>1, <2>3 DEF Constrained
    <2> HIDE DEF u
    <2>5. r = s + c * Unit
      <3>1. \A g \in NonStale : t[g] \in Int /\ u[g] \in Int
        BY <1>1, <2>4
      <3>2. \A g \in NonStale \ {x} : t[g] = u[g]
        BY <1>1, <2>4
      <3>3. r = s + (u[x] - t[x])
        BY <1>1, <2>3, <3>1, <3>2, SumExcept
      <3>4. QED
        BY <1>1, <1>3, <2>3, <2>4, <3>3
    <2>6. r \in Int /\ c * (s - target_capacity) = m
      BY <1>2, <1>5, <2>4 DEF Fair
    <2> HIDE DEF r, s, m
    <2>7. c * (r - target_capacity) = m + Unit
      <3>1. c * (r - target_capacity) = c * (s - target_capacity) + Unit
        BY <1>1, <1>3, <2>5
      <3>2. QED
        BY <2>6, <3>1
    <2>8. \A g \in Groups : IsWhole(u[g])
      BY <1>1, <2>3, <2>4, StaysWhole DEF Fair
    <2>9. \A g \in NonStale : /\ t[g] \in Int /\ u[g] \in Int /\ view.target[g] \in Int
                              /\ c * view.target[g] <= c * t[g]
      BY <1>1, <2>4 DEF Fair
    <2>10. \A g \in NonStale : c * view.target[g] <= c * u[g]
      BY <1>1, <2>3, <2>4, <2>9
    <2>11. \A h \in Free(c, u) : h \in NonStale /\ h \in Free(c, t)
      BY <1>1, <2>3, <2>4 DEF Free, Constrained
    <2>12. \A g \in NonStale, h \in Free(c, t) :
             c * view.target[g] < c * t[g] => c * t[g] <= c * t[h] + Unit
      BY DEF Fair
    <2>13. ASSUME NEW g \in NonStale, NEW h \in Free(c, u), c * view.target[g] < c * u[g]
           PROVE  c * u[g] <= c * u[h] + Unit
      <3>1. /\ h \in NonStale /\ h \in Free(c, t) /\ t[h] \in Int /\ u[h] \in Int /\ t[g] \in Int
            /\ u[g] \in Int /\ t[x] \in Int /\ c * t[x] <= c * t[h]
        BY <2>1, <2>3, <2>9, <2>11
      <3>2. c * t[h] <= c * u[h]
        BY <1>1, <2>4, <3>1
      <3>3. CASE g = x
        <4>1. CASE h = x
          BY <1>1, <3>1, <3>3, <4>1
        <4>2. CASE h # x
          <5>1. u[h] = t[h] /\ c * u[g] = c * t[x] + Unit
            BY <1>1, <2>4, <3>1, <3>3, <4>2
          <5>2. QED
            BY <1>1, <3>1, <5>1
        <4>3. QED
          BY <4>1, <4>2
      <3>4. CASE g # x
        <4>1. u[g] = t[g]
          BY <1>1, <2>4, <3>4
        <4>2. c * t[g] <= c * t[h] + Unit
          BY <2>12, <2>13, <3>1, <4>1
        <4>3. QED
          BY <1>1, <3>1, <3>2, <4>1, <4>2
      <3>5. QED
        BY <3>3, <3>4
    <2>14. c * (r - target_capacity) <= m + Unit
      BY <1>1, <1>3, <2>7
    <2>15. Fair(c, i + 1, u)
      BY <1>3, <2>4, <2>7, <2>8, <2>10, <2>13, <2>14 DEF Fair, r
    <2>16. QED
      BY <2>2, <2>15 DEF u
  <1>6. QED
    BY <1>4, <1>5

\* The rounds reach the new target, rounded up, exactly: targets are whole
\* numbers.
LEMMA RoundsAreEnough ==
  ASSUME ViewOK, NEW new \in Int
  PROVE  /\ Coeff(new) \in {1, -1} /\ NumRounds(new) \in Nat
         /\ NumRounds(new) * Unit = Coeff(new) * (Ceiling(new) - target_capacity)
  <1> DEFINE c == Coeff(new)
             gap == c * (Ceiling(new) - target_capacity)
             q == (gap + Unit - 1) \div Unit
  <1>1. Unit \in Nat \ {0} /\ target_capacity \in Nat /\ IsWhole(target_capacity)
    BY ConstantsAssumption, TargetCapacityType
  <1>2. /\ Ceiling(new) \in Int /\ IsWhole(Ceiling(new))
        /\ new <= Ceiling(new) /\ Ceiling(new) < new + Unit
    BY CeilingIsNext
  <1>3. c \in {1, -1} /\ (c = 1 => target_capacity <= new) /\ (c = -1 => new < target_capacity)
    BY <1>1 DEF Coeff
  <1>4. NumRounds(new) = IF q > 0 THEN q ELSE 0
    BY DEF NumRounds, Greatest
  <1> HIDE DEF c
  <1>5. gap \in Int /\ gap > -Unit
    BY <1>1, <1>2, <1>3
  <1>6. PICK m \in Int : gap = m * Unit
    <2>1. PICK a \in Int : Ceiling(new) = a * Unit
      BY <1>2 DEF IsWhole
    <2>2. PICK b \in Int : target_capacity = b * Unit
      BY <1>1 DEF IsWhole
    <2>3. a * Unit - b * Unit = (a - b) * Unit /\ b * Unit - a * Unit = (b - a) * Unit
      BY <1>1
    <2>4. gap = (c * (a - b)) * Unit
      BY <1>1, <1>3, <2>1, <2>2, <2>3
    <2>5. c * (a - b) \in Int
      BY <1>3
    <2>6. QED
      BY <2>4, <2>5
  <1> HIDE DEF gap
  <1>7. q \in Int /\ q <= m /\ q >= m
    <2>1. gap <= m * Unit /\ gap >= m * Unit
      BY <1>5, <1>6
    <2>2. (gap + Unit - 1) \div Unit \in Int
      BY <1>1, <1>5, RoundedUp
    <2>3. QED
      BY <1>1, <1>5, <2>1, <2>2, RoundedUpOrder
  <1> HIDE DEF q
  <1>8. -1 < m
    <2>1. (-1) * Unit < m * Unit
      BY <1>1, <1>5, <1>6
    <2>2. QED
      BY <1>1, <2>1, Cancel
  <1>9. NumRounds(new) = m /\ m \in Nat
    BY <1>4, <1>7, <1>8
  <1>10. QED
    BY <1>3, <1>6, <1>9 DEF c, gap

\* So _compute_new_resource_group_targets ends with what its rounds promise.
LEMMA TargetsAreFair ==
  ASSUME ViewOK, NEW new \in Int
  PROVE  Fair(Coeff(new), NumRounds(new), _compute_new_resource_group_targets(new))
  <1> DEFINE c == Coeff(new)
             k == NumRounds(new)
             h == CHOOSE h : Rounds(c, k, h)
             D == {i \in 0..k : ~Fair(c, i, h[i])}
  <1>1. c \in {1, -1} /\ k \in Nat
    BY RoundsAreEnough
  <1>2. _compute_new_resource_group_targets(new) = h[k]
    BY TargetsAreRounds
  <1>3. Rounds(c, k, h)
    BY <1>1, RoundsExist
  <1> HIDE DEF c, k, h
  <1>4. h[0] = Start /\ \A i \in 1..k : h[i] = Round(c, h[i - 1])
    BY <1>1, <1>3 DEF Rounds
  <1>5. SUFFICES ASSUME D # {} PROVE FALSE
    BY <1>1, <1>2 DEF c, k
  <1>6. PICK m \in D : \A d \in D : m <= d
    <2>1. D \in SUBSET Nat
      BY <1>1
    <2> HIDE DEF D
    <2>2. QED
      BY <1>5, <2>1, SmallestNumber
  <1>7. m \in 0..k /\ ~Fair(c, m, h[m])
    BY <1>6
  <1>8. m # 0
    BY <1>1, <1>4, <1>7, StartIsFair
  <1>9. m - 1 \in Nat /\ m - 1 \in 0..k /\ m \in 1..k /\ (m - 1) + 1 = m
    BY <1>1, <1>7, <1>8
  <1>10. Fair(c, m - 1, h[m - 1])
    BY <1>6, <1>9
  <1>11. Fair(c, (m - 1) + 1, Round(c, h[m - 1]))
    BY <1>1, <1>9, <1>10, RoundIsFair
  <1>12. QED
    BY <1>4, <1>7, <1>9, <1>11

\* _constrain_target_capacity stays within its limits.
LEMMA ConstrainedWithinLimits ==
  ASSUME ViewOK, NEW requested \in Nat
  PROVE  LET new == _constrain_target_capacity(requested)
             change == new - target_capacity
         IN  /\ new \in Nat
             /\ change <= max_weight_to_add /\ -change <= max_weight_to_remove
             /\ min_capacity <= max_capacity =>
                  /\ new > max_capacity => change <= 0
                  /\ new < min_capacity => change >= 0
  <1>1. /\ target_capacity \in Nat
        /\ max_weight_to_add \in Nat /\ max_weight_to_remove \in Nat
        /\ min_capacity \in Nat /\ max_capacity \in Nat
    BY ConstantsAssumption, TargetCapacityType
  <1> DEFINE t == target_capacity
             delta == requested - t
             limited == CASE delta > 0 -> Least(max_capacity - t, delta)
                          [] delta < 0 -> Greatest(min_capacity - t, delta)
                          [] OTHER -> 0
             slowed == IF limited > 0 THEN Least(max_weight_to_add, limited)
                       ELSE Greatest(-max_weight_to_remove, limited)
             d == IF no_scale_down THEN Greatest(slowed, 0) ELSE slowed
  <1>2. _constrain_target_capacity(requested) = t + d
    BY DEF _constrain_target_capacity
  <1> HIDE DEF t
  <1>3. t \in Nat
    BY <1>1 DEF t
  <1>4. /\ limited \in Int /\ t + limited >= 0
        /\ min_capacity <= max_capacity =>
             /\ t + limited <= max_capacity \/ limited <= 0
             /\ t + limited >= min_capacity \/ limited >= 0
    <2>1. CASE delta > 0
      <3>1. limited = Least(max_capacity - t, delta)
        BY <1>3, <2>1
      <3> HIDE DEF limited
      <3>2. QED
        BY <1>1, <1>3, <2>1, <3>1 DEF Least
    <2>2. CASE delta < 0
      <3>1. limited = Greatest(min_capacity - t, delta)
        BY <1>3, <2>2
      <3> HIDE DEF limited
      <3>2. QED
        BY <1>1, <1>3, <2>2, <3>1 DEF Greatest
    <2>3. CASE delta = 0
      <3>1. limited = 0
        BY <1>3, <2>3
      <3> HIDE DEF limited
      <3>2. QED
        BY <1>3, <3>1
    <2>4. QED
      BY <1>3, <2>1, <2>2, <2>3
  <1> HIDE DEF limited
  <1>5. /\ slowed \in Int /\ t + slowed >= 0
        /\ slowed <= max_weight_to_add /\ -slowed <= max_weight_to_remove
        /\ min_capacity <= max_capacity =>
             /\ t + slowed <= max_capacity \/ slowed <= 0
             /\ t + slowed >= min_capacity \/ slowed >= 0
    BY <1>1, <1>3, <1>4 DEF Least, Greatest
  <1> HIDE DEF slowed
  <1>6. /\ d \in Int /\ t + d >= 0
        /\ d <= max_weight_to_add /\ -d <= max_weight_to_remove
        /\ min_capacity <= max_capacity =>
             /\ t + d <= max_capacity \/ d <= 0
             /\ t + d >= min_capacity \/ d >= 0
    BY <1>1, <1>3, <1>5 DEF Greatest
  <1> HIDE DEF d
  <1>7. QED
    BY <1>1, <1>2, <1>3, <1>6 DEF t

\* Both together: the plan of a run, as TargetsBalanced has it.
LEMMA PlanIsBalanced ==
  ASSUME ViewOK, NEW new \in Int
  PROVE  LET t == _compute_new_resource_group_targets(new)
             sum == Total(t, NonStale)
             CanGrow(g) == t[g] + Unit <= GroupMax[g]
             CanShrink(g) == t[g] - Unit >= GroupMin[g]
         IN  /\ t \in [Groups -> Nat] /\ \A g \in Groups : IsWhole(t[g])
             /\ sum < new => \A g \in NonStale : ~CanGrow(g)
             /\ sum - Unit >= new => \A g \in NonStale : ~CanShrink(g)
             /\ \A g, h \in NonStale :
                  /\ t[g] > view.target[g] /\ CanGrow(h) => t[g] <= t[h] + Unit
                  /\ t[g] < view.target[g] /\ CanShrink(h) => t[g] >= t[h] - Unit
  <1> DEFINE t == _compute_new_resource_group_targets(new)
             sum == SumOf(t, NonStale)
             c == Coeff(new)
  <1>1. /\ IsFiniteSet(NonStale) /\ NonStale \in SUBSET Groups /\ target_capacity \in Nat
        /\ Unit \in Nat /\ Unit > 0 /\ GroupMin \in [Groups -> Nat] /\ GroupMax \in [Groups -> Nat]
        /\ view.target \in [Groups -> Nat]
    BY TargetCapacityType, ConstantsAssumption DEF ViewOK
  <1>2. /\ c \in {1, -1} /\ NumRounds(new) * Unit = c * (Ceiling(new) - target_capacity)
        /\ Fair(c, NumRounds(new), t)
    BY RoundsAreEnough, TargetsAreFair
  <1>3. Ceiling(new) \in Int /\ new <= Ceiling(new) /\ Ceiling(new) < new + Unit
    BY CeilingIsNext
  <1>4. Total(t, NonStale) = sum
    BY TotalIsSum
  <1> HIDE DEF t, c
  <1>5. t \in [Groups -> Nat] /\ \A g \in Groups : IsWhole(t[g])
    BY <1>2 DEF Fair
  <1>6. sum \in Int /\ \A g \in NonStale : t[g] \in Int /\ view.target[g] \in Int
                                            /\ GroupMin[g] \in Int /\ GroupMax[g] \in Int
    <2>1. \A g \in NonStale : t[g] \in Int
      BY <1>1, <1>5
    <2>2. sum \in Int
      BY <1>1, <2>1, SumType
    <2>3. QED
      BY <1>1, <2>1, <2>2
  <1>7. /\ c * (sum - target_capacity) <= c * (Ceiling(new) - target_capacity)
        /\ Free(c, t) # {} =>
             c * (sum - target_capacity) = c * (Ceiling(new) - target_capacity)
        /\ \A g \in NonStale : c * view.target[g] <= c * t[g]
        /\ \A g \in NonStale, h \in Free(c, t) :
             c * view.target[g] < c * t[g] => c * t[g] <= c * t[h] + Unit
    BY <1>2 DEF Fair
  <1> HIDE DEF sum
  <1>8. CASE c = 1
    <2>1. \A g \in NonStale : g \in Free(c, t) <=> t[g] + Unit <= GroupMax[g]
      BY <1>1, <1>6, <1>8 DEF Free, Constrained
    <2>2. sum <= Ceiling(new) /\ (Free(c, t) # {} => sum = Ceiling(new))
      BY <1>1, <1>3, <1>6, <1>7, <1>8
    <2>3. sum < new => \A g \in NonStale : ~(t[g] + Unit <= GroupMax[g])
      BY <1>3, <1>6, <2>1, <2>2
    <2>4. ~(sum - Unit >= new)
      BY <1>1, <1>3, <1>6, <2>2
    <2>5. \A g \in NonStale : ~(t[g] < view.target[g])
      BY <1>6, <1>7, <1>8
    <2>6. \A g, h \in NonStale : t[g] > view.target[g] /\ h \in Free(c, t) => t[g] <= t[h] + Unit
      BY <1>1, <1>6, <1>7, <1>8
    <2>7. QED
      BY <1>4, <1>5, <2>1, <2>3, <2>4, <2>5, <2>6 DEF t
  <1>9. CASE c = -1
    <2>1. \A g \in NonStale : g \in Free(c, t) <=> t[g] - Unit >= GroupMin[g]
      BY <1>1, <1>6, <1>9 DEF Free, Constrained
    <2>2. sum >= Ceiling(new) /\ (Free(c, t) # {} => sum = Ceiling(new))
      BY <1>1, <1>3, <1>6, <1>7, <1>9
    <2>3. ~(sum < new)
      BY <1>3, <1>6, <2>2
    <2>4. sum - Unit >= new => \A g \in NonStale : ~(t[g] - Unit >= GroupMin[g])
      BY <1>1, <1>3, <1>6, <2>1, <2>2
    <2>5. \A g \in NonStale : ~(t[g] > view.target[g])
      BY <1>6, <1>7, <1>9
    <2>6. \A g, h \in NonStale : t[g] < view.target[g] /\ h \in Free(c, t) => t[g] >= t[h] - Unit
      BY <1>1, <1>6, <1>7, <1>9
    <2>7. QED
      BY <1>4, <1>5, <2>1, <2>3, <2>4, <2>5, <2>6 DEF t
  <1>10. QED
    BY <1>2, <1>8, <1>9

-----------------------------------------------------------------------------
(* The inductive invariant.                                                 *)

\* Targets are whole numbers, in AWS and in the memory of a run.
WholeTargets ==
  /\ \A g \in Groups : IsWhole(target[g])
  /\ \A g \in Groups : IsWhole(view.target[g])
  /\ \A g \in Groups : IsWhole(group_targets[g])

Pruning == step \in {"prune", "submit"}

Left == view.ids \ marked
LeftUp == {n \in Left : view.agent[n] = "up"}

\* Nothing is marked or counted before the loop of _choose_nodes_to_prune.
NothingMarked ==
  ~Pruning => marked = {} /\ killed_task_count = 0 /\ removed_weight = 0

\* The nodes of the loop are those of the reload, each considered once.
OnlyLoaded ==
  Pruning =>
    /\ marked \subseteq view.ids
    /\ killable \subseteq Left
    /\ \A n \in killable : view.agent[n] # "unknown"

\* The accumulators of the loop are the sums over the nodes that are marked,
\* or left.
Tally ==
  Pruning =>
    /\ removed_weight = Capacity(marked)
    /\ killed_task_count = Total(view.tasks, marked)
    /\ \A g \in Groups : rem_group_capacities[g] = Capacity(InGroup(Left, g))
    /\ remaining_non_orphan_capacity = Capacity(LeftUp)

\* They have not been taken beyond a limit.
Limits ==
  Pruning =>
    /\ removed_weight <= max_weight_to_remove
    /\ killed_task_count <= max_tasks_to_kill
    /\ \A n \in marked : rem_group_capacities[GroupOf[n]] >= group_targets[GroupOf[n]]
    /\ (\E n \in marked : view.agent[n] = "up") =>
         remaining_non_orphan_capacity >= new_target_capacity

IInv == TypeOK /\ WholeTargets /\ NothingMarked /\ OnlyLoaded /\ Tally /\ Limits

\* The memory of a run that has not begun.
LEMMA NoViewType ==
  /\ NoView.ids = {} /\ NoView.cancelled = {} /\ NoView.draining = {}
  /\ NoView.target = NoTargets
  /\ NoView.agent \in [Nodes -> {"up", "orphaned", "unknown"}]
  /\ NoView.tasks \in [Nodes -> 0..MaxTasks]
  /\ NoTargets \in [Groups -> Nat] /\ \A g \in Groups : NoTargets[g] = 0
  <1>1. 0 \in 0..MaxTasks
    BY ConstantsAssumption
  <1>2. QED
    BY <1>1 DEF NoView, NoTargets

\* The initial states.
LEMMA InitInvariant ==
  Init => IInv
  <1> SUFFICES ASSUME Init PROVE IInv
    OBVIOUS
  <1>1. \A S \in SUBSET Nodes : Capacity(S) \in Nat
    BY CapacityType
  <1>2. \A g \in Groups : Floor(Capacity(InGroup(alive, g))) \in Nat
                          /\ IsWhole(Floor(Capacity(InGroup(alive, g))))
    <2>1. \A g \in Groups : InGroup(alive, g) \in SUBSET Nodes
      BY DEF Init, InGroup
    <2>2. QED
      BY <1>1, <2>1, FloorIsWhole
  <1>3. target \in [Groups -> Nat] /\ \A g \in Groups : IsWhole(target[g])
    BY <1>2 DEF Init
  <1>4. known \in Nat
    <2>1. Agents \in SUBSET Nodes /\ IsFiniteSet(Nodes) /\ known = Cardinality(Agents)
      BY ConstantsAssumption DEF Init, Agents
    <2>2. QED
      BY <2>1, FS_Subset, FS_CardinalityType
  <1>5. view.target = NoTargets /\ group_targets = NoTargets /\ \A g \in Groups : NoTargets[g] = 0
    BY NoViewType DEF Init
  <1>6. TypeOK
    <2>1. /\ view.ids = {} /\ view.cancelled = {} /\ view.draining = {}
          /\ view.target \in [Groups -> Nat]
          /\ view.agent \in [Nodes -> {"up", "orphaned", "unknown"}]
          /\ view.tasks \in [Nodes -> 0..MaxTasks]
      BY NoViewType DEF Init
    <2>2. /\ step = "idle" /\ cancelled = {} /\ todo = {} /\ killable = {} /\ marked = {}
          /\ unsent = {} /\ rem_group_capacities = NoTargets /\ group_targets = NoTargets
      BY DEF Init
    <2>3. alive \subseteq Nodes /\ fleets \subseteq Groups
      BY ConstantsAssumption DEF Init
    <2>4. /\ drain \in [Nodes -> {"no", "submitted", "draining"}]
          /\ runs \in 0..MaxRuns /\ changes \in 0..MaxChanges /\ faults \in 0..MaxFaults
      BY ConstantsAssumption DEF Init
    <2>5. /\ draining_enabled \in BOOLEAN /\ no_scale_down \in BOOLEAN
          /\ agent \in [Nodes -> {"up", "orphaned", "unknown"}] /\ tasks \in [Nodes -> 0..MaxTasks]
          /\ new_target_capacity = 0 /\ remaining_non_orphan_capacity = 0 /\ curr_capacity = 0
          /\ killed_task_count = 0 /\ removed_weight = 0
      BY DEF Init
    <2>6. QED
      BY <1>3, <1>4, <2>1, <2>2, <2>3, <2>4, <2>5, NoViewType DEF TypeOK
  <1>7. WholeTargets
    BY <1>3, <1>5, ZeroIsWhole DEF WholeTargets
  <1>8. NothingMarked /\ OnlyLoaded /\ Tally /\ Limits
    BY DEF Init, NothingMarked, OnlyLoaded, Tally, Limits, Pruning
  <1>9. QED
    BY <1>6, <1>7, <1>8 DEF IInv

\* What AWS, the cluster and the drainer do changes nothing of a run.
LEMMA MemoryKept ==
  ASSUME IInv, UNCHANGED <<target, step, view, group_targets, new_target_capacity, killable, marked,
                           rem_group_capacities, remaining_non_orphan_capacity, curr_capacity,
                           killed_task_count, removed_weight>>
  PROVE  WholeTargets' /\ NothingMarked' /\ OnlyLoaded' /\ Tally' /\ Limits'
  <1>1. WholeTargets'
    BY DEF IInv, WholeTargets
  <1>2. NothingMarked' /\ OnlyLoaded' /\ Limits'
    BY DEF IInv, NothingMarked, OnlyLoaded, Limits, Pruning, Left
  <1>3. Left' = Left /\ LeftUp' = LeftUp /\ Pruning' = Pruning
    BY DEF Left, LeftUp, Pruning
  <1>4. ASSUME Pruning'
        PROVE  /\ removed_weight' = Capacity(marked')
               /\ killed_task_count' = Total(view.tasks', marked')
               /\ \A g \in Groups : rem_group_capacities'[g] = Capacity(InGroup(Left', g))
               /\ remaining_non_orphan_capacity' = Capacity(LeftUp')
    <2>1. Pruning
      BY <1>3, <1>4
    <2>2. QED
      BY <1>3, <2>1 DEF IInv, Tally
  <1>5. Tally'
    BY <1>4 DEF Tally
  <1>6. QED
    BY <1>1, <1>2, <1>5

\* Instances that are gone leave nothing behind.
LEMMA GoneType ==
  ASSUME TypeOK, NEW S, Gone(S)
  PROVE  /\ alive' \subseteq Nodes
         /\ agent' \in [Nodes -> {"up", "orphaned", "unknown"}]
         /\ tasks' \in [Nodes -> 0..MaxTasks]
         /\ drain' \in [Nodes -> {"no", "submitted", "draining"}]
  <1>1. 0 \in 0..MaxTasks
    BY ConstantsAssumption
  <1>2. QED
    BY <1>1 DEF TypeOK, Gone

\* The steps of the environment.
LEMMA EnvironmentStep ==
  ASSUME IInv, Environment
  PROVE  IInv'
  <1>1. TypeOK
    BY DEF IInv
  <1>2. UNCHANGED <<target, run>>
    BY DEF Environment, InstanceLaunched, AgentJoins, TasksChange, InstanceLost, DrainerTaints,
           DrainerTerminates, DrainerGivesUp, FleetsCancelled, aws
  <1>3. WholeTargets' /\ NothingMarked' /\ OnlyLoaded' /\ Tally' /\ Limits'
    <2>1. UNCHANGED <<target, step, view, group_targets, new_target_capacity, killable, marked,
                      rem_group_capacities, remaining_non_orphan_capacity, curr_capacity,
                      killed_task_count, removed_weight>>
      BY <1>2 DEF run, loaded, goal, pruning
    <2>2. QED
      BY <2>1, MemoryKept
  <1>4. ASSUME NEW n \in Nodes, InstanceLaunched(n)
        PROVE  TypeOK'
    BY <1>1, <1>4, ConstantsAssumption DEF InstanceLaunched, Change, TypeOK, run, config, loaded, goal, pruning
  <1>5. ASSUME NEW n \in Nodes, AgentJoins(n)
        PROVE  TypeOK'
    BY <1>1, <1>5, ConstantsAssumption DEF AgentJoins, Change, TypeOK, aws, run, config, loaded, goal, pruning
  <1>6. ASSUME NEW n \in Nodes, NEW k \in 0..MaxTasks, TasksChange(n, k)
        PROVE  TypeOK'
    BY <1>1, <1>6, ConstantsAssumption DEF TasksChange, Change, TypeOK, aws, run, config, loaded, goal, pruning
  <1>7. ASSUME NEW n \in Nodes, InstanceLost(n)
        PROVE  TypeOK'
    <2>1. Gone({n}) /\ Fault /\ UNCHANGED <<target, cancelled, run, changes>>
      BY <1>7 DEF InstanceLost
    <2>2. QED
      BY <1>1, <2>1, GoneType, ConstantsAssumption DEF Fault, TypeOK, run, config, loaded, goal, pruning
  <1>8. ASSUME NEW n \in Nodes, DrainerTaints(n)
        PROVE  TypeOK'
    BY <1>1, <1>8, ConstantsAssumption DEF DrainerTaints, TypeOK, aws, run, config, loaded, goal, pruning
  <1>9. ASSUME NEW n \in Nodes, DrainerTerminates(n)
        PROVE  TypeOK'
    <2>1. Gone({n}) /\ UNCHANGED <<target, cancelled, run, changes, faults>>
      BY <1>9 DEF DrainerTerminates
    <2>2. QED
      BY <1>1, <2>1, GoneType, ConstantsAssumption DEF TypeOK, run, config, loaded, goal, pruning
  <1>10. ASSUME NEW n \in Nodes, DrainerGivesUp(n)
        PROVE  TypeOK'
    BY <1>1, <1>10, ConstantsAssumption DEF DrainerGivesUp, Change, TypeOK, aws, run, config, loaded, goal, pruning
  <1>11. ASSUME NEW S \in SUBSET fleets, FleetsCancelled(S)
        PROVE  TypeOK'
    BY <1>1, <1>11, ConstantsAssumption DEF FleetsCancelled, Fault, TypeOK, cluster, run, config, loaded, goal, pruning
  <1>12. TypeOK'
    BY <1>4, <1>5, <1>6, <1>7, <1>8, <1>9, <1>10, <1>11 DEF Environment
  <1>13. QED
    BY <1>3, <1>12 DEF IInv

\* The end of a run, wherever it comes, forgets everything.
LEMMA ReturnInvariant ==
  ASSUME IInv, Return, UNCHANGED <<aws, cluster, runs, changes>>, faults' \in 0..MaxFaults
  PROVE  IInv'
  <1>1. TypeOK'
    <2>1. /\ view'.ids = {} /\ view'.cancelled = {} /\ view'.draining = {}
          /\ view'.target \in [Groups -> Nat]
          /\ view'.agent \in [Nodes -> {"up", "orphaned", "unknown"}]
          /\ view'.tasks \in [Nodes -> 0..MaxTasks]
      BY NoViewType DEF Return
    <2>2. TypeOK
      BY DEF IInv
    <2>3. /\ step' = "idle" /\ no_scale_down' \in BOOLEAN
          /\ new_target_capacity' = 0 /\ group_targets' = NoTargets /\ todo' = {}
          /\ killable' = {} /\ marked' = {} /\ unsent' = {} /\ rem_group_capacities' = NoTargets
          /\ remaining_non_orphan_capacity' = 0 /\ curr_capacity' = 0
          /\ killed_task_count' = 0 /\ removed_weight' = 0
          /\ UNCHANGED <<known, config>>
      BY DEF Return
    <2>4. QED
      BY <2>1, <2>2, <2>3, NoViewType DEF TypeOK, aws, cluster, config
  <1>2. WholeTargets'
    <2>1. target' = target /\ view'.target = NoTargets /\ group_targets' = NoTargets
      BY NoViewType DEF Return, aws
    <2>2. QED
      BY <2>1, NoViewType, ZeroIsWhole DEF IInv, WholeTargets
  <1>3. NothingMarked' /\ OnlyLoaded' /\ Tally' /\ Limits'
    BY DEF Return, NothingMarked, OnlyLoaded, Tally, Limits, Pruning
  <1>4. QED
    BY <1>1, <1>2, <1>3 DEF IInv

\* Autoscaler.run up to the plan.
LEMMA ReloadStep ==
  ASSUME IInv, reload_state
  PROVE  IInv'
  <1>1. TypeOK /\ WholeTargets
    BY DEF IInv
  <1> DEFINE seen == [g \in Groups |-> IF g \in cancelled THEN 0 ELSE target[g]]
  <1>2. seen \in [Groups -> Nat] /\ \A g \in Groups : IsWhole(seen[g])
    BY <1>1, ZeroIsWhole DEF TypeOK, WholeTargets
  <1> HIDE DEF seen
  <1>3. /\ view'.ids = alive /\ view'.target = seen /\ view'.cancelled = cancelled
        /\ view'.agent = agent /\ view'.tasks = tasks
        /\ view'.draining = {n \in alive : drain[n] = "draining"}
    BY DEF reload_state, seen
  <1>4. known' \in Nat
    <2>1. Agents \in SUBSET Nodes /\ IsFiniteSet(Nodes) /\ known' = Cardinality(Agents)
      BY <1>1, ConstantsAssumption DEF reload_state, Agents, TypeOK
    <2>2. QED
      BY <2>1, FS_Subset, FS_CardinalityType
  <1>5. no_scale_down' \in BOOLEAN
    BY ConstantsAssumption DEF reload_state
  <1>6. /\ step = "idle" /\ step' = "loaded" /\ runs' \in 0..MaxRuns
        /\ UNCHANGED <<aws, cluster, config, goal, pruning, changes, faults>>
    BY <1>1, ConstantsAssumption DEF reload_state, TypeOK
  <1>7. TypeOK'
    BY <1>1, <1>2, <1>3, <1>4, <1>5, <1>6 DEF TypeOK, aws, cluster, config, goal, pruning
  <1>8. WholeTargets'
    BY <1>1, <1>2, <1>3, <1>6 DEF WholeTargets, aws, goal
  <1>9. NothingMarked' /\ OnlyLoaded' /\ Tally' /\ Limits'
    BY <1>6 DEF IInv, NothingMarked, OnlyLoaded, Tally, Limits, Pruning, pruning
  <1>10. QED
    BY <1>7, <1>8, <1>9 DEF IInv

\* Expired orphans are terminated: of the run only its step changes.
LEMMA OrphansStep ==
  ASSUME IInv, terminate_expired_orphan_instances
  PROVE  IInv'
  <1>1. PICK S : Gone(S)
    BY DEF terminate_expired_orphan_instances
  <1>2. /\ step = "loaded" /\ step' = "recycled"
        /\ UNCHANGED <<target, cancelled, config, loaded, goal, pruning, budget>>
    BY DEF terminate_expired_orphan_instances
  <1>3. TypeOK'
    <2>1. TypeOK
      BY DEF IInv
    <2>2. QED
      BY <1>1, <1>2, <2>1, GoneType DEF TypeOK, config, loaded, goal, pruning, budget
  <1>4. WholeTargets'
    BY <1>2 DEF IInv, WholeTargets, loaded, goal
  <1>5. NothingMarked' /\ OnlyLoaded' /\ Tally' /\ Limits'
    BY <1>2 DEF IInv, NothingMarked, OnlyLoaded, Tally, Limits, Pruning, pruning
  <1>6. QED
    BY <1>3, <1>4, <1>5 DEF IInv

\* The plan.
LEMMA PlanStep ==
  ASSUME IInv, NEW requested \in Requests, modify_target_capacity(requested)
  PROVE  IInv'
  <1>1. TypeOK /\ ViewOK /\ requested \in Nat
    BY ConstantsAssumption DEF IInv, TypeOK, ViewOK, WholeTargets
  <1>2. /\ new_target_capacity' = _constrain_target_capacity(requested)
        /\ group_targets' = _compute_new_resource_group_targets(new_target_capacity')
    BY DEF modify_target_capacity
  <1>3. new_target_capacity' \in Nat
    BY <1>1, <1>2, ConstrainedWithinLimits
  <1>4. group_targets' \in [Groups -> Nat] /\ \A g \in Groups : IsWhole(group_targets'[g])
    BY <1>1, <1>2, <1>3, PlanIsBalanced
  <1>5. /\ step \in {"loaded", "recycled"} /\ step' = "modify" /\ todo' \subseteq Groups
        /\ UNCHANGED <<aws, cluster, config, loaded, pruning, budget>>
    BY DEF modify_target_capacity, Ready
  <1>6. TypeOK'
    BY <1>1, <1>3, <1>4, <1>5 DEF TypeOK, aws, cluster, config, loaded, pruning, budget
  <1>7. WholeTargets'
    BY <1>4, <1>5 DEF IInv, WholeTargets, aws, loaded
  <1>8. NothingMarked' /\ OnlyLoaded' /\ Tally' /\ Limits'
    BY <1>5 DEF IInv, NothingMarked, OnlyLoaded, Tally, Limits, Pruning, pruning
  <1>9. QED
    BY <1>6, <1>7, <1>8 DEF IInv

\* The groups are modified.
LEMMA ModifyGroupStep ==
  ASSUME IInv, NEW g \in Groups, ModifyGroup(g)
  PROVE  IInv'
  <1>1. TypeOK /\ WholeTargets
    BY DEF IInv
  <1>2. step = "modify" /\ UNCHANGED <<alive, cancelled, cluster, runs, changes>>
    BY DEF ModifyGroup
  <1>3. CASE Fault /\ Return /\ UNCHANGED target
    <2>1. faults' \in 0..MaxFaults
      BY <1>1, <1>3, ConstantsAssumption DEF TypeOK, Fault
    <2>2. QED
      BY <1>2, <1>3, <2>1, ReturnInvariant DEF aws
  <1>4. CASE /\ target' \in {target, [target EXCEPT ![g] = group_targets[g]]}
             /\ todo' = todo \ {g} /\ (Fault \/ UNCHANGED faults)
             /\ UNCHANGED <<config, step, loaded, new_target_capacity, group_targets, pruning>>
    <2>1. target' \in [Groups -> Nat] /\ \A h \in Groups : IsWhole(target'[h])
      BY <1>1, <1>4 DEF TypeOK, WholeTargets
    <2>2. faults' \in 0..MaxFaults
      BY <1>1, <1>4, ConstantsAssumption DEF TypeOK, Fault
    <2>3. TypeOK'
      BY <1>1, <1>2, <1>4, <2>1, <2>2 DEF TypeOK, cluster, config, loaded, pruning
    <2>4. WholeTargets'
      BY <1>1, <1>4, <2>1 DEF WholeTargets, loaded
    <2>5. NothingMarked' /\ OnlyLoaded' /\ Tally' /\ Limits'
      BY <1>2, <1>4 DEF IInv, NothingMarked, OnlyLoaded, Tally, Limits, Pruning, pruning
    <2>6. QED
      BY <2>3, <2>4, <2>5 DEF IInv
  <1>5. QED
    BY <1>3, <1>4 DEF ModifyGroup

\* The loop starts with the capacities of the reload, and nothing marked.
LEMMA StartPruningStep ==
  ASSUME IInv, StartPruning
  PROVE  IInv'
  <1>1. TypeOK /\ marked = {} /\ killed_task_count = 0 /\ removed_weight = 0
    BY DEF IInv, NothingMarked, StartPruning, Pruning
  <1>2. /\ step' = "prune"
        /\ killable' = {n \in view.ids \cap alive : _is_node_killable(n)}
        /\ curr_capacity' = fulfilled_capacity
        /\ remaining_non_orphan_capacity' = non_orphan_fulfilled_capacity
        /\ rem_group_capacities' = [g \in Groups |-> Capacity(InGroup(view.ids, g))]
        /\ UNCHANGED <<aws, cluster, config, loaded, goal, marked, unsent, killed_task_count,
                       removed_weight, budget>>
    BY DEF StartPruning
  <1>3. \A S \in SUBSET Nodes : Capacity(S) \in Nat
    BY CapacityType
  <1>4. /\ curr_capacity' \in Int /\ remaining_non_orphan_capacity' \in Nat
        /\ rem_group_capacities' \in [Groups -> Nat]
    <2>1. /\ view.ids \in SUBSET Nodes /\ {n \in view.ids : view.agent[n] = "up"} \in SUBSET Nodes
          /\ \A g \in Groups : InGroup(view.ids, g) \in SUBSET Nodes
      BY <1>1 DEF TypeOK, InGroup
    <2>2. fulfilled_capacity \in Nat /\ non_orphan_fulfilled_capacity \in Nat
      BY <1>3, <2>1 DEF fulfilled_capacity, non_orphan_fulfilled_capacity
    <2>3. \A g \in Groups : Capacity(InGroup(view.ids, g)) \in Nat
      BY <1>3, <2>1
    <2>4. QED
      BY <1>2, <2>2, <2>3
  <1>5. killable' \subseteq view.ids /\ \A n \in killable' : view.agent[n] # "unknown"
    BY <1>2 DEF _is_node_killable
  <1>6. TypeOK'
    BY <1>1, <1>2, <1>4, <1>5 DEF TypeOK, aws, cluster, config, loaded, goal, budget
  <1>7. WholeTargets' /\ NothingMarked' /\ OnlyLoaded'
    BY <1>1, <1>2, <1>5 DEF IInv, WholeTargets, NothingMarked, OnlyLoaded, Pruning, Left, aws, loaded, goal
  <1>8. Tally'
    <2>1. view' = view /\ marked' = {} /\ Left' = view.ids
      BY <1>1, <1>2 DEF Left, loaded
    <2>2. LeftUp' = {n \in view.ids : view.agent[n] = "up"}
      BY <2>1 DEF LeftUp
    <2>3. removed_weight' = Capacity(marked') /\ killed_task_count' = Total(view.tasks', marked')
      <3>1. Capacity({}) = 0 /\ Total(view.tasks, {}) = 0
        BY CapacityIsSum, TotalIsSum, SumEmpty
      <3>2. QED
        BY <1>1, <1>2, <2>1, <3>1
    <2>4. \A g \in Groups : rem_group_capacities'[g] = Capacity(InGroup(Left', g))
      BY <1>2, <2>1
    <2>5. remaining_non_orphan_capacity' = Capacity(LeftUp')
      BY <1>2, <2>2 DEF non_orphan_fulfilled_capacity
    <2>6. QED
      BY <2>3, <2>4, <2>5 DEF Tally
  <1>9. Limits'
    BY <1>1, <1>2, ConstantsAssumption DEF Limits
  <1>10. QED
    BY <1>6, <1>7, <1>8, <1>9 DEF IInv

\* A node is spared.
LEMMA SkipStep ==
  ASSUME IInv, NEW n \in Nodes, Skip(n)
  PROVE  IInv'
  <1>1. /\ killable' = killable \ {n}
        /\ UNCHANGED <<aws, cluster, config, step, loaded, goal, unsent, budget>>
        /\ UNCHANGED <<marked, rem_group_capacities, remaining_non_orphan_capacity,
                       curr_capacity, killed_task_count, removed_weight>>
    BY DEF Skip, Considered
  <1>2. TypeOK'
    BY <1>1 DEF IInv, TypeOK, aws, cluster, config, loaded, goal, budget
  <1>3. WholeTargets' /\ NothingMarked' /\ OnlyLoaded' /\ Limits'
    BY <1>1 DEF IInv, WholeTargets, NothingMarked, OnlyLoaded, Limits, Pruning, Left, aws, loaded, goal
  <1>4. Tally'
    <2>1. Left' = Left /\ LeftUp' = LeftUp /\ view' = view /\ Pruning' = Pruning
      BY <1>1 DEF Left, LeftUp, loaded, Pruning
    <2>2. Pruning => /\ removed_weight' = Capacity(marked')
                     /\ killed_task_count' = Total(view.tasks', marked')
                     /\ \A g \in Groups : rem_group_capacities'[g] = Capacity(InGroup(Left', g))
                     /\ remaining_non_orphan_capacity' = Capacity(LeftUp')
      BY <1>1, <2>1 DEF IInv, Tally
    <2>3. QED
      BY <2>1, <2>2 DEF Tally
  <1>5. QED
    BY <1>2, <1>3, <1>4 DEF IInv

\* A node is marked: it moves from what is left to what is removed.
LEMMA MarkStep ==
  ASSUME IInv, NEW n \in Nodes, Mark(n)
  PROVE  IInv'
  <1>1. TypeOK /\ OnlyLoaded /\ Tally /\ Limits /\ WholeTargets
    BY DEF IInv
  <1>2. /\ step = "prune" /\ n \in killable /\ killable' = killable \ {n} /\ step' = step
        /\ UNCHANGED <<aws, cluster, config, step, loaded, goal, unsent, budget>>
    BY DEF Mark, Considered
  <1>3. /\ marked' = marked \cup {n}
        /\ rem_group_capacities' = [rem_group_capacities EXCEPT ![GroupOf[n]] = @ - Weight[n]]
        /\ curr_capacity' = curr_capacity - Weight[n]
        /\ killed_task_count' = killed_task_count + view.tasks[n]
        /\ removed_weight' = removed_weight + Weight[n]
        /\ remaining_non_orphan_capacity' =
             remaining_non_orphan_capacity - (IF view.agent[n] = "orphaned" THEN 0 ELSE Weight[n])
    BY DEF Mark
  <1>4. Pruning /\ view' = view /\ Pruning' /\ group_targets' = group_targets
        /\ new_target_capacity' = new_target_capacity
    BY <1>2 DEF Pruning, loaded, goal
  <1>5. /\ n \in Left /\ n \in view.ids /\ n \notin marked /\ view.agent[n] \in {"up", "orphaned"}
        /\ marked \subseteq view.ids /\ view.ids \subseteq Nodes
    BY <1>1, <1>2, <1>4 DEF OnlyLoaded, Left, TypeOK
  <1>6. /\ Weight[n] \in Nat /\ GroupOf[n] \in Groups /\ view.tasks[n] \in Nat
        /\ group_targets \in [Groups -> Nat] /\ new_target_capacity \in Nat
        /\ rem_group_capacities \in [Groups -> Nat] /\ remaining_non_orphan_capacity \in Nat
        /\ killed_task_count \in Nat /\ removed_weight \in Nat /\ curr_capacity \in Int
        /\ max_weight_to_remove \in Nat /\ max_tasks_to_kill \in Nat
    BY <1>1, ConstantsAssumption DEF TypeOK
  <1>7. /\ removed_weight' <= max_weight_to_remove
        /\ killed_task_count' <= max_tasks_to_kill
        /\ rem_group_capacities[GroupOf[n]] - Weight[n] >= group_targets[GroupOf[n]]
        /\ view.agent[n] = "up" => remaining_non_orphan_capacity - Weight[n] >= new_target_capacity
    BY <1>3, <1>6 DEF Mark, Spared, OverMaxWeight, GroupAtTarget, OverMaxTasks, PoolAtTarget
  <1>8. /\ rem_group_capacities' \in [Groups -> Nat] /\ remaining_non_orphan_capacity' \in Nat
        /\ killed_task_count' \in Nat /\ removed_weight' \in Nat /\ curr_capacity' \in Int
    BY <1>3, <1>5, <1>6, <1>7
  <1>9. TypeOK'
    BY <1>1, <1>2, <1>3, <1>8 DEF TypeOK, aws, cluster, config, loaded, goal, budget
  <1>10. WholeTargets' /\ NothingMarked' /\ OnlyLoaded'
    <2>1. WholeTargets'
      BY <1>1, <1>2 DEF WholeTargets, aws, loaded, goal
    <2>2. NothingMarked' /\ OnlyLoaded'
      BY <1>1, <1>2, <1>3, <1>4, <1>5 DEF NothingMarked, OnlyLoaded, Left
    <2>3. QED
      BY <2>1, <2>2
  <1>11. Limits'
    <2>1. \A m \in marked' : rem_group_capacities'[GroupOf[m]] >= group_targets[GroupOf[m]]
      <3>1. SUFFICES ASSUME NEW m \in marked'
                     PROVE  rem_group_capacities'[GroupOf[m]] >= group_targets[GroupOf[m]]
        OBVIOUS
      <3>2. m \in Nodes /\ GroupOf[m] \in Groups
        BY <1>3, <1>5, ConstantsAssumption
      <3>3. CASE GroupOf[m] = GroupOf[n]
        BY <1>3, <1>6, <1>7, <3>3
      <3>4. CASE GroupOf[m] # GroupOf[n]
        <4>1. m \in marked
          BY <1>3, <3>4
        <4>2. rem_group_capacities'[GroupOf[m]] = rem_group_capacities[GroupOf[m]]
          BY <1>3, <1>6, <3>2, <3>4
        <4>3. QED
          BY <1>1, <1>4, <4>1, <4>2 DEF Limits
      <3>5. QED
        BY <3>3, <3>4
    <2>2. ASSUME NEW m \in marked', view.agent[m] = "up"
          PROVE  remaining_non_orphan_capacity' >= new_target_capacity
      <3>1. CASE view.agent[n] = "up"
        BY <1>3, <1>6, <1>7, <3>1
      <3>2. CASE view.agent[n] # "up"
        <4>1. m \in marked /\ remaining_non_orphan_capacity' = remaining_non_orphan_capacity
          BY <1>3, <1>5, <1>6, <2>2, <3>2
        <4>2. QED
          BY <1>1, <1>4, <2>2, <4>1 DEF Limits
      <3>3. QED
        BY <3>1, <3>2
    <2>3. QED
      BY <1>4, <1>7, <2>1, <2>2 DEF Limits
  <1>12. Tally'
    <2>1. /\ IsFiniteSet(marked) /\ IsFiniteSet(Left) /\ Left \in SUBSET Nodes
          /\ \A m \in Nodes : Weight[m] \in Int /\ view.tasks[m] \in Int
      <3>1. marked \in SUBSET Nodes /\ Left \in SUBSET Nodes
        BY <1>5 DEF Left
      <3>2. IsFiniteSet(marked) /\ IsFiniteSet(Left)
        BY <3>1, CapacityType
      <3>3. \A m \in Nodes : Weight[m] \in Int /\ view.tasks[m] \in Int
        BY <1>1, ConstantsAssumption DEF TypeOK
      <3>4. QED
        BY <3>1, <3>2, <3>3
    <2>2. removed_weight' = Capacity(marked')
      <3>1. SumOf(Weight, marked \cup {n}) = SumOf(Weight, marked) + Weight[n]
        BY <1>5, <2>1, SumAdd
      <3>2. removed_weight = Capacity(marked)
        BY <1>1, <1>4 DEF Tally
      <3>3. QED
        BY <1>3, <3>1, <3>2, CapacityIsSum
    <2>3. killed_task_count' = Total(view.tasks', marked')
      <3>1. SumOf(view.tasks, marked \cup {n}) = SumOf(view.tasks, marked) + view.tasks[n]
        BY <1>5, <2>1, SumAdd
      <3>2. killed_task_count = Total(view.tasks, marked)
        BY <1>1, <1>4 DEF Tally
      <3>3. QED
        BY <1>3, <1>4, <3>1, <3>2, TotalIsSum
    <2>4. Left' = Left \ {n}
      BY <1>3, <1>4 DEF Left
    <2>5. \A g \in Groups : rem_group_capacities'[g] = Capacity(InGroup(Left', g))
      <3>1. SUFFICES ASSUME NEW g \in Groups
                     PROVE  rem_group_capacities'[g] = Capacity(InGroup(Left', g))
        OBVIOUS
      <3>2. rem_group_capacities[g] = Capacity(InGroup(Left, g))
        BY <1>1, <1>4 DEF Tally
      <3>3. CASE g = GroupOf[n]
        <4> DEFINE G == InGroup(Left, g)
        <4>1. InGroup(Left', g) = G \ {n} /\ n \in G /\ G \in SUBSET Nodes
          BY <1>5, <2>1, <2>4, <3>3 DEF InGroup
        <4> HIDE DEF G
        <4>2. IsFiniteSet(G)
          BY <4>1, CapacityType
        <4>3. SumOf(Weight, G \ {n}) = SumOf(Weight, G) - Weight[n]
          BY <2>1, <4>1, <4>2, SumRemove
        <4>4. rem_group_capacities'[g] = rem_group_capacities[g] - Weight[n]
          BY <1>3, <1>6, <3>3
        <4>5. QED
          BY <3>2, <4>1, <4>3, <4>4, CapacityIsSum DEF G
      <3>4. CASE g # GroupOf[n]
        <4>1. InGroup(Left', g) = InGroup(Left, g)
          BY <2>4, <3>4 DEF InGroup
        <4>2. rem_group_capacities'[g] = rem_group_capacities[g]
          BY <1>3, <1>6, <3>4
        <4>3. QED
          BY <3>2, <4>1, <4>2
      <3>5. QED
        BY <3>3, <3>4
    <2>6. remaining_non_orphan_capacity' = Capacity(LeftUp')
      <3>1. remaining_non_orphan_capacity = Capacity(LeftUp) /\ LeftUp \in SUBSET Nodes
        BY <1>1, <1>4, <2>1 DEF Tally, LeftUp
      <3>2. CASE view.agent[n] = "up"
        <4>1. LeftUp' = LeftUp \ {n} /\ n \in LeftUp
          BY <1>4, <1>5, <2>4, <3>2 DEF LeftUp
        <4>2. IsFiniteSet(LeftUp)
          BY <3>1, CapacityType
        <4>3. SumOf(Weight, LeftUp \ {n}) = SumOf(Weight, LeftUp) - Weight[n]
          BY <2>1, <3>1, <4>1, <4>2, SumRemove
        <4>4. QED
          BY <1>3, <3>1, <3>2, <4>1, <4>3, CapacityIsSum
      <3>3. CASE view.agent[n] = "orphaned"
        <4>1. LeftUp' = LeftUp
          BY <1>4, <2>4, <3>3 DEF LeftUp
        <4>2. remaining_non_orphan_capacity' = remaining_non_orphan_capacity
          BY <1>3, <1>6, <3>3
        <4>3. QED
          BY <3>1, <4>1, <4>2
      <3>4. QED
        BY <1>5, <3>2, <3>3
    <2>7. QED
      BY <2>2, <2>3, <2>5, <2>6 DEF Tally
  <1>13. QED
    BY <1>9, <1>10, <1>11, <1>12 DEF IInv

\* The rest of a run: the nodes are submitted or terminated, and what it knows
\* of them stays.
LEMMA SubmitStep ==
  ASSUME IInv,
         \/ EnoughMarked
         \/ \E n \in Nodes : submit_for_draining(n)
         \/ \E g \in Groups : terminate_instances_by_id(g)
  PROVE  IInv'
  <1>1. TypeOK
    BY DEF IInv
  <1>2. CASE EnoughMarked
    <2>1. /\ step = "prune" /\ step' = "submit" /\ unsent' = marked
          /\ UNCHANGED <<aws, cluster, config, loaded, goal, killable, marked,
                         rem_group_capacities, remaining_non_orphan_capacity,
                         curr_capacity, killed_task_count, removed_weight, budget>>
      BY <1>2 DEF EnoughMarked
    <2>2. TypeOK'
      BY <1>1, <2>1 DEF TypeOK, aws, cluster, config, loaded, goal, budget
    <2>3. WholeTargets' /\ NothingMarked' /\ OnlyLoaded' /\ Limits'
      BY <2>1 DEF IInv, WholeTargets, NothingMarked, OnlyLoaded, Limits, Pruning, Left, aws, loaded, goal
    <2>4. Left' = Left /\ LeftUp' = LeftUp /\ view' = view /\ Pruning /\ Pruning'
      BY <2>1 DEF Left, LeftUp, loaded, Pruning
    <2>5. /\ removed_weight' = Capacity(marked')
          /\ killed_task_count' = Total(view.tasks', marked')
          /\ \A g \in Groups : rem_group_capacities'[g] = Capacity(InGroup(Left', g))
          /\ remaining_non_orphan_capacity' = Capacity(LeftUp')
      BY <2>1, <2>4 DEF IInv, Tally
    <2>6. Tally'
      BY <2>5 DEF Tally
    <2>7. QED
      BY <2>2, <2>3, <2>6 DEF IInv
  <1>3. ASSUME UNCHANGED <<target, cancelled, config, step, loaded, goal, killable, marked,
                           rem_group_capacities, remaining_non_orphan_capacity,
                           curr_capacity, killed_task_count, removed_weight, budget>>,
               unsent' \subseteq unsent, alive' \subseteq Nodes,
               agent' \in [Nodes -> {"up", "orphaned", "unknown"}],
               tasks' \in [Nodes -> 0..MaxTasks],
               drain' \in [Nodes -> {"no", "submitted", "draining"}]
        PROVE  IInv'
    <2>1. TypeOK'
      BY <1>1, <1>3 DEF TypeOK, config, loaded, goal, budget
    <2>2. UNCHANGED <<target, step, view, group_targets, new_target_capacity, killable, marked,
                      rem_group_capacities, remaining_non_orphan_capacity, curr_capacity,
                      killed_task_count, removed_weight>>
      BY <1>3 DEF loaded, goal
    <2>3. QED
      BY <2>1, <2>2, MemoryKept DEF IInv
  <1>4. ASSUME NEW n \in Nodes, submit_for_draining(n)
        PROVE  IInv'
    <2>1. /\ unsent' \subseteq unsent /\ drain' \in [Nodes -> {"no", "submitted", "draining"}]
          /\ UNCHANGED <<aws, agent, tasks>>
      BY <1>1, <1>4 DEF submit_for_draining, TypeOK
    <2>2. QED
      BY <1>1, <1>3, <1>4, <2>1 DEF submit_for_draining, TypeOK, aws
  <1>5. ASSUME NEW g \in Groups, terminate_instances_by_id(g)
        PROVE  IInv'
    <2>1. unsent' \subseteq unsent /\ Gone(InGroup(unsent, g))
      BY <1>5 DEF terminate_instances_by_id
    <2>2. QED
      BY <1>1, <1>3, <1>5, <2>1, GoneType DEF terminate_instances_by_id
  <1>6. QED
    BY <1>2, <1>4, <1>5

\* A run ends.
LEMMA EndStep ==
  ASSUME IInv, AllStale \/ NothingToPrune \/ EndRun
  PROVE  IInv'
  <1>1. TypeOK
    BY DEF IInv
  <1>2. Return /\ UNCHANGED <<aws, cluster, runs, changes>> /\ (Fault \/ UNCHANGED faults)
    BY DEF AllStale, NothingToPrune, EndRun, budget
  <1>3. faults' \in 0..MaxFaults
    BY <1>1, <1>2, ConstantsAssumption DEF TypeOK, Fault
  <1>4. QED
    BY <1>2, <1>3, ReturnInvariant

\* Every step preserves the invariant.
LEMMA NextInvariant ==
  IInv /\ [Next]_vars => IInv'
  <1> SUFFICES ASSUME IInv, [Next]_vars PROVE IInv'
    OBVIOUS
  <1>1. CASE Environment
    BY <1>1, EnvironmentStep
  <1>2. CASE Run
    <2>1. CASE reload_state
      BY <2>1, ReloadStep
    <2>2. CASE terminate_expired_orphan_instances
      BY <2>2, OrphansStep
    <2>3. CASE \E requested \in Requests : modify_target_capacity(requested)
      BY <2>3, PlanStep
    <2>4. CASE \E g \in Groups : ModifyGroup(g)
      BY <2>4, ModifyGroupStep
    <2>5. CASE StartPruning
      BY <2>5, StartPruningStep
    <2>6. CASE \E n \in Nodes : Skip(n) \/ Mark(n)
      BY <2>6, SkipStep, MarkStep
    <2>7. CASE \/ EnoughMarked
               \/ \E n \in Nodes : submit_for_draining(n)
               \/ \E g \in Groups : terminate_instances_by_id(g)
      BY <2>7, SubmitStep
    <2>8. CASE AllStale \/ NothingToPrune \/ EndRun
      BY <2>8, EndStep
    <2>9. QED
      BY <1>2, <2>1, <2>2, <2>3, <2>4, <2>5, <2>6, <2>7, <2>8 DEF Run
  <1>3. CASE UNCHANGED vars
    <2>1. TypeOK'
      BY <1>3 DEF IInv, TypeOK, vars, aws, cluster, config, loaded, goal, pruning, budget
    <2>2. UNCHANGED <<target, step, view, group_targets, new_target_capacity, killable, marked,
                      rem_group_capacities, remaining_non_orphan_capacity, curr_capacity,
                      killed_task_count, removed_weight>>
      BY <1>3 DEF vars, aws, loaded, goal, pruning
    <2>3. QED
      BY <2>1, <2>2, MemoryKept DEF IInv
  <1>4. QED
    BY <1>1, <1>2, <1>3 DEF Next

-----------------------------------------------------------------------------
(* Theorems.                                                                *)

\* Every variable of the pool manager keeps its type; in particular a target
\* capacity, of the pool or of a group, never falls below zero.
THEOREM TypeCorrect ==
  Spec => []TypeOK
  <1>1. IInv => TypeOK
    BY DEF IInv
  <1>2. QED
    BY <1>1, InitInvariant, NextInvariant, PTL DEF Spec

\* prune_excess_fulfilled_capacity: the nodes that a run has marked leave every
\* group and the part of the pool in service at its new target, and are within
\* the limits on weight and tasks.
THEOREM PruningKeepsTargets ==
  Spec => []PruneKeepsTargets
  <1>1. IInv => PruneKeepsTargets
    <2> SUFFICES ASSUME IInv, Pruning
                 PROVE  /\ Capacity(marked) <= max_weight_to_remove
                        /\ Total(view.tasks, marked) <= max_tasks_to_kill
                        /\ \A n \in marked : Capacity(InGroup(Left, GroupOf[n])) >= group_targets[GroupOf[n]]
                        /\ (\E n \in marked : view.agent[n] = "up") => Capacity(LeftUp) >= new_target_capacity
      BY DEF PruneKeepsTargets, Pruning, Left, LeftUp
    <2>1. \A n \in marked : n \in Nodes /\ GroupOf[n] \in Groups
      BY ConstantsAssumption DEF IInv, TypeOK
    <2>2. QED
      BY <2>1 DEF IInv, Tally, Limits
  <1>2. QED
    BY <1>1, InitInvariant, NextInvariant, PTL DEF Spec

\* modify_target_capacity: the plan of every run is within the limits on the
\* pool's target, and the groups' targets are balanced.  A configuration whose
\* limits contradict each other would leave the pool no target to move to.
THEOREM PlansAreBalanced ==
  ASSUME min_capacity <= max_capacity
  PROVE  Spec => []TargetsBalanced
  <1>1. Init => TargetsBalanced
    BY DEF Init, TargetsBalanced, Planned
  <1>2. IInv /\ TargetsBalanced /\ [Next]_vars => TargetsBalanced'
    <2> SUFFICES ASSUME IInv, TargetsBalanced, [Next]_vars PROVE TargetsBalanced'
      OBVIOUS
    <2>1. CASE ~Planned'
      BY <2>1 DEF TargetsBalanced
    <2>2. CASE UNCHANGED <<view, new_target_capacity, group_targets>> /\ Planned
      <3>1. NonStale' = NonStale /\ target_capacity' = target_capacity
        BY <2>2 DEF NonStale, target_capacity
      <3>2. Total(group_targets, NonStale)' = Total(group_targets, NonStale)
        BY <2>2, <3>1
      <3>3. QED
        BY <2>2, <3>1, <3>2 DEF TargetsBalanced
    <2>3. ASSUME NEW requested \in Requests, modify_target_capacity(requested)
          PROVE  TargetsBalanced'
      <3>1. ViewOK /\ requested \in Nat
        BY ConstantsAssumption DEF IInv, TypeOK, ViewOK, WholeTargets
      <3> DEFINE new == _constrain_target_capacity(requested)
                 t == _compute_new_resource_group_targets(new)
                 sum == Total(t, NonStale)
      <3>2. new_target_capacity' = new /\ group_targets' = t /\ view' = view
        BY <2>3 DEF modify_target_capacity, loaded
      <3>3. /\ new \in Nat
            /\ new - target_capacity <= max_weight_to_add /\ -(new - target_capacity) <= max_weight_to_remove
            /\ new > max_capacity => new - target_capacity <= 0
            /\ new < min_capacity => new - target_capacity >= 0
        BY <3>1, ConstrainedWithinLimits
      <3> HIDE DEF new
      <3>4. /\ sum < new => \A g \in NonStale : ~(t[g] + Unit <= GroupMax[g])
            /\ sum - Unit >= new => \A g \in NonStale : ~(t[g] - Unit >= GroupMin[g])
            /\ \A g, h \in NonStale :
                 /\ t[g] > view.target[g] /\ t[h] + Unit <= GroupMax[h] => t[g] <= t[h] + Unit
                 /\ t[g] < view.target[g] /\ t[h] - Unit >= GroupMin[h] => t[g] >= t[h] - Unit
        BY <3>1, <3>3, PlanIsBalanced
      <3> HIDE DEF t
      <3>5. /\ NonStale' = NonStale /\ target_capacity' = target_capacity
            /\ Total(group_targets, NonStale)' = sum
        BY <3>2 DEF NonStale, target_capacity
      <3> HIDE DEF sum
      <3>6. QED
        BY <3>2, <3>3, <3>4, <3>5 DEF TargetsBalanced
    <2>4. Planned' => \/ UNCHANGED <<view, new_target_capacity, group_targets>> /\ Planned
                      \/ \E requested \in Requests : modify_target_capacity(requested)
      <3>1. CASE Environment \/ UNCHANGED vars
        <4>1. UNCHANGED <<step, loaded, goal>>
          BY <3>1 DEF Environment, InstanceLaunched, AgentJoins, TasksChange, InstanceLost, DrainerTaints,
                 DrainerTerminates, DrainerGivesUp, FleetsCancelled, run, vars
        <4>2. QED
          BY <4>1 DEF loaded, goal, Planned
      <3>2. CASE Run
        <4>1. CASE \/ reload_state \/ terminate_expired_orphan_instances \/ AllStale
                   \/ NothingToPrune \/ EndRun
          BY <4>1 DEF reload_state, terminate_expired_orphan_instances, AllStale, NothingToPrune,
                 EndRun, Return, Planned
        <4>2. CASE \/ StartPruning \/ EnoughMarked \/ (\E n \in Nodes : Skip(n) \/ Mark(n))
                   \/ (\E n \in Nodes : submit_for_draining(n))
                   \/ (\E g \in Groups : terminate_instances_by_id(g))
          <5>1. UNCHANGED <<loaded, goal>> /\ step \in {"modify", "prune", "submit"}
            BY <4>2 DEF StartPruning, EnoughMarked, Skip, Mark, Considered, submit_for_draining,
                   terminate_instances_by_id
          <5>2. QED
            BY <5>1 DEF loaded, goal, Planned
        <4>3. CASE \E g \in Groups : ModifyGroup(g)
          BY <4>3 DEF ModifyGroup, Return, Planned, loaded
        <4>4. QED
          BY <3>2, <4>1, <4>2, <4>3 DEF Run
      <3>3. QED
        BY <3>1, <3>2 DEF Next
    <2>5. QED
      BY <2>1, <2>2, <2>3, <2>4
  <1>3. QED
    BY <1>1, <1>2, InitInvariant, NextInvariant, PTL DEF Spec

-----------------------------------------------------------------------------
(* What stays in service over many runs.  While a run lasts and nothing     *)
(* fails, a quiet pool is in service as the run has loaded it, but for the  *)
(* nodes that were draining and those that the run has sent away; and the   *)
(* draining nodes are marked before any other.                              *)

NothingFailed == faults = MaxFaults

UpAtReload == {n \in view.ids : view.agent[n] = "up"}
Sent == IF step = "submit" THEN marked \ unsent ELSE {}

AsLoaded ==
  NothingFailed /\ step # "idle" =>
    /\ \A n \in UpAtReload : n \notin view.draining \cup Sent => n \in InService
    /\ \A n \in InService : n \in UpAtReload /\ n \notin view.draining

DrainingFirst ==
  Pruning =>
    \A n \in marked, d \in killable : d \in view.draining => n \in view.draining

\* A fault cannot be taken back.
LEMMA FailedForGood ==
  ASSUME TypeOK, [Next]_vars, NothingFailed'
  PROVE  NothingFailed /\ UNCHANGED faults
  <1>1. ~Fault
    BY ConstantsAssumption DEF TypeOK, Fault, NothingFailed
  <1>2. faults' = faults
    <2>1. CASE Environment
      BY <1>1, <2>1 DEF Environment, InstanceLaunched, AgentJoins, TasksChange, InstanceLost,
         DrainerTaints, DrainerTerminates, DrainerGivesUp, FleetsCancelled
    <2>2. CASE \/ reload_state \/ terminate_expired_orphan_instances \/ AllStale \/ StartPruning
               \/ NothingToPrune \/ EnoughMarked \/ EndRun
               \/ \E requested \in Requests : modify_target_capacity(requested)
      BY <1>1, <2>2 DEF reload_state, terminate_expired_orphan_instances, AllStale, StartPruning,
         NothingToPrune, EnoughMarked, EndRun, modify_target_capacity, budget
    <2>3. CASE \E g \in Groups : ModifyGroup(g) \/ terminate_instances_by_id(g)
      BY <1>1, <2>3 DEF ModifyGroup, terminate_instances_by_id, budget
    <2>4. CASE \E n \in Nodes : Skip(n) \/ Mark(n) \/ submit_for_draining(n)
      BY <2>4 DEF Skip, Mark, Considered, submit_for_draining, budget
    <2>5. CASE UNCHANGED vars
      BY <2>5 DEF vars, budget
    <2>6. QED
      BY <2>1, <2>2, <2>3, <2>4, <2>5 DEF Next, Run
  <1>3. QED
    BY <1>2 DEF NothingFailed

\* A step that changes neither what is in service nor what the run knows.
LEMMA ServiceSame ==
  ASSUME AsLoaded, NothingFailed, step # "idle", UNCHANGED view,
         \A n : n \in InService' <=> n \in InService,
         Sent' = Sent
  PROVE  AsLoaded'
  BY DEF AsLoaded, UpAtReload

\* In a quiet pool nothing comes into service, or leaves it, during a run.
LEMMA EnvironmentService ==
  ASSUME TypeOK, Quiet, AsLoaded, NothingFailed', NothingFailed, UNCHANGED faults, Environment
  PROVE  AsLoaded'
  <1>1. UNCHANGED <<step, view, marked, unsent>>
    BY DEF Environment, InstanceLaunched, AgentJoins, TasksChange, InstanceLost, DrainerTaints,
           DrainerTerminates, DrainerGivesUp, FleetsCancelled, run, loaded, pruning
  <1>2. CASE step = "idle"
    BY <1>1, <1>2 DEF AsLoaded
  <1>3. CASE step # "idle"
    <2>1. ~Fault
      BY ConstantsAssumption DEF TypeOK, Fault
    <2>2. \/ \E n \in Nodes : InstanceLaunched(n)
          \/ \E n \in Nodes : \E k \in 0..MaxTasks : TasksChange(n, k)
      BY <1>3, <2>1 DEF Environment, AgentJoins, InstanceLost, DrainerTaints, DrainerTerminates,
         DrainerGivesUp, FleetsCancelled
    <2>3. \A n : n \in InService' <=> n \in InService
      BY <2>2 DEF InstanceLaunched, TasksChange, InService, TypeOK, aws
    <2>4. Sent' = Sent
      BY <1>1 DEF Sent
    <2>5. QED
      BY <1>1, <1>3, <2>3, <2>4, ServiceSame
  <1>4. QED
    BY <1>2, <1>3

\* No step of a run takes a node out of service but by sending it away; only
\* orphans are terminated before.
LEMMA RunService ==
  ASSUME IInv, TypeOK', Quiet, AsLoaded, NothingFailed', NothingFailed, Run
  PROVE  AsLoaded'
  <1>0. TypeOK
    BY DEF IInv
  <1>1. CASE step' = "idle"
    BY <1>1 DEF AsLoaded
  <1>2. CASE reload_state
    <2>1. /\ view'.ids = alive /\ view'.agent = agent
          /\ view'.draining = {n \in alive : drain[n] = "draining"}
      BY <1>2 DEF reload_state
    <2>2. UNCHANGED <<alive, agent, drain>> /\ step' = "loaded"
      BY <1>2 DEF reload_state, aws, cluster
    <2>3. \A n \in alive : agent[n] = "up" => drain[n] # "submitted"
      BY <1>2 DEF reload_state, Agents
    <2>4. \A n \in alive : drain[n] \in {"no", "submitted", "draining"}
      BY <1>0 DEF TypeOK
    <2>5. \A n : n \in InService' <=> n \in alive /\ agent[n] = "up" /\ drain[n] = "no"
      BY <2>2 DEF InService
    <2>6. \A n : n \in UpAtReload' <=> n \in alive /\ agent[n] = "up"
      BY <2>1 DEF UpAtReload
    <2>7. QED
      BY <2>1, <2>3, <2>4, <2>5, <2>6 DEF AsLoaded
  <1>3. CASE terminate_expired_orphan_instances
    <2>1. PICK expired \in SUBSET get_expired_orphan_instances : Gone(expired)
      BY <1>3 DEF terminate_expired_orphan_instances
    <2>2. /\ UNCHANGED view /\ step = "loaded" /\ step' = "recycled"
      BY <1>3 DEF terminate_expired_orphan_instances, loaded
    <2>3. \A n \in expired : n \notin UpAtReload
      BY <2>1 DEF get_expired_orphan_instances, UpAtReload
    <2>4. \A n \in expired : n \notin InService
      BY <2>2, <2>3 DEF AsLoaded
    <2>5. \A n : n \in InService' <=> n \in InService
      BY <1>0, <2>1, <2>4 DEF Gone, InService, TypeOK
    <2>6. Sent' = Sent
      BY <2>2 DEF Sent
    <2>7. QED
      BY <2>2, <2>5, <2>6, ServiceSame
  <1>4. CASE /\ step' # "idle"
             /\ \/ \E requested \in Requests : modify_target_capacity(requested)
                \/ \E g \in Groups : ModifyGroup(g)
                \/ StartPruning
                \/ \E n \in Nodes : Skip(n) \/ Mark(n)
                \/ EnoughMarked
    <2>1. UNCHANGED <<alive, agent, drain, view>>
      BY <1>4 DEF modify_target_capacity, ModifyGroup, Return, StartPruning, Skip, Mark, Considered,
         EnoughMarked, aws, cluster, loaded
    <2>2. step # "idle" /\ step # "submit" /\ (step' = "submit" => unsent' = marked')
      <3>1. CASE \E requested \in Requests : modify_target_capacity(requested)
        BY <3>1 DEF modify_target_capacity, Ready
      <3>2. CASE \E g \in Groups : ModifyGroup(g)
        BY <3>2 DEF ModifyGroup, Return
      <3>3. CASE StartPruning
        BY <3>3 DEF StartPruning
      <3>4. CASE \E n \in Nodes : Skip(n) \/ Mark(n)
        BY <3>4 DEF Skip, Mark, Considered
      <3>5. CASE EnoughMarked
        BY <3>5 DEF EnoughMarked
      <3>6. QED
        BY <1>4, <3>1, <3>2, <3>3, <3>4, <3>5
    <2>3. Sent' = {} /\ Sent = {}
      BY <2>2 DEF Sent
    <2>4. InService' = InService
      BY <2>1 DEF InService
    <2>5. QED
      BY <2>1, <2>2, <2>3, <2>4, ServiceSame
  <1>5. ASSUME NEW n \in Nodes, submit_for_draining(n)
        PROVE  AsLoaded'
    <2>1. /\ UNCHANGED <<alive, agent, view, marked, step>> /\ step = "submit"
          /\ unsent' = unsent \ {n} /\ n \in unsent
          /\ drain' = [drain EXCEPT ![n] = IF n \in alive /\ @ = "no" THEN "submitted" ELSE @]
      BY <1>5 DEF submit_for_draining, aws, loaded
    <2>2. n \in marked
      BY <1>0, <2>1 DEF TypeOK
    <2>3. Sent' = Sent \cup {n}
      BY <2>1, <2>2 DEF Sent
    <2>4. \A o : o # n => (o \in InService' <=> o \in InService)
      BY <1>0, <2>1 DEF InService, TypeOK
    <2>5. n \notin InService'
      BY <1>0, <2>1 DEF InService, TypeOK
    <2>6. UpAtReload' = UpAtReload
      BY <2>1 DEF UpAtReload
    <2>7. QED
      BY <2>1, <2>3, <2>4, <2>5, <2>6 DEF AsLoaded
  <1>6. ASSUME NEW g \in Groups, terminate_instances_by_id(g)
        PROVE  AsLoaded'
    <2> DEFINE G == InGroup(unsent, g)
    <2>1. /\ UNCHANGED <<view, marked, step>> /\ step = "submit"
          /\ unsent' = unsent \ G /\ Gone(G)
      BY <1>6 DEF terminate_instances_by_id, loaded
    <2>2. \A n \in G : n \in marked
      BY <1>0 DEF TypeOK, InGroup
    <2> HIDE DEF G
    <2>3. \A n \in G : n \in Sent'
      BY <2>1, <2>2 DEF Sent
    <2>4. \A n \in Sent : n \in Sent'
      BY <2>1 DEF Sent
    <2>5. \A n : n \notin G => (n \in InService' <=> n \in InService)
      BY <1>0, <2>1 DEF Gone, InService, TypeOK
    <2>6. \A n \in G : n \notin InService'
      BY <2>1 DEF Gone, InService
    <2>7. UpAtReload' = UpAtReload
      BY <2>1 DEF UpAtReload
    <2>8. QED
      BY <2>1, <2>3, <2>4, <2>5, <2>6, <2>7 DEF AsLoaded
  <1>7. CASE AllStale \/ NothingToPrune \/ EndRun
    BY <1>1, <1>7 DEF AllStale, NothingToPrune, EndRun, Return
  <1>8. QED
    BY <1>1, <1>2, <1>3, <1>4, <1>5, <1>6, <1>7 DEF Run

\* The sort key puts a node that is draining before one that is not.
LEMMA DrainingSortsFirst ==
  ASSUME NEW d, NEW n, d \in view.draining, n \notin view.draining
  PROVE  MoreKillable(d, n)
  <1>1. _sort_key(d)[1] = 0 /\ _sort_key(n)[1] = 1 /\ 1 \in DOMAIN _sort_key(d)
    BY DEF _sort_key
  <1>2. \A j \in 1..(1 - 1) : _sort_key(d)[j] = _sort_key(n)[j]
    OBVIOUS
  <1>3. QED
    BY <1>1, <1>2 DEF MoreKillable

\* No node is marked while one that is draining waits to be considered, unless
\* it is draining, too.
LEMMA OrderKept ==
  ASSUME IInv, DrainingFirst, [Next]_vars
  PROVE  DrainingFirst'
  <1>1. CASE ~Pruning'
    BY <1>1 DEF DrainingFirst
  <1>2. CASE Pruning /\ UNCHANGED <<view, marked, killable>>
    BY <1>2 DEF DrainingFirst
  <1>3. CASE StartPruning
    <2>1. marked' = {}
      BY <1>3 DEF StartPruning, IInv, NothingMarked, Pruning
    <2>2. QED
      BY <2>1 DEF DrainingFirst
  <1>4. ASSUME NEW n \in Nodes, Skip(n) \/ Mark(n)
        PROVE  DrainingFirst'
    <2>1. /\ step = "prune" /\ UNCHANGED view /\ killable' = killable \ {n}
          /\ \A o \in killable : ~MoreKillable(o, n)
          /\ marked' \subseteq marked \cup {n}
      BY <1>4 DEF Skip, Mark, Considered, loaded
    <2>2. \A d \in killable : d \in view.draining => n \in view.draining
      BY <2>1, DrainingSortsFirst
    <2>3. QED
      BY <2>1, <2>2 DEF DrainingFirst, Pruning
  <1>5. Pruning' => \/ Pruning /\ UNCHANGED <<view, marked, killable>>
                    \/ StartPruning
                    \/ \E n \in Nodes : Skip(n) \/ Mark(n)
    <2>1. CASE Environment \/ UNCHANGED vars
      <3>1. UNCHANGED <<step, view, marked, killable>>
        BY <2>1 DEF Environment, InstanceLaunched, AgentJoins, TasksChange, InstanceLost, DrainerTaints,
           DrainerTerminates, DrainerGivesUp, FleetsCancelled, run, loaded, pruning, vars
      <3>2. QED
        BY <3>1 DEF Pruning
    <2>2. CASE \/ reload_state \/ terminate_expired_orphan_instances \/ AllStale
               \/ NothingToPrune \/ EndRun
               \/ \E requested \in Requests : modify_target_capacity(requested)
               \/ \E g \in Groups : ModifyGroup(g)
      BY <2>2 DEF reload_state, terminate_expired_orphan_instances, AllStale, NothingToPrune, EndRun,
         Return, modify_target_capacity, ModifyGroup, Pruning
    <2>3. CASE \/ EnoughMarked
               \/ \E n \in Nodes : submit_for_draining(n)
               \/ \E g \in Groups : terminate_instances_by_id(g)
      BY <2>3 DEF EnoughMarked, submit_for_draining, terminate_instances_by_id, loaded, Pruning
    <2>4. QED
      BY <2>1, <2>2, <2>3 DEF Next, Run
  <1>6. QED
    BY <1>1, <1>2, <1>3, <1>4, <1>5

\* A node that a run takes out of service is marked and was not draining; so
\* all that were draining are marked, and the rest that is up is in service.
LEMMA ServiceStaysAtTarget ==
  ASSUME IInv, AsLoaded, DrainingFirst, AsLoaded', TypeOK', Quiet,
         [Next]_vars, step = "submit", NothingFailed',
         view.draining \subseteq marked \cup killable,
         NEW n \in InService, n \notin InService'
  PROVE  Capacity(InService') >= new_target_capacity
  <1>0. TypeOK /\ NothingFailed /\ UNCHANGED faults
    BY FailedForGood DEF IInv
  <1>1. n \in UpAtReload /\ n \notin view.draining /\ n \in view.ids /\ view.agent[n] = "up"
    BY <1>0 DEF AsLoaded, UpAtReload
  <1>2. /\ UNCHANGED <<view, marked, step>>
        /\ n \in marked
    <2>1. CASE Environment
      <3>1. ~Fault
        BY <1>0, ConstantsAssumption DEF TypeOK, Fault
      <3>2. \/ \E o \in Nodes : InstanceLaunched(o)
            \/ \E o \in Nodes : \E k \in 0..MaxTasks : TasksChange(o, k)
        BY <2>1, <3>1 DEF Environment, AgentJoins, InstanceLost, DrainerTaints, DrainerTerminates,
           DrainerGivesUp, FleetsCancelled
      <3>3. InService' = InService
        BY <1>0, <3>2 DEF InstanceLaunched, TasksChange, InService, TypeOK, aws
      <3>4. QED
        BY <3>3
    <2>2. ASSUME NEW o \in Nodes, submit_for_draining(o)
          PROVE  UNCHANGED <<view, marked, step>> /\ n \in marked
      <3>1. /\ UNCHANGED <<alive, agent, view, marked, step>> /\ o \in unsent
            /\ drain' = [drain EXCEPT ![o] = IF o \in alive /\ @ = "no" THEN "submitted" ELSE @]
        BY <2>2 DEF submit_for_draining, aws, loaded
      <3>2. n = o
        BY <1>0, <3>1 DEF InService, TypeOK
      <3>3. QED
        BY <1>0, <3>1, <3>2 DEF TypeOK
    <2>3. ASSUME NEW g \in Groups, terminate_instances_by_id(g)
          PROVE  UNCHANGED <<view, marked, step>> /\ n \in marked
      <3>1. UNCHANGED <<view, marked, step>> /\ Gone(InGroup(unsent, g))
        BY <2>3 DEF terminate_instances_by_id, loaded
      <3>2. n \in InGroup(unsent, g)
        BY <1>0, <3>1 DEF Gone, InService, TypeOK
      <3>3. QED
        BY <1>0, <3>1, <3>2 DEF InGroup, TypeOK
    <2>4. CASE EndRun \/ UNCHANGED vars
      BY <2>4 DEF EndRun, vars, aws, cluster, InService
    <2>5. QED
      BY <2>1, <2>2, <2>3, <2>4
      DEF Next, Run, reload_state, terminate_expired_orphan_instances, AllStale, Ready,
          modify_target_capacity, ModifyGroup, StartPruning, NothingToPrune, Skip, Mark, Considered,
          EnoughMarked
  <1>3. \A d \in view.draining : d \in marked
    BY <1>1, <1>2 DEF DrainingFirst, Pruning
  <1>4. UpAtReload' = UpAtReload /\ \A o \in Sent' : o \in marked
    BY <1>2 DEF UpAtReload, Sent
  <1>5. LeftUp \subseteq InService'
    <2>1. \A o \in LeftUp : o \in UpAtReload /\ o \notin marked
      BY DEF LeftUp, Left, UpAtReload
    <2>2. step' # "idle"
      BY <1>2
    <2>3. QED
      BY <1>2, <1>3, <1>4, <2>1, <2>2 DEF AsLoaded
  <1>6. Capacity(LeftUp) >= new_target_capacity
    BY <1>1, <1>2 DEF IInv, Tally, Limits, Pruning
  <1>7. InService' \in SUBSET Nodes /\ new_target_capacity \in Nat
    BY <1>0 DEF TypeOK, InService
  <1> DEFINE I == InService'
             L == LeftUp
  <1>8. I \in SUBSET Nodes /\ L \in SUBSET I /\ Capacity(L) >= new_target_capacity
    BY <1>5, <1>6, <1>7
  <1> HIDE DEF I, L
  <1>9. /\ IsFiniteSet(I) /\ \A o \in I : Weight[o] \in Nat
    BY <1>8, CapacityType, ConstantsAssumption
  <1>10. SumOf(Weight, L) \in Nat /\ SumOf(Weight, I) \in Nat /\ SumOf(Weight, L) <= SumOf(Weight, I)
    BY <1>8, <1>9, SumMonotone
  <1>11. Capacity(I) >= new_target_capacity
    BY <1>7, <1>8, <1>10, CapacityIsSum
  <1>12. QED
    BY <1>11 DEF I

\* Over many runs of a quiet pool in which nothing fails, no run takes a node
\* out of service if what stays in service falls below its target, although
\* the nodes that earlier runs gave to the drainer are counted in every
\* capacity: _sort_key has them chosen again before any other.
THEOREM ServiceIsKeptAtTarget ==
  ASSUME Quiet
  PROVE  Spec => ServiceKeepsTarget
  <1>1. Init => IInv /\ AsLoaded /\ DrainingFirst
    <2>1. Init => AsLoaded /\ DrainingFirst
      BY DEF Init, AsLoaded, DrainingFirst, Pruning
    <2>2. QED
      BY <2>1, InitInvariant
  <1>2. IInv /\ AsLoaded /\ DrainingFirst /\ [Next]_vars => (IInv /\ AsLoaded /\ DrainingFirst)'
    <2> SUFFICES ASSUME IInv, AsLoaded, DrainingFirst, [Next]_vars
                 PROVE  IInv' /\ AsLoaded' /\ DrainingFirst'
      OBVIOUS
    <2>1. IInv' /\ DrainingFirst'
      BY NextInvariant, OrderKept
    <2>2. AsLoaded'
      <3>1. CASE ~NothingFailed'
        BY <3>1 DEF AsLoaded
      <3>2. CASE NothingFailed'
        <4>1. TypeOK /\ TypeOK' /\ NothingFailed /\ UNCHANGED faults
          BY <2>1, <3>2, FailedForGood DEF IInv
        <4>2. CASE UNCHANGED vars
          <5>1. UNCHANGED <<step, view, marked, unsent, alive, agent, drain>>
            BY <4>2 DEF vars, aws, cluster, loaded, pruning
          <5>2. InService' = InService /\ Sent' = Sent
            BY <5>1 DEF InService, Sent
          <5>3. QED
            BY <4>1, <5>1, <5>2, ServiceSame DEF AsLoaded
        <4>3. QED
          BY <3>2, <4>1, <4>2, EnvironmentService, RunService DEF Next
      <3>3. QED
        BY <3>1, <3>2
    <2>3. QED
      BY <2>1, <2>2
  <1>3. ASSUME IInv, AsLoaded, DrainingFirst, IInv', AsLoaded', [Next]_vars
        PROVE  [/\ step = "submit" /\ faults' = MaxFaults
                /\ view.draining \subseteq marked \cup killable
                /\ InService \ InService' # {}
                => Capacity(InService') >= new_target_capacity]_vars
    <2>1. SUFFICES ASSUME step = "submit", faults' = MaxFaults,
                          view.draining \subseteq marked \cup killable,
                          InService \ InService' # {}
                   PROVE  Capacity(InService') >= new_target_capacity
      OBVIOUS
    <2>2. PICK n \in InService : n \notin InService'
      BY <2>1
    <2>3. NothingFailed' /\ TypeOK'
      BY <1>3, <2>1 DEF NothingFailed, IInv
    <2>4. QED
      BY <1>3, <2>1, <2>2, <2>3, ServiceStaysAtTarget
  <1>4. QED
    BY <1>1, <1>2, <1>3, PTL DEF Spec, ServiceKeepsTarget
=============================================================================
