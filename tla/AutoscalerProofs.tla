--------------------------- MODULE AutoscalerProofs ---------------------------
(***************************************************************************)
(* Proofs about the control loop of the autoscaler, for any number of      *)
(* nodes, pods and resources, any request of a signal and any limits.      *)
(***************************************************************************)
EXTENDS Autoscaler, SumTheorems

-----------------------------------------------------------------------------
(* The arithmetic of a run.                                                 *)

\* Where _constrain_target_capacity leads: within the limits, no lower than
\* asked for unless a limit on growth is reached, and not a whole unit higher
\* unless one on shrinking is.
LEMMA Constrained ==
  ASSUME NEW p \in Nat, NEW q \in Nat \ {0}, target \in min_capacity..max_capacity
  PROVE  LET aim == _constrain_target_capacity(<<p, q>>)
         IN  /\ aim \in min_capacity..max_capacity
             /\ aim >= max_capacity \/ aim >= target + max_weight_to_add \/ p <= aim * q
             /\ aim <= min_capacity \/ aim <= target - max_weight_to_remove \/ (aim - 1) * q < p
             /\ p = target * q => aim = target
  <1> DEFINE delta == p - target * q
             limited == CASE delta > 0 -> Least((max_capacity - target) * q, delta)
                          [] delta < 0 -> Greatest((min_capacity - target) * q, delta)
                          [] OTHER -> 0
             slowed == IF limited > 0 THEN Least(max_weight_to_add * q, limited)
                       ELSE Greatest(-max_weight_to_remove * q, limited)
             c == (slowed + q - 1) \div q
             aim == _constrain_target_capacity(<<p, q>>)
             grow == max_capacity - target
             shrink == target - min_capacity
  <1>0. /\ min_capacity \in Nat /\ max_capacity \in Nat /\ target \in Int
        /\ min_capacity <= target /\ target <= max_capacity
        /\ max_weight_to_add \in Nat /\ max_weight_to_remove \in Nat
        /\ target * q \in Int /\ delta \in Int
    BY ConstantsAssumption
  <1>1. aim = target + c
    BY DEF _constrain_target_capacity
  <1>2. /\ grow \in Nat /\ shrink \in Nat /\ grow * q \in Nat /\ shrink * q \in Nat
        /\ max_weight_to_add * q \in Nat /\ max_weight_to_remove * q \in Nat
        /\ (max_capacity - target) * q = grow * q /\ (min_capacity - target) * q = -(shrink * q)
    BY <1>0
  <1>3. /\ slowed \in Int
        /\ -(shrink * q) <= slowed /\ slowed <= grow * q
        /\ slowed >= delta \/ slowed >= grow * q \/ slowed >= max_weight_to_add * q
        /\ slowed <= delta \/ slowed <= -(shrink * q) \/ slowed <= -(max_weight_to_remove * q)
        /\ delta = 0 => slowed = 0
    <2> HIDE DEF delta, grow, shrink
    <2>1. CASE delta > 0
      <3>1. limited = Least(grow * q, delta)
        BY <1>0, <1>2, <2>1
      <3>2. limited \in Int /\ limited >= 0 /\ limited <= grow * q /\ (limited = delta \/ limited = grow * q) /\ limited <= delta
        BY <1>0, <1>2, <2>1, <3>1 DEF Least
      <3> HIDE DEF limited
      <3>3. slowed = IF limited > 0 THEN Least(max_weight_to_add * q, limited) ELSE 0
        BY <1>2, <3>2 DEF Greatest
      <3> HIDE DEF slowed
      <3>4. CASE limited > 0
        BY <1>0, <1>2, <2>1, <3>2, <3>3, <3>4 DEF Least
      <3>5. CASE limited = 0
        BY <1>0, <1>2, <2>1, <3>2, <3>3, <3>5
      <3>6. QED
        BY <3>2, <3>4, <3>5
    <2>2. CASE delta < 0
      <3>1. limited = Greatest(-(shrink * q), delta)
        BY <1>2, <2>2
      <3>2. limited \in Int /\ limited <= 0 /\ limited >= -(shrink * q) /\ (limited = delta \/ limited = -(shrink * q)) /\ limited >= delta
        BY <1>0, <1>2, <2>2, <3>1 DEF Greatest
      <3> HIDE DEF limited
      <3>3. slowed = Greatest(-(max_weight_to_remove * q), limited)
        BY <1>0, <1>2, <3>2
      <3> HIDE DEF slowed
      <3>4. QED
        BY <1>0, <1>2, <2>2, <3>2, <3>3 DEF Greatest
    <2>3. CASE delta = 0
      <3>1. limited = 0
        BY <2>3
      <3> HIDE DEF limited
      <3>2. slowed = 0
        BY <1>0, <1>2, <3>1 DEF Greatest
      <3> HIDE DEF slowed
      <3>3. QED
        BY <1>0, <1>2, <2>3, <3>2
    <2>4. QED
      BY <1>0, <2>1, <2>2, <2>3
  <1> HIDE DEF slowed, limited
  <1>4. c \in Int /\ slowed <= c * q /\ c * q < slowed + q
    BY <1>3, RoundedUp
  <1>5. c <= grow /\ c >= -shrink
    <2>1. -shrink \in Int /\ (-shrink) * q = -(shrink * q)
      BY <1>2
    <2> HIDE DEF grow, shrink
    <2>2. QED
      BY <1>2, <1>3, <2>1, RoundedUpOrder
  <1>6. c >= grow \/ c >= max_weight_to_add \/ delta <= c * q
    <2> HIDE DEF grow, shrink, delta
    <2>1. CASE slowed >= delta
      <3>1. c * q \in Int
        BY <1>4
      <3>2. QED
        BY <1>0, <1>3, <1>4, <2>1, <3>1
    <2>2. CASE slowed >= grow * q
      BY <1>2, <1>3, <2>2, RoundedUpOrder
    <2>3. CASE slowed >= max_weight_to_add * q
      BY <1>0, <1>3, <2>3, RoundedUpOrder
    <2>4. QED
      BY <1>3, <2>1, <2>2, <2>3
  <1>7. c <= -shrink \/ c <= -max_weight_to_remove \/ c * q < delta + q
    <2>1. /\ -shrink \in Int /\ (-shrink) * q = -(shrink * q)
          /\ -max_weight_to_remove \in Int /\ (-max_weight_to_remove) * q = -(max_weight_to_remove * q)
      BY <1>0, <1>2
    <2> HIDE DEF grow, shrink, delta
    <2>2. CASE slowed <= delta
      <3>1. c * q \in Int
        BY <1>4
      <3>2. QED
        BY <1>0, <1>3, <1>4, <2>2, <3>1
    <2>3. CASE slowed <= -(shrink * q)
      BY <1>2, <1>3, <2>1, <2>3, RoundedUpOrder
    <2>4. CASE slowed <= -(max_weight_to_remove * q)
      BY <1>0, <1>3, <2>1, <2>4, RoundedUpOrder
    <2>5. QED
      BY <1>3, <2>2, <2>3, <2>4
  <1>8. p = target * q => c = 0
    <2>1. SUFFICES ASSUME p = target * q PROVE c = 0
      OBVIOUS
    <2>2. slowed = 0 /\ 0 * q = 0
      BY <1>0, <1>3, <2>1
    <2>3. QED
      BY <1>3, <1>4, <2>2, RoundedUpOrder
  <1> HIDE DEF c
  <1>9. (target + c) * q = target * q + c * q /\ (target + c - 1) * q = target * q + c * q - q /\ c * q \in Int
    BY <1>0, <1>4
  <1> HIDE DEF aim
  <1>10. aim \in min_capacity..max_capacity
    BY <1>0, <1>1, <1>4, <1>5
  <1>11. aim >= max_capacity \/ aim >= target + max_weight_to_add \/ p <= aim * q
    BY <1>0, <1>1, <1>4, <1>6, <1>9
  <1>12. aim <= min_capacity \/ aim <= target - max_weight_to_remove \/ (aim - 1) * q < p
    BY <1>0, <1>1, <1>4, <1>7, <1>9
  <1>13. p = target * q => aim = target
    BY <1>0, <1>1, <1>8
  <1>14. QED
    BY <1>10, <1>11, <1>12, <1>13 DEF aim

-----------------------------------------------------------------------------
(* The most constrained resource.                                           *)

\* Among finitely many fractions there is a largest.
LEMMA LargestIsLargest ==
  ASSUME NEW S \in SUBSET (Nat \X (Nat \ {0})), IsFiniteSet(S), S # {}
  PROVE  Largest(S) \in S /\ \A y \in S : y[1] * Largest(S)[2] <= Largest(S)[1] * y[2]
  <1> DEFINE Above(x) == {y \in S : Greater(y, x)}
             B == {Above(x) : x \in S}
  <1>1. \A x \in S : x[1] \in Nat /\ x[2] \in Nat \ {0}
    OBVIOUS
  <1>2. \A u \in B : IsFiniteSet(u)
    <2>1. \A u \in B : u \in SUBSET S
      OBVIOUS
    <2> HIDE DEF B
    <2>2. QED
      BY <2>1, FS_Subset
  <1>3. PICK u \in B : \A v \in B : ~(Cardinality(v) < Cardinality(u))
    <2>1. B # {}
      OBVIOUS
    <2> HIDE DEF B
    <2>2. QED
      BY <1>2, <2>1, SmallestSet
  <1>4. PICK x \in S : u = Above(x)
    BY <1>3
  <1>5. \A y \in S : ~Greater(y, x)
    <2>1. SUFFICES ASSUME NEW y \in S, Greater(y, x) PROVE FALSE
      OBVIOUS
    <2>2. ASSUME NEW z \in S, Greater(z, y) PROVE Greater(z, x)
      <3>1. z[1] * y[2] > y[1] * z[2] /\ y[1] * x[2] > x[1] * y[2]
        BY <2>1, <2>2 DEF Greater
      <3> DEFINE a == z[1] * y[2]
                 b == y[1] * z[2]
                 c == y[1] * x[2]
                 d == x[1] * y[2]
      <3>2. a \in Nat /\ b \in Nat /\ c \in Nat /\ d \in Nat /\ a > b /\ c > d
        BY <1>1, <3>1
      <3>3. /\ z[1] * x[2] \in Nat /\ x[1] * z[2] \in Nat
            /\ a * x[2] = (z[1] * x[2]) * y[2] /\ b * x[2] = c * z[2]
            /\ d * z[2] = (x[1] * z[2]) * y[2]
        BY <1>1
      <3> HIDE DEF a, b, c, d
      <3>4. b * x[2] < a * x[2] /\ d * z[2] < c * z[2]
        BY <1>1, <3>2, Cancel
      <3>5. /\ (x[1] * z[2]) * y[2] \in Int /\ (z[1] * x[2]) * y[2] \in Int /\ c * z[2] \in Int
            /\ (x[1] * z[2]) * y[2] < (z[1] * x[2]) * y[2]
        BY <1>1, <3>2, <3>3, <3>4
      <3>6. x[1] * z[2] < z[1] * x[2]
        BY <1>1, <3>3, <3>5, Cancel
      <3>7. QED
        BY <3>3, <3>6 DEF Greater
    <2>3. y \notin Above(y) /\ y \in Above(x)
      BY <1>1, <2>1 DEF Greater
    <2>4. Above(y) \in SUBSET Above(x) /\ Above(y) # Above(x) /\ Above(y) \in B /\ Above(x) \in B
      BY <2>2, <2>3
    <2> HIDE DEF Above, B
    <2>5. IsFiniteSet(Above(x)) /\ Cardinality(Above(x)) \in Nat /\ Cardinality(Above(y)) \in Nat
      BY <1>2, <2>4, FS_CardinalityType
    <2>6. Cardinality(Above(y)) <= Cardinality(Above(x)) /\ Cardinality(Above(y)) # Cardinality(Above(x))
      BY <2>4, <2>5, FS_Subset
    <2>7. QED
      BY <1>3, <1>4, <2>4, <2>5, <2>6
  <1>6. Largest(S) \in S /\ \A y \in S : ~Greater(y, Largest(S))
    BY <1>4, <1>5 DEF Largest
  <1> DEFINE L == Largest(S)
  <1> HIDE DEF L
  <1>7. L \in S /\ \A y \in S : ~Greater(y, L)
    BY <1>6 DEF L
  <1>8. \A y \in S : y[1] * L[2] \in Nat /\ L[1] * y[2] \in Nat
    BY <1>1, <1>7
  <1>9. \A y \in S : y[1] * L[2] <= L[1] * y[2]
    BY <1>7, <1>8 DEF Greater
  <1>10. QED
    BY <1>7, <1>9 DEF L

-----------------------------------------------------------------------------
(* The target that a request leads to.                                      *)

ResourceRequest == [Resources -> Nat \cup {None}]

\* What computing a target needs to know of the pool.
PoolTypes ==
  /\ node \in [Nodes -> {"off", "booting", "stuck", "up", "lingering"}]
  /\ tasks \in [Nodes -> Nat] /\ pending \in Nat
  /\ target \in min_capacity..max_capacity
  /\ history \in BOOLEAN

\* Some nodes have joined, or none.
LEMMA PoolCounts ==
  ASSUME PoolTypes
  PROVE  /\ Cardinality(Joined) \in Nat /\ Cardinality(Agents) \in Nat
         /\ Joined # {} => Cardinality(Joined) > 0
         /\ \A r \in Resources : get_resource_total(r) \in Nat /\ NodeRes[r] \in Nat
         /\ target \in Nat
  <1>1. IsFiniteSet(Nodes) /\ NodeRes \in [Resources -> Nat] /\ min_capacity \in Nat
    BY ConstantsAssumption
  <1>2. Joined \in SUBSET Nodes /\ Agents \in SUBSET Nodes
    BY DEF Joined, Agents
  <1>3. IsFiniteSet(Joined) /\ IsFiniteSet(Agents)
    BY <1>1, <1>2, FS_Subset
  <1>4. Cardinality(Joined) \in Nat /\ Cardinality(Agents) \in Nat
    BY <1>3, FS_CardinalityType
  <1>5. Joined # {} => Cardinality(Joined) # 0
    BY <1>3, FS_EmptySet
  <1>6. QED
    BY <1>1, <1>4, <1>5, ConstantsAssumption DEF get_resource_total, PoolTypes

\* The default signal asks for numbers.
LEMMA DefaultRequestType ==
  ASSUME PoolTypes
  PROVE  _get_resource_request \in ResourceRequest
  <1>1. IsFiniteSet(Nodes) /\ Need \in [Resources -> Nat]
    BY ConstantsAssumption
  <1>2. Agents \in SUBSET Nodes
    BY DEF Agents
  <1>3. IsFiniteSet(Agents)
    BY <1>1, <1>2, FS_Subset
  <1>4. SumOf(tasks, Agents) \in Nat
    BY <1>2, <1>3, SumNat DEF PoolTypes
  <1>5. Tasks(Agents) = SumOf(tasks, Agents)
    BY DEF Tasks, SumOf
  <1> DEFINE pods == Tasks(Agents) + IF InsufficientResources THEN 2 * pending ELSE 0
  <1>6. pods \in Nat
    BY <1>4, <1>5 DEF PoolTypes
  <1>7. _get_resource_request = [r \in Resources |-> pods * Need[r]]
    BY DEF _get_resource_request
  <1> HIDE DEF pods
  <1>8. \A r \in Resources : pods * Need[r] \in Nat
    BY <1>1, <1>6
  <1>9. QED
    BY <1>7, <1>8 DEF ResourceRequest

\* The value of a resource in a request of an empty pool.
Wanted(request, r) == IF request[r] = None THEN 0 ELSE request[r]

\* An empty pool: by the resource that takes most of the capacity there was.
LEMMA FromHistoryIs ==
  ASSUME PoolTypes, NEW request \in ResourceRequest
  PROVE  \/ /\ \A r \in Resources : ~history \/ NodeRes[r] = 0
            /\ FromHistory(request) = <<1, 1>>
         \/ /\ history
            /\ \E s \in Resources :
                 /\ NodeRes[s] # 0
                 /\ FromHistory(request) = <<Wanted(request, s) * 100, NodeRes[s] * setpoint>>
                 /\ \A r \in Resources : NodeRes[r] # 0 =>
                      Wanted(request, r) * NodeRes[s] <= Wanted(request, s) * NodeRes[r]
  <1> DEFINE known == {r \in Resources : _get_historical_weighted_resource_value(r) # 0}
             pair(r) == <<Wanted(request, r), _get_historical_weighted_resource_value(r)>>
             weighted == {pair(r) : r \in known}
  <1>0. IsFiniteSet(Resources) /\ NodeRes \in [Resources -> Nat]
    BY ConstantsAssumption
  <1>1. CASE known = {}
    <2>1. FromHistory(request) = <<1, 1>>
      BY <1>1 DEF FromHistory
    <2>2. \A r \in Resources : ~history \/ NodeRes[r] = 0
      BY <1>1 DEF _get_historical_weighted_resource_value
    <2>3. QED
      BY <2>1, <2>2
  <1>2. CASE known # {}
    <2>1. FromHistory(request) = <<Largest(weighted)[1] * 100, Largest(weighted)[2] * setpoint>>
      BY <1>2 DEF FromHistory, Wanted
    <2>2. \A r : r \in known <=> r \in Resources /\ history /\ NodeRes[r] # 0
      BY DEF _get_historical_weighted_resource_value
    <2>3. \A r \in known : pair(r) = <<Wanted(request, r), NodeRes[r]>>
      BY <2>2 DEF _get_historical_weighted_resource_value
    <2>4. \A r \in Resources : Wanted(request, r) \in Nat
      BY DEF ResourceRequest, Wanted
    <2>5. IsFiniteSet(known)
      <3>1. known \in SUBSET Resources
        OBVIOUS
      <3> HIDE DEF known
      <3>2. QED
        BY <1>0, <3>1, FS_Subset
    <2> HIDE DEF known, pair
    <2>6. IsFiniteSet(weighted)
      <3> DEFINE f == [r \in known |-> pair(r)]
      <3>1. weighted = {f[r] : r \in known}
        OBVIOUS
      <3>2. IsFiniteSet({f[r] : r \in known})
        <4> HIDE DEF f
        <4> QED BY <2>5, FiniteImage
      <3>3. QED
        BY <3>1, <3>2
    <2>7. weighted # {} /\ weighted \in SUBSET (Nat \X (Nat \ {0}))
      BY <1>0, <1>2, <2>2, <2>3, <2>4
    <2>8. \A r \in known : pair(r) \in weighted
      OBVIOUS
    <2>9. PICK s \in known : Largest(weighted) = pair(s)
      <3>1. Largest(weighted) \in weighted
        <4> HIDE DEF weighted
        <4> QED BY <2>6, <2>7, LargestIsLargest
      <3>2. QED
        BY <3>1
    <2>10. \A y \in weighted : y[1] * Largest(weighted)[2] <= Largest(weighted)[1] * y[2]
      <3> HIDE DEF weighted
      <3> QED BY <2>6, <2>7, LargestIsLargest
    <2> HIDE DEF weighted
    <2>11. /\ Largest(weighted)[1] = Wanted(request, s) /\ Largest(weighted)[2] = NodeRes[s]
           /\ s \in Resources /\ history /\ NodeRes[s] # 0
      BY <2>2, <2>3, <2>9
    <2>12. \A r \in known : Wanted(request, r) * NodeRes[s] <= Wanted(request, s) * NodeRes[r]
      BY <2>3, <2>8, <2>10, <2>11
    <2>13. QED
      BY <2>1, <2>2, <2>11, <2>12
  <1>3. QED
    BY <1>1, <1>2

\* A pool with nodes: by the resource that is used most.  A resource that the
\* pool has nothing of is not asked for.
LEMMA RescaledIs ==
  ASSUME PoolTypes, NEW request \in ResourceRequest, ~Special(request), ~Unanswerable(request)
  PROVE  \E s \in Requested(request), a \in Nat, b \in Nat \ {0} :
           /\ Rescaled(request) = <<Cardinality(Joined) * a * 100, b * setpoint>>
           /\ \/ get_resource_total(s) = 0 /\ a = 0 /\ b = 1
              \/ get_resource_total(s) # 0 /\ a = request[s] /\ b = get_resource_total(s)
           /\ \A r \in Requested(request) : request[r] * b <= a * get_resource_total(r)
  <1> DEFINE usage(r) == usage_pct(request, r)
             usages == {usage(r) : r \in Requested(request)}
  <1>1. Requested(request) # {} /\ \A r \in Requested(request) : get_resource_total(r) = 0 => ~(request[r] > 0)
    BY DEF Unanswerable
  <1>2. \A r \in Requested(request) : request[r] \in Nat /\ r \in Resources
    BY DEF Requested, ResourceRequest
  <1>3. \A r \in Requested(request) : get_resource_total(r) \in Nat
    BY <1>2, PoolCounts
  <1>4. \A r \in Requested(request) : usage(r) = IF get_resource_total(r) = 0 THEN <<0, 1>> ELSE <<request[r], get_resource_total(r)>>
    BY DEF usage_pct
  <1> HIDE DEF usage
  <1>5. usages # {} /\ usages \in SUBSET (Nat \X (Nat \ {0})) /\ \A r \in Requested(request) : usage(r) \in usages
    BY <1>1, <1>2, <1>3, <1>4
  <1>6. IsFiniteSet(usages)
    <2> DEFINE f == [r \in Requested(request) |-> usage(r)]
    <2>1. IsFiniteSet(Requested(request))
      <3>1. Requested(request) \in SUBSET Resources
        BY DEF Requested
      <3>2. QED
        BY <3>1, FS_Subset, ConstantsAssumption
    <2>2. usages = {f[r] : r \in Requested(request)}
      OBVIOUS
    <2>3. IsFiniteSet({f[r] : r \in Requested(request)})
      <3> HIDE DEF f
      <3> QED BY <2>1, FiniteImage
    <2>4. QED
      BY <2>2, <2>3
  <1> DEFINE L == Largest(usages)
  <1>7. L \in usages /\ \A y \in usages : y[1] * L[2] <= L[1] * y[2]
    <2> HIDE DEF usages
    <2> QED BY <1>5, <1>6, LargestIsLargest
  <1>8. Rescaled(request) = <<Cardinality(Joined) * L[1] * 100, L[2] * setpoint>>
    BY DEF Rescaled, _get_most_constrained_resource_for_request, non_orphan_fulfilled_capacity, usage
  <1> HIDE DEF L
  <1>9. PICK s \in Requested(request) : L = usage(s)
    BY <1>7
  <1> HIDE DEF usages
  <1>10. /\ L[1] \in Nat /\ L[2] \in Nat \ {0}
         /\ \/ get_resource_total(s) = 0 /\ L[1] = 0 /\ L[2] = 1
            \/ get_resource_total(s) # 0 /\ L[1] = request[s] /\ L[2] = get_resource_total(s)
    BY <1>2, <1>3, <1>4, <1>9
  <1>11. \A r \in Requested(request) : request[r] * L[2] <= L[1] * get_resource_total(r)
    <2>1. SUFFICES ASSUME NEW r \in Requested(request)
                   PROVE  request[r] * L[2] <= L[1] * get_resource_total(r)
      OBVIOUS
    <2>2. CASE get_resource_total(r) = 0
      <3>1. request[r] = 0
        BY <1>1, <1>2, <2>2
      <3>2. QED
        BY <1>10, <2>2, <3>1
    <2>3. CASE get_resource_total(r) # 0
      BY <1>4, <1>5, <1>7, <2>3
    <2>4. QED
      BY <2>2, <2>3
  <1>12. QED
    BY <1>8, <1>10, <1>11

\* The cases of _compute_target_capacity.
LEMMA ComputedCases ==
  ASSUME NEW request
  PROVE  /\ AllNone(request) => _compute_target_capacity(request) = <<target, 1>>
         /\ AllZero(request) /\ ~AllNone(request) => _compute_target_capacity(request) = <<0, 1>>
         /\ ~AllZero(request) /\ target = 0 => _compute_target_capacity(request) = FromHistory(request)
         /\ ~AllZero(request) /\ target > 0 /\ Special(request) =>
              _compute_target_capacity(request) = <<target, 1>>
         /\ ~Special(request) =>
              _compute_target_capacity(request) = IF BeyondMargin(Rescaled(request)) THEN Rescaled(request) ELSE <<target, 1>>
  <1>1. AllNone(request) => AllZero(request)
    BY DEF AllNone, AllZero
  <1>2. AllZero(request) \/ target = 0 => Special(request)
    BY DEF Special
  <1>3. target = 0 => ~(target > 0)
    OBVIOUS
  <1> DEFINE new == Rescaled(request)
             old == <<target, 1>>
             past == FromHistory(request)
             margin == IF BeyondMargin(new) THEN new ELSE old
  <1>4. _compute_target_capacity(request) =
          CASE AllNone(request) -> old
            [] AllZero(request) /\ ~AllNone(request) -> <<0, 1>>
            [] ~AllZero(request) /\ target = 0 -> past
            [] ~AllZero(request) /\ target > 0 /\ Special(request) -> old
            [] ~Special(request) -> margin
    BY DEF _compute_target_capacity
  <1> HIDE DEF new, old, past, margin
  <1>5. AllNone(request) => _compute_target_capacity(request) = old
    BY <1>1, <1>2, <1>4
  <1>6. AllZero(request) /\ ~AllNone(request) => _compute_target_capacity(request) = <<0, 1>>
    BY <1>1, <1>2, <1>4
  <1>7. ~AllZero(request) /\ target = 0 => _compute_target_capacity(request) = past
    BY <1>1, <1>2, <1>3, <1>4
  <1>8. ~AllZero(request) /\ target > 0 /\ Special(request) => _compute_target_capacity(request) = old
    BY <1>1, <1>2, <1>3, <1>4
  <1>9. ~Special(request) => _compute_target_capacity(request) = margin
    BY <1>1, <1>2, <1>3, <1>4
  <1>10. QED
    BY <1>5, <1>6, <1>7, <1>8, <1>9 DEF new, old, past, margin

\* A request that can be answered has a fraction for an answer.
LEMMA ComputedType ==
  ASSUME PoolTypes, NEW request \in ResourceRequest, ~Unanswerable(request)
  PROVE  \E p \in Nat, q \in Nat \ {0} : _compute_target_capacity(request) = <<p, q>>
  <1>0. target \in Nat /\ setpoint \in Nat \ {0} /\ Cardinality(Joined) \in Nat
    BY PoolCounts, ConstantsAssumption
  <1>1. CASE AllZero(request)
    BY <1>0, <1>1, ComputedCases
  <1>2. CASE ~AllZero(request) /\ target = 0
    <2>1. _compute_target_capacity(request) = FromHistory(request)
      BY <1>2, ComputedCases
    <2>2. CASE FromHistory(request) = <<1, 1>>
      BY <2>1, <2>2
    <2>3. CASE \E s \in Resources : NodeRes[s] # 0
                 /\ FromHistory(request) = <<Wanted(request, s) * 100, NodeRes[s] * setpoint>>
      <3>1. PICK s \in Resources : NodeRes[s] # 0
                 /\ FromHistory(request) = <<Wanted(request, s) * 100, NodeRes[s] * setpoint>>
        BY <2>3
      <3>2. Wanted(request, s) \in Nat /\ NodeRes[s] \in Nat
        BY PoolCounts DEF Wanted, ResourceRequest
      <3>3. Wanted(request, s) * 100 \in Nat /\ NodeRes[s] * setpoint \in Nat \ {0}
        BY <1>0, <3>1, <3>2
      <3>4. QED
        BY <2>1, <3>1, <3>3
    <2>4. QED
      BY <2>2, <2>3, FromHistoryIs
  <1>3. CASE ~AllZero(request) /\ target > 0 /\ Special(request)
    BY <1>0, <1>3, ComputedCases
  <1>4. CASE ~Special(request)
    <2>1. _compute_target_capacity(request) \in {Rescaled(request), <<target, 1>>}
      BY <1>4, ComputedCases
    <2>2. PICK a \in Nat, b \in Nat \ {0} : Rescaled(request) = <<Cardinality(Joined) * a * 100, b * setpoint>>
      BY <1>4, RescaledIs
    <2>3. Cardinality(Joined) * a * 100 \in Nat /\ b * setpoint \in Nat \ {0}
      BY <1>0
    <2>4. QED
      BY <1>0, <2>1, <2>2, <2>3
  <1>5. QED
    BY <1>0, <1>1, <1>2, <1>3, <1>4

\* A usage of v / N, with v / N <= (P / 100) / b and P / b <= K / 100.
LEMMA Covers ==
  ASSUME NEW v \in Nat, NEW b \in Nat \ {0}, NEW P \in Nat, NEW N \in Nat, NEW K \in Nat,
         v * b * 100 <= P * N, P * 100 <= K * b
  PROVE  v * 10000 <= K * N
  <1>1. (v * 10000) * b = (v * b * 100) * 100 /\ v * b * 100 \in Nat
    OBVIOUS
  <1>2. (P * N) * 100 = (P * 100) * N /\ P * N \in Nat
    OBVIOUS
  <1>3. (P * 100) * N <= (K * b) * N
    OBVIOUS
  <1>4. (K * b) * N = (K * N) * b /\ K * b \in Nat
    OBVIOUS
  <1>5. v * 10000 \in Nat /\ K * N \in Nat /\ (v * 10000) * b \in Nat /\ (K * N) * b \in Nat
    OBVIOUS
  <1>6. (v * b * 100) * 100 <= (P * N) * 100
    BY <1>1, <1>2
  <1>7. (v * 10000) * b <= (K * N) * b
    BY <1>1, <1>2, <1>3, <1>4, <1>5, <1>6
  <1>8. QED
    BY <1>5, <1>7, Cancel

\* What is aimed at covers the request.
LEMMA Covered ==
  ASSUME PoolTypes, NEW request \in ResourceRequest, ~Unanswerable(request),
         NEW aim, aim = _constrain_target_capacity(_compute_target_capacity(request)),
         IF target = 0 THEN history ELSE InSync
  PROVE  \/ aim >= max_capacity
         \/ aim >= target + max_weight_to_add
         \/ \A r \in Requested(request) :
              \/ target = 0 /\ NodeRes[r] = 0
              \/ request[r] * 10000 <= aim * NodeRes[r] * setpoint * (100 + target_capacity_margin)
  <1> DEFINE m == target_capacity_margin
             J == Cardinality(Joined)
  <1>0. /\ target \in Nat /\ setpoint \in Nat \ {0} /\ J \in Nat /\ m \in Nat
        /\ max_weight_to_add \in Nat /\ min_capacity \in Nat /\ max_capacity \in Nat
        /\ target \in min_capacity..max_capacity
    BY PoolCounts, ConstantsAssumption DEF PoolTypes
  <1>1. PICK p \in Nat, q \in Nat \ {0} : _compute_target_capacity(request) = <<p, q>>
    BY ComputedType
  <1>2. /\ aim \in min_capacity..max_capacity
        /\ aim >= max_capacity \/ aim >= target + max_weight_to_add \/ p <= aim * q
        /\ p = target * q => aim = target
    BY <1>0, <1>1, Constrained
  <1>3. aim \in Nat
    BY <1>0, <1>2
  <1>4. \A r \in Requested(request) : request[r] \in Nat /\ r \in Resources /\ request[r] # None
                                     /\ NodeRes[r] \in Nat
    BY PoolCounts DEF Requested, ResourceRequest
  <1>5. SUFFICES ASSUME p <= aim * q, NEW r \in Requested(request), ~(target = 0 /\ NodeRes[r] = 0)
                 PROVE  request[r] * 10000 <= aim * NodeRes[r] * setpoint * (100 + m)
    BY <1>2
  <1> DEFINE v == request[r]
             N == NodeRes[r]
             K == aim * setpoint * (100 + m)
  <1>6. v \in Nat /\ N \in Nat /\ K \in Nat
    BY <1>0, <1>3, <1>4
  <1>7. SUFFICES v * 10000 <= K * N
    <2>1. K * N = aim * N * setpoint * (100 + m)
      BY <1>0, <1>3, <1>6
    <2>2. QED
      BY <1>7, <2>1
  \* An answer p / q with q = b * setpoint.
  <1>8. ASSUME NEW b \in Nat \ {0}, q = b * setpoint
        PROVE  p * 100 <= K * b
    <2>1. aim * q = aim * setpoint * b /\ aim * q \in Nat
      BY <1>0, <1>3, <1>8
    <2>2. K * b = (aim * setpoint * b) * (100 + m) /\ aim * setpoint * b \in Nat
      BY <1>0, <1>3
    <2>3. (aim * setpoint * b) * 100 <= (aim * setpoint * b) * (100 + m)
      BY <1>0, <2>2
    <2> HIDE DEF K
    <2>4. QED
      BY <1>5, <1>6, <2>1, <2>2, <2>3
  <1>9. CASE AllZero(request)
    <2>1. v = 0
      BY <1>4, <1>9 DEF AllZero
    <2>2. K * N \in Nat
      BY <1>6
    <2>3. QED
      BY <2>1, <2>2
  <1>10. CASE ~AllZero(request) /\ target = 0
    <2>1. _compute_target_capacity(request) = FromHistory(request) /\ history /\ N # 0
      BY <1>5, <1>10, ComputedCases
    <2>2. PICK s \in Resources :
                 /\ NodeRes[s] # 0
                 /\ FromHistory(request) = <<Wanted(request, s) * 100, NodeRes[s] * setpoint>>
                 /\ \A t \in Resources : NodeRes[t] # 0 =>
                      Wanted(request, t) * NodeRes[s] <= Wanted(request, s) * NodeRes[t]
      BY <1>4, <2>1, FromHistoryIs
    <2> DEFINE a == Wanted(request, s)
               b == NodeRes[s]
    <2>3. a \in Nat /\ b \in Nat \ {0} /\ v * b <= a * N
      <3>1. b \in Nat \ {0}
        BY <2>2, PoolCounts
      <3>2. Wanted(request, r) = v /\ r \in Resources
        BY <1>4 DEF Wanted
      <3>3. QED
        BY <2>1, <2>2, <3>1, <3>2 DEF Wanted, ResourceRequest
    <2>4. p = a * 100 /\ q = b * setpoint
      BY <1>1, <2>1, <2>2
    <2> HIDE DEF a, b, K, v, N
    <2>5. p * 100 <= K * b
      BY <1>8, <2>3, <2>4
    <2>6. v * b * 100 <= p * N
      <3>1. p * N = (a * N) * 100 /\ a * N \in Nat /\ v * b \in Nat
        BY <1>6, <2>3, <2>4
      <3>2. QED
        BY <2>3, <3>1
    <2>7. QED
      BY <1>6, <2>3, <2>5, <2>6, Covers
  <1>11. CASE ~AllZero(request) /\ target > 0
    <2>1. InSync /\ ~Special(request)
      BY <1>0, <1>11, PoolCounts DEF InSync, Special, non_orphan_fulfilled_capacity
    <2>2. PICK s \in Requested(request), a \in Nat, b \in Nat \ {0} :
           /\ Rescaled(request) = <<J * a * 100, b * setpoint>>
           /\ \A t \in Requested(request) : request[t] * b <= a * get_resource_total(t)
      BY <2>1, RescaledIs
    <2> DEFINE P == J * a * 100
               T == target * (b * setpoint)
    <2>3. v * b * 100 <= P * N
      <3>1. get_resource_total(r) = N * J
        BY <2>1 DEF get_resource_total, InSync
      <3>2. v * b <= a * (N * J)
        BY <2>2, <3>1
      <3> HIDE DEF v, N
      <3>3. P * N = (a * (N * J)) * 100 /\ a * (N * J) \in Nat /\ v * b \in Nat
        BY <1>0, <1>6
      <3> HIDE DEF P
      <3>4. QED
        BY <3>2, <3>3
    <2>4. P \in Nat
      BY <1>0
    <2>5. CASE BeyondMargin(Rescaled(request))
      <3>1. p = P /\ q = b * setpoint
        BY <1>1, <2>1, <2>2, <2>5, ComputedCases
      <3> HIDE DEF K, v, N, P
      <3>2. p * 100 <= K * b
        BY <1>8, <3>1
      <3>3. QED
        BY <1>6, <2>3, <2>4, <3>1, <3>2, Covers
    <2>6. CASE ~BeyondMargin(Rescaled(request))
      <3>1. p = target /\ q = 1
        BY <1>1, <2>1, <2>6, ComputedCases
      <3>2. aim = target
        BY <1>0, <1>2, <3>1
      <3>3. T \in Nat /\ m * target * (b * setpoint) = m * T
        BY <1>0
      <3>4. ~((IF P - T < 0 THEN -(P - T) ELSE P - T) * 100 >= m * target * (b * setpoint))
        BY <2>2, <2>6 DEF BeyondMargin
      <3>5. m * T \in Nat
        BY <1>0, <3>3
      <3> HIDE DEF P, T
      <3>6. P * 100 <= m * T + T * 100
        BY <2>4, <3>3, <3>4, <3>5
      <3>7. m * T + T * 100 = K * b
        <4>1. K * b = target * setpoint * (100 + m) * b
          BY <3>2
        <4>2. m * T + T * 100 = target * setpoint * (100 + m) * b
          BY <1>0 DEF T
        <4>3. QED
          BY <4>1, <4>2
      <3> HIDE DEF K, v, N
      <3>8. QED
        BY <1>6, <2>3, <2>4, <3>6, <3>7, Covers
    <2>7. QED
      BY <2>5, <2>6
  <1>12. QED
    BY <1>0, <1>9, <1>10, <1>11

\* What is aimed at is not a unit, or the margin, too much.
LEMMA NotExceeded ==
  ASSUME target_capacity_margin <= 100,
         PoolTypes, NEW request \in ResourceRequest, ~Unanswerable(request), ~AllNone(request),
         NEW aim, aim = _constrain_target_capacity(_compute_target_capacity(request)),
         target = 0 \/ InSync
  PROVE  \/ aim <= min_capacity
         \/ aim <= target - max_weight_to_remove
         \/ target = 0 /\ ~history /\ aim = 1
         \/ \E r \in IF target = 0 THEN Resources ELSE Requested(request) :
              \/ request[r] * 100 > (aim - 1) * NodeRes[r] * setpoint
              \/ /\ aim = target
                 /\ request[r] * 10000 > target * NodeRes[r] * setpoint * (100 - target_capacity_margin)
  <1> DEFINE m == target_capacity_margin
             J == Cardinality(Joined)
  <1>0. /\ target \in Nat /\ setpoint \in Nat \ {0} /\ J \in Nat /\ m \in Nat /\ m <= 100
        /\ max_weight_to_remove \in Nat /\ min_capacity \in Nat /\ max_capacity \in Nat
        /\ target \in min_capacity..max_capacity
    BY PoolCounts, ConstantsAssumption DEF PoolTypes
  <1>1. PICK p \in Nat, q \in Nat \ {0} : _compute_target_capacity(request) = <<p, q>>
    BY ComputedType
  <1>2. /\ aim \in min_capacity..max_capacity
        /\ aim <= min_capacity \/ aim <= target - max_weight_to_remove \/ (aim - 1) * q < p
        /\ p = target * q => aim = target
    BY <1>0, <1>1, Constrained
  <1>3. aim \in Nat
    BY <1>0, <1>2
  <1>4. SUFFICES ASSUME (aim - 1) * q < p, aim > min_capacity
                 PROVE  \/ target = 0 /\ ~history /\ aim = 1
                        \/ \E r \in IF target = 0 THEN Resources ELSE Requested(request) :
                             \/ request[r] * 100 > (aim - 1) * NodeRes[r] * setpoint
                             \/ /\ aim = target
                                /\ request[r] * 10000 > target * NodeRes[r] * setpoint * (100 - m)
    BY <1>0, <1>2, <1>3
  <1>5. aim - 1 \in Nat /\ aim >= 1
    BY <1>0, <1>3, <1>4
  \* Nothing asks for more than nothing.
  <1>6. p > 0
    <2>1. (aim - 1) * q \in Nat
      BY <1>5
    <2>2. QED
      BY <1>4, <2>1
  <1>7. CASE AllZero(request)
    BY <1>1, <1>6, <1>7, ComputedCases
  <1>8. CASE ~AllZero(request) /\ target = 0
    <2>1. _compute_target_capacity(request) = FromHistory(request)
      BY <1>8, ComputedCases
    <2>2. CASE /\ \A r \in Resources : ~history \/ NodeRes[r] = 0
               /\ FromHistory(request) = <<1, 1>>
      <3>1. p = 1 /\ q = 1
        BY <1>1, <2>1, <2>2
      <3>2. aim = 1
        <4>1. aim - 1 < 1
          BY <1>4, <1>5, <3>1
        <4>2. QED
          BY <1>3, <1>5, <4>1
      <3>3. PICK r \in Resources : request[r] \notin {0, None}
        BY <1>8 DEF AllZero
      <3>4. request[r] * 100 > 0
        BY <3>3 DEF ResourceRequest
      <3>5. (aim - 1) * NodeRes[r] * setpoint = 0
        <4>1. NodeRes[r] \in Nat
          BY PoolCounts
        <4>2. QED
          BY <1>0, <3>2, <4>1
      <3>6. QED
        BY <1>8, <3>4, <3>5
    <2>3. CASE \E s \in Resources :
                 /\ NodeRes[s] # 0
                 /\ FromHistory(request) = <<Wanted(request, s) * 100, NodeRes[s] * setpoint>>
      <3>1. PICK s \in Resources :
                 /\ NodeRes[s] # 0
                 /\ FromHistory(request) = <<Wanted(request, s) * 100, NodeRes[s] * setpoint>>
        BY <2>3
      <3>2. p = Wanted(request, s) * 100 /\ q = NodeRes[s] * setpoint
        BY <1>1, <2>1, <3>1
      <3>3. Wanted(request, s) = request[s]
        BY <1>6, <3>2 DEF Wanted
      <3>4. NodeRes[s] \in Nat
        BY PoolCounts
      <3>5. (aim - 1) * q = (aim - 1) * NodeRes[s] * setpoint
        BY <1>0, <1>5, <3>2, <3>4
      <3>6. request[s] * 100 > (aim - 1) * NodeRes[s] * setpoint
        BY <1>4, <3>2, <3>3, <3>5
      <3>7. QED
        BY <1>8, <3>6
    <2>4. QED
      BY <2>2, <2>3, FromHistoryIs
  <1>9. CASE ~AllZero(request) /\ target > 0
    <2>1. InSync /\ ~Special(request) /\ J > 0
      BY <1>0, <1>9, PoolCounts DEF InSync, Special, non_orphan_fulfilled_capacity
    <2>2. PICK s \in Requested(request), a \in Nat, b \in Nat \ {0} :
           /\ Rescaled(request) = <<J * a * 100, b * setpoint>>
           /\ \/ get_resource_total(s) = 0 /\ a = 0 /\ b = 1
              \/ get_resource_total(s) # 0 /\ a = request[s] /\ b = get_resource_total(s)
      BY <2>1, RescaledIs
    <2> DEFINE P == J * a * 100
               Q == b * setpoint
               T == target * Q
               N == NodeRes[s]
    <2>3. P \in Nat /\ Q \in Nat \ {0} /\ T \in Nat /\ T > 0
      BY <1>0, <1>9
    <2>4. N \in Nat /\ get_resource_total(s) = N * J
      <3>1. s \in Resources
        BY DEF Requested
      <3>2. QED
        BY <2>1, <3>1, PoolCounts DEF get_resource_total, InSync
    <2>5. CASE BeyondMargin(Rescaled(request))
      <3>1. p = P /\ q = Q
        BY <1>1, <2>1, <2>2, <2>5, ComputedCases
      <3>2. a # 0
        BY <1>0, <1>6, <3>1
      <3>3. a = request[s] /\ b = N * J
        BY <2>2, <2>4, <3>2
      <3>4. ((aim - 1) * N * setpoint) * J < (a * 100) * J
        <4>1. (aim - 1) * q = ((aim - 1) * N * setpoint) * J
          BY <1>0, <1>5, <2>4, <3>1, <3>3
        <4>2. p = (a * 100) * J
          BY <1>0, <3>1
        <4>3. QED
          BY <1>4, <4>1, <4>2
      <3>5. (aim - 1) * N * setpoint < a * 100
        <4>1. (aim - 1) * N * setpoint \in Int /\ a * 100 \in Int /\ J \in Nat \ {0}
          BY <1>0, <1>5, <2>1, <2>4
        <4> HIDE DEF J
        <4>2. QED
          BY <3>4, <4>1, Cancel
      <3>6. request[s] * 100 > (aim - 1) * NodeRes[s] * setpoint
        BY <3>3, <3>5
      <3>7. QED
        BY <1>9, <3>6
    <2>6. CASE ~BeyondMargin(Rescaled(request))
      <3>1. p = target /\ q = 1
        BY <1>1, <2>1, <2>6, ComputedCases
      <3>2. aim = target
        BY <1>0, <1>2, <3>1
      <3>3. m * target * Q = m * T
        BY <1>0, <2>3
      <3>4. ~((IF P - T < 0 THEN -(P - T) ELSE P - T) * 100 >= m * target * Q)
        BY <2>2, <2>6 DEF BeyondMargin
      <3>5. m * T \in Nat /\ m * T <= 100 * T
        BY <1>0, <2>3
      <3>6. T * 100 - m * T < P * 100
        <4> HIDE DEF P, T, Q, m
        <4> QED BY <2>3, <3>3, <3>4, <3>5
      <3>7. P # 0
        <4> HIDE DEF P, T, Q, m
        <4> QED BY <2>3, <3>5, <3>6
      <3>8. a = request[s] /\ b = N * J
        <4>1. a # 0
          BY <1>0, <3>7
        <4>2. QED
          BY <2>2, <2>4, <4>1
      <3>9. (target * N * setpoint * (100 - m)) * J < (a * 10000) * J
        <4>1. T * 100 - m * T = (target * N * setpoint * (100 - m)) * J
          <5>1. T = target * N * setpoint * J
            BY <1>0, <2>4, <3>8
          <5>2. T * 100 - m * T = T * (100 - m)
            BY <1>0, <2>3
          <5> HIDE DEF T
          <5>3. (target * N * setpoint * J) * (100 - m) = (target * N * setpoint * (100 - m)) * J
            BY <1>0, <2>4
          <5>4. QED
            BY <5>1, <5>2, <5>3
        <4>2. P * 100 = (a * 10000) * J
          BY <1>0
        <4> HIDE DEF P, T
        <4>3. QED
          BY <3>6, <4>1, <4>2
      <3>10. target * N * setpoint * (100 - m) < a * 10000
        <4>1. target * N * setpoint * (100 - m) \in Int /\ a * 10000 \in Int /\ J \in Nat \ {0}
          BY <1>0, <2>1, <2>4
        <4> HIDE DEF J
        <4>2. QED
          BY <3>9, <4>1, Cancel
      <3>11. request[s] * 10000 > target * NodeRes[s] * setpoint * (100 - m)
        BY <3>8, <3>10
      <3>12. QED
        BY <1>9, <3>2, <3>11
    <2>7. QED
      BY <2>5, <2>6
  <1>10. QED
    BY <1>0, <1>7, <1>8, <1>9

-----------------------------------------------------------------------------
(* The invariant.                                                           *)

\* There are never more than MaxPods pods, so that no node has more.
Pods == pending + SumOf(tasks, Nodes) <= MaxPods

\* A run that has computed a target keeps to the limits.
Aim == step \in {"computed", "recycled"} => new_target_capacity \in min_capacity..max_capacity

\* A run that began before the pause has either not ended, or it was the one.
Pause ==
  /\ late \in {0, 1}
  /\ item # "active" => late = 0
  /\ late = 1 => step = "idle"

IInv == TypeOK /\ Pods /\ Aim /\ Pause

\* The pool is as computing a target needs it.
LEMMA PoolIsTyped == TypeOK => PoolTypes
  <1>1. \A k \in 0..MaxPods : k \in Nat
    BY ConstantsAssumption
  <1>2. QED
    BY <1>1 DEF TypeOK, PoolTypes

\* The invariant holds in an empty pool.
LEMMA InitInv == Init => IInv
  <1> SUFFICES ASSUME Init PROVE IInv
    OBVIOUS
  <1>1. TypeOK
    BY ConstantsAssumption DEF Init, TypeOK, NoView
  <1>2. Pods
    <2>1. SumOf(tasks, Nodes) = 0
      BY SumZero, ConstantsAssumption DEF Init
    <2>2. pending \in Nat /\ pending <= MaxPods
      BY ConstantsAssumption DEF Init
    <2>3. QED
      BY <2>1, <2>2 DEF Pods
  <1>3. Aim /\ Pause
    BY DEF Init, Aim, Pause
  <1>4. QED
    BY <1>1, <1>2, <1>3 DEF IInv

\* A change of the pods of one node keeps within MaxPods.
LEMMA PodsStep ==
  ASSUME TypeOK, Pods, NEW n \in Nodes, NEW k \in Nat, NEW j \in Nat,
         tasks' = [tasks EXCEPT ![n] = k], pending' = j, j + k <= pending + tasks[n]
  PROVE  Pods' /\ tasks' \in [Nodes -> 0..MaxPods] /\ pending' \in 0..MaxPods
  <1>0. /\ MaxPods \in Nat /\ IsFiniteSet(Nodes) /\ pending \in Nat
        /\ \A x \in Nodes : tasks[x] \in Nat /\ tasks'[x] \in Nat
        /\ \A x \in Nodes \ {n} : tasks[x] = tasks'[x]
        /\ tasks'[n] = k /\ DOMAIN tasks' = Nodes /\ tasks' = [x \in Nodes |-> tasks'[x]]
    <2>1. MaxPods \in Nat /\ IsFiniteSet(Nodes) /\ tasks \in [Nodes -> 0..MaxPods] /\ pending \in 0..MaxPods
      BY ConstantsAssumption DEF TypeOK
    <2>2. \A i \in 0..MaxPods : i \in Nat
      BY <2>1
    <2>3. tasks' \in [Nodes -> Nat] /\ tasks \in [Nodes -> Nat] /\ pending \in Nat
      BY <2>1, <2>2
    <2>4. QED
      BY <2>1, <2>3
  <1>1. SumOf(tasks', Nodes) = SumOf(tasks, Nodes) + (k - tasks[n])
    <2>1. SumOf(tasks', Nodes) = SumOf(tasks, Nodes) + (tasks'[n] - tasks[n])
      BY <1>0, SumExcept
    <2>2. QED
      BY <1>0, <2>1
  <1>2. SumOf(tasks, Nodes) \in Nat /\ SumOf(tasks', Nodes) \in Nat
    BY <1>0, SumNat
  <1>3. pending' + SumOf(tasks', Nodes) <= MaxPods
    BY <1>0, <1>1, <1>2 DEF Pods
  <1>4. \A x \in Nodes : tasks'[x] <= SumOf(tasks', Nodes)
    BY <1>0, SumElement
  <1>5. pending' \in 0..MaxPods /\ SumOf(tasks', Nodes) <= MaxPods
    BY <1>0, <1>2, <1>3
  <1>6. \A x \in Nodes : tasks'[x] \in 0..MaxPods
    <2>1. SUFFICES ASSUME NEW x \in Nodes PROVE tasks'[x] \in 0..MaxPods
      OBVIOUS
    <2>2. tasks'[x] \in Nat /\ tasks'[x] <= SumOf(tasks', Nodes)
      BY <1>0, <1>4
    <2>3. QED
      BY <1>0, <1>2, <1>5, <2>2
  <1>7. QED
    BY <1>0, <1>3, <1>5, <1>6 DEF Pods

\* What a step that leaves the pods alone has to keep.
LEMMA SamePods ==
  ASSUME Pods, UNCHANGED <<tasks, pending>>
  PROVE  Pods'
  BY DEF Pods

\* Steps of users, Kubernetes and AWS.
LEMMA EnvironmentInv ==
  ASSUME IInv, \/ PodCreated \/ InstanceLaunched \/ MetricsCollected
               \/ \E n \in Nodes : \/ PodDeleted(n) \/ PodScheduled(n) \/ NodeJoins(n)
                                    \/ NodeStuck(n) \/ InstanceLost(n) \/ NodeRemoved(n)
  PROVE  IInv'
  <1>0. /\ MaxPods \in Nat /\ MaxChanges \in Nat /\ MaxFaults \in Nat /\ IsFiniteSet(Nodes)
        /\ pending \in Nat /\ \A x \in Nodes : tasks[x] \in Nat
    BY ConstantsAssumption DEF IInv, TypeOK
  <1>1. (changes > 0 => changes - 1 \in 0..MaxChanges) /\ (faults > 0 => faults - 1 \in 0..MaxFaults)
    BY <1>0 DEF IInv, TypeOK
  <1>2. UNCHANGED <<item, step, late, new_target_capacity, target, view, custom>>
    BY DEF PodCreated, InstanceLaunched, MetricsCollected, PodDeleted, PodScheduled, NodeJoins, NodeStuck,
           InstanceLost, NodeRemoved, run
  <1>3. Aim' /\ Pause'
    BY <1>2 DEF IInv, Aim, Pause
  <1>4. ASSUME node' \in [Nodes -> {"off", "booting", "stuck", "up", "lingering"}],
               tasks' \in [Nodes -> 0..MaxPods], pending' \in 0..MaxPods, history' \in BOOLEAN,
               changes' \in 0..MaxChanges, faults' \in 0..MaxFaults
        PROVE  TypeOK'
    BY <1>2, <1>4 DEF IInv, TypeOK
  <1>5. CASE PodCreated
    <2>1. pending + Tasks(Nodes) < MaxPods /\ pending' = pending + 1 /\ UNCHANGED <<node, tasks, history, faults>>
          /\ changes' \in 0..MaxChanges
      BY <1>1, <1>5 DEF PodCreated, Change
    <2>2. Tasks(Nodes) = SumOf(tasks, Nodes)
      BY DEF Tasks, SumOf
    <2>3. SumOf(tasks, Nodes) \in Nat
      BY <1>0, SumNat
    <2>4. Pods'
      BY <1>0, <2>1, <2>2, <2>3 DEF Pods
    <2>5. pending' \in 0..MaxPods
      BY <1>0, <2>1, <2>2, <2>3
    <2>6. TypeOK'
      BY <1>4, <2>1, <2>5 DEF IInv, TypeOK
    <2>7. QED
      BY <1>3, <2>4, <2>6 DEF IInv
  <1>6. CASE InstanceLaunched
    <2>1. UNCHANGED <<tasks, pending, history, changes, faults>>
          /\ node' \in [Nodes -> {"off", "booting", "stuck", "up", "lingering"}]
      BY <1>6 DEF InstanceLaunched, budget, IInv, TypeOK
    <2>2. TypeOK'
      BY <1>4, <2>1 DEF IInv, TypeOK
    <2>3. QED
      BY <1>3, <2>1, <2>2, SamePods DEF IInv
  <1>7. CASE MetricsCollected
    <2>1. UNCHANGED <<tasks, pending, node, changes, faults>> /\ history' \in BOOLEAN
      BY <1>7 DEF MetricsCollected, budget
    <2>2. TypeOK'
      BY <1>4, <2>1 DEF IInv, TypeOK
    <2>3. QED
      BY <1>3, <2>1, <2>2, SamePods DEF IInv
  <1>8. ASSUME NEW n \in Nodes, NodeJoins(n) \/ NodeStuck(n) \/ InstanceLost(n)
        PROVE  IInv'
    <2>1. UNCHANGED <<tasks, pending, history>>
          /\ node' \in [Nodes -> {"off", "booting", "stuck", "up", "lingering"}]
      BY <1>8 DEF NodeJoins, NodeStuck, InstanceLost, IInv, TypeOK
    <2>2. changes' \in 0..MaxChanges /\ faults' \in 0..MaxFaults
      BY <1>1, <1>8 DEF NodeJoins, NodeStuck, InstanceLost, Fault, budget, IInv, TypeOK
    <2>3. TypeOK'
      BY <1>4, <2>1, <2>2 DEF IInv, TypeOK
    <2>4. QED
      BY <1>3, <2>1, <2>3, SamePods DEF IInv
  <1>9. ASSUME NEW n \in Nodes, NEW k \in Nat, NEW j \in Nat,
               tasks' = [tasks EXCEPT ![n] = k], pending' = j, j + k <= pending + tasks[n],
               node' \in [Nodes -> {"off", "booting", "stuck", "up", "lingering"}],
               UNCHANGED history, changes' \in 0..MaxChanges, faults' \in 0..MaxFaults
        PROVE  IInv'
    <2>1. Pods' /\ tasks' \in [Nodes -> 0..MaxPods] /\ pending' \in 0..MaxPods
      BY <1>9, PodsStep DEF IInv
    <2>2. TypeOK'
      BY <1>4, <1>9, <2>1 DEF IInv, TypeOK
    <2>3. QED
      BY <1>3, <2>1, <2>2 DEF IInv
  <1>10. ASSUME NEW n \in Nodes, PodDeleted(n)
         PROVE  IInv'
    <2>1. /\ tasks' = [tasks EXCEPT ![n] = tasks[n] - 1] /\ tasks[n] > 0
          /\ UNCHANGED <<node, pending, history, faults>> /\ changes' \in 0..MaxChanges
      BY <1>1, <1>10 DEF PodDeleted, Change, IInv, TypeOK
    <2>2. tasks[n] - 1 \in Nat /\ pending + (tasks[n] - 1) <= pending + tasks[n]
      BY <1>0, <2>1
    <2>3. QED
      BY <1>0, <1>9, <2>1, <2>2 DEF IInv, TypeOK
  <1>11. ASSUME NEW n \in Nodes, PodScheduled(n)
         PROVE  IInv'
    <2>1. /\ tasks' = [tasks EXCEPT ![n] = tasks[n] + 1] /\ pending > 0 /\ pending' = pending - 1
          /\ UNCHANGED <<node, history, changes, faults>>
      BY <1>11 DEF PodScheduled, budget, IInv, TypeOK
    <2>2. tasks[n] + 1 \in Nat /\ pending - 1 \in Nat /\ (pending - 1) + (tasks[n] + 1) <= pending + tasks[n]
      BY <1>0, <2>1
    <2>3. QED
      BY <1>9, <2>1, <2>2 DEF IInv, TypeOK
  <1>12. ASSUME NEW n \in Nodes, NodeRemoved(n)
         PROVE  IInv'
    <2>1. /\ tasks' = [tasks EXCEPT ![n] = 0] /\ pending' = pending + tasks[n]
          /\ UNCHANGED <<history, changes, faults>>
          /\ node' \in [Nodes -> {"off", "booting", "stuck", "up", "lingering"}]
      BY <1>12 DEF NodeRemoved, budget, IInv, TypeOK
    <2>2. pending + tasks[n] \in Nat /\ (pending + tasks[n]) + 0 <= pending + tasks[n]
      BY <1>0
    <2>3. QED
      BY <1>9, <2>1, <2>2 DEF IInv, TypeOK
  <1>13. QED
    BY <1>5, <1>6, <1>7, <1>8, <1>10, <1>11, <1>12

\* A run decides within the limits, or ends.
LEMMA DecideInv ==
  ASSUME IInv, NEW request \in ResourceRequest, Decide(request), step = "started",
         UNCHANGED <<pool, item, custom, late>>,
         changes' \in 0..MaxChanges, faults' \in 0..MaxFaults
  PROVE  IInv'
  <1>1. UNCHANGED <<node, tasks, pending, target, history>>
    BY DEF pool
  <1>2. \/ Return
        \/ /\ step' = "computed" /\ view' = [node |-> node, tasks |-> tasks]
           /\ new_target_capacity' \in min_capacity..max_capacity
    <2>1. CASE Unanswerable(request)
      BY <2>1 DEF Decide
    <2>2. CASE ~Unanswerable(request)
      <3>1. PoolTypes
        BY PoolIsTyped DEF IInv
      <3>2. PICK p \in Nat, q \in Nat \ {0} : _compute_target_capacity(request) = <<p, q>>
        BY <2>2, <3>1, ComputedType
      <3>3. _constrain_target_capacity(<<p, q>>) \in min_capacity..max_capacity
        BY <3>1, Constrained DEF PoolTypes
      <3>4. QED
        BY <2>2, <3>2, <3>3 DEF Decide
    <2>3. QED
      BY <2>1, <2>2
  <1>3. late = 0
    BY DEF IInv, Pause
  <1>4. min_capacity \in Nat /\ max_capacity \in Nat
    BY ConstantsAssumption
  <1>5. /\ step' \in {"idle", "computed"} /\ new_target_capacity' \in 0..max_capacity
        /\ view' \in [node : [Nodes -> {"off", "booting", "stuck", "up", "lingering"}], tasks : [Nodes -> 0..MaxPods]]
    <2>1. CASE Return
      BY <1>4, <2>1, ConstantsAssumption DEF Return, NoView
    <2>2. CASE ~Return
      BY <1>2, <1>4, <2>2 DEF IInv, TypeOK
    <2>3. QED
      BY <2>1, <2>2
  <1>6. TypeOK'
    BY <1>1, <1>5 DEF IInv, TypeOK
  <1>7. Aim'
    <2>1. CASE Return
      BY <2>1 DEF Return, Aim
    <2>2. CASE ~Return
      BY <1>2, <2>2 DEF Aim
    <2>3. QED
      BY <2>1, <2>2
  <1>8. Pods' /\ Pause'
    BY <1>1, <1>3, SamePods DEF IInv, Pause
  <1>9. QED
    BY <1>6, <1>7, <1>8 DEF IInv

\* Every step keeps the invariant.
LEMMA NextInv ==
  ASSUME IInv, [Next]_vars
  PROVE  IInv'
  <1>0. /\ MaxPods \in Nat /\ MaxChanges \in Nat /\ MaxFaults \in Nat
        /\ min_capacity \in Nat /\ max_capacity \in Nat
    BY ConstantsAssumption
  <1>1. /\ changes > 0 => changes - 1 \in 0..MaxChanges
        /\ faults > 0 => faults - 1 \in 0..MaxFaults
    BY <1>0 DEF IInv, TypeOK
  <1>2. PoolTypes
    BY PoolIsTyped DEF IInv
  <1>3. Return => /\ step' = "idle" /\ new_target_capacity' \in 0..max_capacity /\ Aim'
                  /\ view' \in [node : [Nodes -> {"off", "booting", "stuck", "up", "lingering"}],
                                tasks : [Nodes -> 0..MaxPods]]
    BY <1>0 DEF Return, NoView, Aim
  <1>4. CASE Start
    <2>1. UNCHANGED <<node, tasks, pending, target, history, item, custom, new_target_capacity, view, late, changes, faults>>
          /\ step' = "started" /\ item # "active"
      BY <1>4 DEF Start, pool, budget, autoscaling_is_paused
    <2>2. TypeOK' /\ Aim' /\ Pause'
      BY <2>1 DEF IInv, TypeOK, Aim, Pause
    <2>3. QED
      BY <2>1, <2>2, SamePods DEF IInv
  <1>5. CASE EvaluateDefaultSignal
    <2>1. /\ Decide(_get_resource_request) /\ step = "started" /\ UNCHANGED <<pool, item, custom, late>>
          /\ changes' \in 0..MaxChanges /\ faults' \in 0..MaxFaults
      BY <1>5 DEF EvaluateDefaultSignal, budget, IInv, TypeOK
    <2>2. QED
      BY <1>2, <2>1, DefaultRequestType, DecideInv
  <1>6. CASE EvaluateSignal
    <2>1. PICK request \in ClientRequests : Decide(request)
      BY <1>6 DEF EvaluateSignal
    <2>2. request \in ResourceRequest
      BY ConstantsAssumption DEF ResourceRequest
    <2>3. /\ step = "started" /\ UNCHANGED <<pool, item, custom, late>>
          /\ changes' \in 0..MaxChanges /\ faults' \in 0..MaxFaults
      BY <1>1, <1>6 DEF EvaluateSignal, Change, IInv, TypeOK
    <2>4. QED
      BY <2>1, <2>2, <2>3, DecideInv
  <1>7. CASE RunFails
    <2>1. /\ Return /\ UNCHANGED <<node, tasks, pending, target, history, item, custom, late, changes>>
          /\ faults' \in 0..MaxFaults
      BY <1>1, <1>7 DEF RunFails, Fault, pool
    <2>2. TypeOK' /\ Pause'
      BY <1>3, <2>1 DEF IInv, TypeOK, Pause
    <2>3. QED
      BY <1>3, <2>1, <2>2, SamePods DEF IInv
  <1>8. \A K : Terminated(K) \in [Nodes -> {"off", "booting", "stuck", "up", "lingering"}]
    <2>1. SUFFICES ASSUME NEW K, NEW n \in Nodes
                   PROVE  Terminated(K)[n] \in {"off", "booting", "stuck", "up", "lingering"}
      BY DEF Terminated
    <2>2. Terminated(K)[n] = CASE n \notin K -> node[n]
                               [] n \in K \cap Agents -> "lingering"
                               [] n \in K \ Agents -> "off"
      BY DEF Terminated
    <2>3. node[n] \in {"off", "booting", "stuck", "up", "lingering"}
      BY DEF IInv, TypeOK
    <2>4. CASE n \notin K
      BY <2>2, <2>3, <2>4
    <2>5. CASE n \in K \cap Agents
      BY <2>2, <2>5
    <2>6. CASE n \in K \ Agents
      BY <2>2, <2>6
    <2>7. QED
      BY <2>4, <2>5, <2>6
  <1>9. CASE terminate_expired_orphan_instances
    <2>1. UNCHANGED <<tasks, pending, target, history, item, custom, new_target_capacity, view, late>>
          /\ step = "computed" /\ step' = "recycled"
      BY <1>9 DEF terminate_expired_orphan_instances
    <2>2. node' \in [Nodes -> {"off", "booting", "stuck", "up", "lingering"}]
      BY <1>8, <1>9 DEF terminate_expired_orphan_instances, IInv, TypeOK
    <2>3. changes' \in 0..MaxChanges /\ faults' \in 0..MaxFaults
      BY <1>1, <1>9 DEF terminate_expired_orphan_instances, budget, Fault, IInv, TypeOK
    <2>4. TypeOK' /\ Aim' /\ Pause'
      BY <2>1, <2>2, <2>3 DEF IInv, TypeOK, Aim, Pause
    <2>5. QED
      BY <2>1, <2>4, SamePods DEF IInv
  <1>10. CASE modify_target_capacity
    <2>1. /\ step = "recycled" /\ Return /\ target' = new_target_capacity
          /\ late' = (IF item = "active" THEN late + 1 ELSE late)
          /\ UNCHANGED <<tasks, pending, history, item, custom>>
      BY <1>10 DEF modify_target_capacity
    <2>2. node' \in [Nodes -> {"off", "booting", "stuck", "up", "lingering"}]
      BY <1>8, <1>10 DEF modify_target_capacity, IInv, TypeOK
    <2>3. changes' \in 0..MaxChanges /\ faults' \in 0..MaxFaults
      BY <1>1, <1>10 DEF modify_target_capacity, budget, Fault, IInv, TypeOK
    <2>4. late = 0 /\ target' \in min_capacity..max_capacity
      BY <2>1 DEF IInv, Pause, Aim
    <2>5. TypeOK' /\ Pause'
      BY <1>3, <2>1, <2>2, <2>3, <2>4 DEF IInv, TypeOK, Pause
    <2>6. QED
      BY <1>3, <2>1, <2>5, SamePods DEF IInv
  <1>11. ASSUME UNCHANGED <<pool, custom, run>>, item' \in {"none", "active", "expired"}, late' \in {0, late},
                item' # "active" => late' = 0, changes' \in 0..MaxChanges, faults' \in 0..MaxFaults
         PROVE  IInv'
    <2>1. UNCHANGED <<node, tasks, pending, target, history, custom, step, new_target_capacity, view>>
      BY <1>11 DEF pool, run
    <2>2. TypeOK' /\ Aim' /\ Pause'
      BY <1>11, <2>1 DEF IInv, TypeOK, Aim, Pause
    <2>3. QED
      BY <2>1, <2>2, SamePods DEF IInv
  <1>12. CASE disable_autoscaling
    <2>1. changes' \in 0..MaxChanges /\ faults' \in 0..MaxFaults
      BY <1>1, <1>12 DEF disable_autoscaling, Change, IInv, TypeOK
    <2>2. QED
      BY <1>11, <1>12, <2>1 DEF disable_autoscaling
  <1>13. CASE enable_autoscaling \/ PauseExpires
    <2>1. changes' \in 0..MaxChanges /\ faults' \in 0..MaxFaults
      BY <1>13 DEF enable_autoscaling, PauseExpires, budget, IInv, TypeOK
    <2>2. QED
      BY <1>11, <1>13, <2>1 DEF enable_autoscaling, PauseExpires
  <1>14. CASE UNCHANGED vars
    <2>1. UNCHANGED <<pool, custom, run>> /\ item' = item /\ late' = late
          /\ changes' \in 0..MaxChanges /\ faults' \in 0..MaxFaults
      BY <1>14 DEF vars, budget, IInv, TypeOK
    <2>2. QED
      BY <1>11, <2>1 DEF IInv, TypeOK, Pause
  <1>15. QED
    BY <1>4, <1>5, <1>6, <1>7, <1>9, <1>10, <1>12, <1>13, <1>14, EnvironmentInv DEF Next, RunStep

-----------------------------------------------------------------------------
(* Theorems.                                                                *)

\* The invariant.
LEMMA Invariant == Spec => []IInv
  BY InitInv, NextInv, PTL DEF Spec

\* The pool and every run are well typed: the target never leaves the limits of
\* the pool, however signals, limits and the margin are chosen.
THEOREM TypeCorrect == Spec => []TypeOK
  BY Invariant, PTL DEF IInv

\* Autoscaler.run looks at the pause once, at its start: after a pause has
\* begun at most one run modifies the pool.
THEOREM PauseIsRespected == Spec => []OneRunAfterPause
  <1>1. IInv => OneRunAfterPause
    BY DEF IInv, Pause, OneRunAfterPause
  <1>2. QED
    BY <1>1, Invariant, PTL

\* The answers of a signal that a run may be given.
LEMMA AnswerableType ==
  ASSUME PoolTypes, NEW request \in Answerable
  PROVE  request \in ResourceRequest /\ ~Unanswerable(request)
  BY DefaultRequestType, ConstantsAssumption DEF Answerable, ResourceRequest

\* Whatever a signal asks for, Autoscaler._compute_target_capacity and
\* _constrain_target_capacity do not aim too low.
THEOREM RequestIsAlwaysCovered == Spec => []RequestIsCovered
  <1>1. ASSUME IInv
        PROVE  RequestIsCovered
    <2>1. PoolTypes
      BY <1>1, PoolIsTyped DEF IInv
    <2>2. SUFFICES ASSUME NEW request \in Answerable, NEW aim \in Aims(request),
                          IF target = 0 THEN history ELSE InSync
                   PROVE  \/ aim >= max_capacity
                          \/ aim >= target + max_weight_to_add
                          \/ \A r \in Requested(request) :
                               \/ target = 0 /\ NodeRes[r] = 0
                               \/ request[r] * 10000 <= aim * NodeRes[r] * setpoint * (100 + target_capacity_margin)
      BY DEF RequestIsCovered
    <2>3. request \in ResourceRequest /\ ~Unanswerable(request)
      BY <2>1, AnswerableType
    <2>4. aim = _constrain_target_capacity(_compute_target_capacity(request))
      BY DEF Aims
    <2>5. QED
      BY <2>1, <2>2, <2>3, <2>4, Covered
  <1>2. QED
    BY <1>1, Invariant, PTL

\* Nor too high, as long as the margin is not more than the target itself: with
\* a larger one no change at all might be worth making.
THEOREM RequestIsNeverExceeded ==
  ASSUME target_capacity_margin <= 100
  PROVE  Spec => []RequestIsNotExceeded
  <1>1. ASSUME IInv
        PROVE  RequestIsNotExceeded
    <2>1. PoolTypes
      BY <1>1, PoolIsTyped DEF IInv
    <2>2. SUFFICES ASSUME NEW request \in Answerable, NEW aim \in Aims(request),
                          ~AllNone(request), target = 0 \/ InSync
                   PROVE  \/ aim <= min_capacity
                          \/ aim <= target - max_weight_to_remove
                          \/ target = 0 /\ ~history /\ aim = 1
                          \/ \E r \in IF target = 0 THEN Resources ELSE Requested(request) :
                               \/ request[r] * 100 > (aim - 1) * NodeRes[r] * setpoint
                               \/ /\ aim = target
                                  /\ request[r] * 10000 > target * NodeRes[r] * setpoint * (100 - target_capacity_margin)
      BY DEF RequestIsNotExceeded
    <2>3. request \in ResourceRequest /\ ~Unanswerable(request)
      BY <2>1, AnswerableType
    <2>4. aim = _constrain_target_capacity(_compute_target_capacity(request))
      BY DEF Aims
    <2>5. QED
      BY <2>1, <2>2, <2>3, <2>4, NotExceeded
  <1>2. QED
    BY <1>1, Invariant, PTL
===============================================================================
