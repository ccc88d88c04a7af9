----------------------------- MODULE SumTheorems -----------------------------
(***************************************************************************)
(* What sums over finite sets are, as MapThenSumSet defines them: the      *)
(* capacities, tasks and costs of the other modules are such sums.  The    *)
(* proofs take a smallest counterexample instead of using induction.       *)
(***************************************************************************)
EXTENDS Integers, FiniteSets, FiniteSetsExt, FiniteSetTheorems, WellFoundedInduction, TLAPS

\* The sum of f[x] over the x of S.
SumOf(f, S) == MapThenSumSet(LAMBDA x : f[x], S)

\* A set of numbers that is not empty has a smallest element.
LEMMA SmallestNumber ==
  ASSUME NEW D \in SUBSET Nat, D # {}
  PROVE  \E m \in D : \A d \in D : m <= d
  <1> DEFINE R == OpToRel(<, Nat)
  <1>1. IsWellFoundedOn(R, Nat)
    BY NatLessThanWellFounded
  <1>2. \A x, y \in Nat : <<y, x>> \in R <=> y < x
    BY DEF OpToRel
  <1> HIDE DEF R
  <1>3. PICK m \in D : \A d \in D : ~(<<d, m>> \in R)
    BY <1>1, WFMin
  <1>4. \A d \in D : m \in Nat /\ d \in Nat /\ ~(d < m)
    BY <1>2, <1>3
  <1>5. QED
    BY <1>4

\* Among finite sets there is one that none has fewer elements than.
LEMMA SmallestSet ==
  ASSUME NEW B, B # {}, \A s \in B : IsFiniteSet(s)
  PROVE  \E s \in B : \A t \in B : ~(Cardinality(t) < Cardinality(s))
  <1> DEFINE D == {Cardinality(s) : s \in B}
  <1>1. D \in SUBSET Nat /\ D # {}
    BY FS_CardinalityType
  <1>2. PICK m \in D : \A d \in D : m <= d
    <2> HIDE DEF D
    <2> QED BY <1>1, SmallestNumber
  <1>3. PICK s \in B : m = Cardinality(s)
    BY <1>2
  <1>4. \A t \in B : m \in Nat /\ Cardinality(t) \in Nat /\ m <= Cardinality(t)
    BY <1>1, <1>2
  <1>5. QED
    BY <1>3, <1>4

\* A function has finitely many values on a finite set.
LEMMA FiniteImage ==
  ASSUME NEW S, IsFiniteSet(S), NEW f
  PROVE  IsFiniteSet({f[x] : x \in S})
  <1> DEFINE T == {f[x] : x \in S}
             g == [x \in S |-> f[x]]
  <1>1. g \in Surjection(S, T)
    BY DEF Surjection
  <1> HIDE DEF T, g
  <1>2. IsFiniteSet(T)
    BY <1>1, FS_Surjection
  <1>3. QED
    BY <1>2 DEF T

\* The element that is taken from a set first.
Pick(s) == CHOOSE x \in s : TRUE

\* A set without one of its elements is smaller.
LEMMA WithoutOne ==
  ASSUME NEW s, IsFiniteSet(s), NEW x \in s
  PROVE  /\ IsFiniteSet(s \ {x}) /\ s \ {x} \in SUBSET s
         /\ Cardinality(s) \in Nat /\ Cardinality(s \ {x}) = Cardinality(s) - 1
         /\ Cardinality(s \ {x}) < Cardinality(s)
  <1>1. Cardinality(s) \in Nat
    BY FS_CardinalityType
  <1>2. IsFiniteSet(s \ {x}) /\ Cardinality(s \ {x}) = Cardinality(s) - 1
    BY FS_RemoveElement
  <1>3. QED
    BY <1>1, <1>2

\* So is one without the element that is taken first.
LEMMA PickOne ==
  ASSUME NEW s, IsFiniteSet(s), s # {}
  PROVE  /\ Pick(s) \in s /\ IsFiniteSet(s \ {Pick(s)}) /\ s \ {Pick(s)} \in SUBSET s
         /\ Cardinality(s) \in Nat /\ Cardinality(s \ {Pick(s)}) = Cardinality(s) - 1
         /\ Cardinality(s \ {Pick(s)}) < Cardinality(s)
  <1>1. Pick(s) \in s
    BY DEF Pick
  <1>2. QED
    BY <1>1, WithoutOne

-----------------------------------------------------------------------------
(* The recursion.                                                           *)

SumBody(f, h, s) == IF s = {} THEN 0 ELSE f[Pick(s)] + h[s \ {Pick(s)}]
SumRec(f, h, S) == h = [s \in SUBSET S |-> SumBody(f, h, s)]

\* A sum is the value of the function that the recursion defines.
LEMMA SumChoice ==
  ASSUME NEW f, NEW S
  PROVE  SumOf(f, S) = (CHOOSE h : SumRec(f, h, S))[S]
  BY DEF SumOf, SumRec, SumBody, Pick, MapThenSumSet, MapThenFoldSet

\* There is such a function.
LEMMA SumExists ==
  ASSUME NEW f, NEW S, IsFiniteSet(S)
  PROVE  \E h : SumRec(f, h, S)
  <1> DEFINE T(n) == {s \in SUBSET S : Cardinality(s) <= n}
             E(n) == \E h : h = [s \in T(n) |-> SumBody(f, h, s)]
             D == {n \in Nat : ~E(n)}
  <1>1. \A s \in SUBSET S : IsFiniteSet(s) /\ Cardinality(s) \in Nat /\ Cardinality(s) <= Cardinality(S)
    BY FS_Subset, FS_CardinalityType
  <1>2. Cardinality(S) \in Nat
    BY FS_CardinalityType
  <1>3. E(0)
    <2>1. \A s : s \in T(0) <=> s = {}
      <3>1. \A s \in SUBSET S : s # {} => Cardinality(s) # 0
        BY <1>1, FS_EmptySet
      <3>2. Cardinality({}) = 0
        BY FS_EmptySet
      <3>3. QED
        BY <1>1, <3>1, <3>2
    <2> DEFINE h == [s \in T(0) |-> 0]
    <2> HIDE DEF T
    <2>2. h = [s \in T(0) |-> SumBody(f, h, s)]
      BY <2>1 DEF SumBody
    <2> QED BY <2>2
  <1>4. ASSUME NEW n \in Nat, E(n)
        PROVE  E(n + 1)
    <2>1. PICK g : g = [s \in T(n) |-> SumBody(f, g, s)]
      BY <1>4
    <2> DEFINE h == [s \in T(n + 1) |-> SumBody(f, g, s)]
    <2>2. \A s \in T(n + 1) : s # {} => s \ {Pick(s)} \in T(n) /\ s \ {Pick(s)} \in T(n + 1)
      <3>1. SUFFICES ASSUME NEW s \in SUBSET S, Cardinality(s) <= n + 1, s # {}
                     PROVE  s \ {Pick(s)} \in T(n) /\ s \ {Pick(s)} \in T(n + 1)
        OBVIOUS
      <3>2. /\ s \ {Pick(s)} \in SUBSET s /\ Cardinality(s) \in Nat
            /\ Cardinality(s \ {Pick(s)}) = Cardinality(s) - 1
        BY <1>1, <3>1, PickOne
      <3>3. QED
        BY <3>1, <3>2
    <2> HIDE DEF T
    <2>3. \A s \in T(n) \cap T(n + 1) : h[s] = g[s]
      BY <2>1
    <2>4. \A s \in T(n + 1) : SumBody(f, h, s) = SumBody(f, g, s)
      BY <2>2, <2>3 DEF SumBody
    <2>5. h = [s \in T(n + 1) |-> SumBody(f, h, s)]
      BY <2>4
    <2>6. QED
      BY <2>5
  <1>5. \A n \in Nat : E(n)
    <2> HIDE DEF E
    <2>1. SUFFICES ASSUME D # {} PROVE FALSE
      OBVIOUS
    <2>2. PICK m \in D : \A d \in D : m <= d
      <3>1. D \in SUBSET Nat
        OBVIOUS
      <3> HIDE DEF D
      <3>2. QED
        BY <2>1, <3>1, SmallestNumber
    <2>3. m \in Nat /\ m # 0 /\ ~E(m)
      BY <1>3, <2>2
    <2>4. m - 1 \in Nat /\ E(m - 1) /\ (m - 1) + 1 = m
      BY <2>2, <2>3
    <2>5. QED
      BY <1>4, <2>3, <2>4
  <1>6. T(Cardinality(S)) = SUBSET S
    BY <1>1
  <1>7. QED
    BY <1>2, <1>5, <1>6 DEF SumRec

\* Such functions agree where both are defined.
LEMMA SumAgrees ==
  ASSUME NEW f, NEW S, NEW R \in SUBSET S, IsFiniteSet(S), NEW g, NEW h, SumRec(f, g, S), SumRec(f, h, R)
  PROVE  \A s \in SUBSET R : g[s] = h[s]
  <1> DEFINE B == {s \in SUBSET R : g[s] # h[s]}
  <1>1. \A s \in SUBSET R : IsFiniteSet(s)
    BY FS_Subset
  <1>2. \A s \in SUBSET R : g[s] = SumBody(f, g, s) /\ h[s] = SumBody(f, h, s)
    BY DEF SumRec
  <1>3. SUFFICES ASSUME B # {} PROVE FALSE
    OBVIOUS
  <1>4. \A s \in B : IsFiniteSet(s)
    BY <1>1
  <1>5. PICK s \in B : \A t \in B : ~(Cardinality(t) < Cardinality(s))
    <2> HIDE DEF B
    <2> QED BY <1>3, <1>4, SmallestSet
  <1>6. s \in SUBSET R /\ g[s] # h[s] /\ IsFiniteSet(s)
    BY <1>1, <1>5
  <1>7. s # {}
    BY <1>2, <1>6 DEF SumBody
  <1>8. g[s \ {Pick(s)}] # h[s \ {Pick(s)}]
    BY <1>2, <1>6, <1>7 DEF SumBody
  <1>9. s \ {Pick(s)} \in B /\ Cardinality(s \ {Pick(s)}) < Cardinality(s)
    BY <1>6, <1>7, <1>8, PickOne
  <1>10. QED
    BY <1>5, <1>9

\* A sum is that of one element and of the rest.
LEMMA SumStep ==
  ASSUME NEW f, NEW S, IsFiniteSet(S)
  PROVE  SumOf(f, S) = IF S = {} THEN 0 ELSE f[Pick(S)] + SumOf(f, S \ {Pick(S)})
  <1> DEFINE g == CHOOSE g : SumRec(f, g, S)
  <1>1. SumRec(f, g, S)
    BY SumExists
  <1>2. SumOf(f, S) = g[S]
    BY SumChoice
  <1> HIDE DEF g
  <1>3. SumOf(f, S) = SumBody(f, g, S)
    BY <1>1, <1>2 DEF SumRec
  <1>4. CASE S # {}
    <2> DEFINE R == S \ {Pick(S)}
               h == CHOOSE h : SumRec(f, h, R)
    <2>1. IsFiniteSet(R) /\ R \in SUBSET S
      BY <1>4, PickOne
    <2> HIDE DEF R
    <2>2. SumRec(f, h, R)
      BY <2>1, SumExists
    <2>3. SumOf(f, R) = h[R]
      BY SumChoice
    <2> HIDE DEF h
    <2>4. g[R] = h[R]
      BY <1>1, <2>1, <2>2, SumAgrees
    <2>5. QED
      BY <1>3, <1>4, <2>3, <2>4 DEF SumBody, R
  <1>5. QED
    BY <1>3, <1>4 DEF SumBody

-----------------------------------------------------------------------------
(* What sums are like.                                                      *)

\* There is nothing in a sum over nothing.
LEMMA SumEmpty ==
  ASSUME NEW f
  PROVE  SumOf(f, {}) = 0
  BY SumStep, FS_EmptySet

\* A sum of integers is one.
LEMMA SumType ==
  ASSUME NEW f, NEW S, IsFiniteSet(S), \A x \in S : f[x] \in Int
  PROVE  SumOf(f, S) \in Int
  <1> DEFINE B == {s \in SUBSET S : SumOf(f, s) \notin Int}
  <1>1. \A s \in SUBSET S : IsFiniteSet(s)
    BY FS_Subset
  <1>2. SUFFICES ASSUME B # {} PROVE FALSE
    OBVIOUS
  <1>3. \A s \in B : IsFiniteSet(s)
    BY <1>1
  <1>4. PICK s \in B : \A t \in B : ~(Cardinality(t) < Cardinality(s))
    <2> HIDE DEF B
    <2> QED BY <1>2, <1>3, SmallestSet
  <1>5. s \in SUBSET S /\ IsFiniteSet(s) /\ SumOf(f, s) \notin Int
    BY <1>1, <1>4
  <1>6. s # {}
    BY <1>5, SumEmpty
  <1>7. Pick(s) \in s /\ s \ {Pick(s)} \in SUBSET s /\ Cardinality(s \ {Pick(s)}) < Cardinality(s)
    <2> HIDE DEF B
    <2> QED BY <1>5, <1>6, PickOne
  <1>8. SumOf(f, s \ {Pick(s)}) \in Int
    BY <1>4, <1>5, <1>7
  <1>9. SumOf(f, s) = f[Pick(s)] + SumOf(f, s \ {Pick(s)})
    BY <1>5, <1>6, SumStep
  <1>10. QED
    BY <1>5, <1>7, <1>8, <1>9

\* An element more adds what it has: the order does not matter.
LEMMA SumAdd ==
  ASSUME NEW f, NEW S, IsFiniteSet(S), NEW x, x \notin S, \A y \in S \cup {x} : f[y] \in Int
  PROVE  SumOf(f, S \cup {x}) = SumOf(f, S) + f[x]
  <1> DEFINE Good(s, y) == SumOf(f, s \cup {y}) = SumOf(f, s) + f[y]
             A == S \cup {x}
             B == {s \in SUBSET A : \E y \in A \ s : ~Good(s, y)}
  <1>0. IsFiniteSet(A)
    BY FS_AddElement
  <1>1. \A s \in SUBSET A : IsFiniteSet(s) /\ SumOf(f, s) \in Int
    <2> HIDE DEF A
    <2>1. SUFFICES ASSUME NEW s \in SUBSET A PROVE IsFiniteSet(s) /\ SumOf(f, s) \in Int
      OBVIOUS
    <2>2. IsFiniteSet(s)
      BY <1>0, FS_Subset
    <2>3. \A y \in s : f[y] \in Int
      BY DEF A
    <2>4. QED
      BY <2>2, <2>3, SumType
  <1>2. SUFFICES ASSUME B # {} PROVE FALSE
    OBVIOUS
  <1>3. \A s \in B : IsFiniteSet(s)
    BY <1>1
  <1>4. PICK s \in B : \A t \in B : ~(Cardinality(t) < Cardinality(s))
    <2> HIDE DEF B
    <2> QED BY <1>2, <1>3, SmallestSet
  <1>5. s \in SUBSET A /\ IsFiniteSet(s)
    BY <1>1, <1>4
  <1>6. PICK y \in A \ s : ~Good(s, y)
    BY <1>4
  <1> DEFINE t == s \cup {y}
             c == Pick(t)
  <1>7. IsFiniteSet(t) /\ t # {} /\ t \in SUBSET A
    BY <1>5, FS_AddElement
  <1>8. c \in t /\ SumOf(f, t) = f[c] + SumOf(f, t \ {c})
    <2> HIDE DEF t
    <2> QED BY <1>7, PickOne, SumStep DEF c
  <1>9. f[y] \in Int /\ f[c] \in Int /\ SumOf(f, s) \in Int
    BY <1>1, <1>5, <1>6, <1>7, <1>8
  <1> HIDE DEF c
  <1>10. c # y
    <2>1. SUFFICES ASSUME c = y PROVE FALSE
      OBVIOUS
    <2>2. t \ {c} = s
      BY <1>6, <2>1
    <2>3. ~(SumOf(f, t) = SumOf(f, s) + f[y])
      BY <1>6
    <2> HIDE DEF t
    <2>4. SumOf(f, t \ {c}) = SumOf(f, s) /\ f[c] = f[y]
      BY <2>1, <2>2, Zenon
    <2>5. QED
      BY <1>8, <1>9, <2>3, <2>4
  <1> DEFINE r == s \ {c}
  <1>11. c \in s /\ r \in SUBSET A /\ y \notin r /\ c \notin r
    BY <1>5, <1>6, <1>8, <1>10
  <1>12. Cardinality(r) < Cardinality(s)
    BY <1>5, <1>11, WithoutOne
  <1>13. Good(r, y) /\ Good(r, c)
    <2>1. r \notin B
      BY <1>4, <1>12
    <2>2. y \in A \ r /\ c \in A \ r
      BY <1>5, <1>6, <1>11
    <2> HIDE DEF Good, A
    <2>3. QED
      BY <1>11, <2>1, <2>2
  <1>14. t \ {c} = r \cup {y} /\ s = r \cup {c}
    BY <1>10, <1>11
  <1>15. SumOf(f, r) \in Int
    BY <1>1, <1>11
  <1>16. SumOf(f, t) = SumOf(f, s) + f[y]
    <2>1. SumOf(f, t \ {c}) = SumOf(f, r) + f[y]
      BY <1>13, <1>14
    <2>2. SumOf(f, s) = SumOf(f, r) + f[c]
      BY <1>13, <1>14
    <2> HIDE DEF t, r
    <2>3. QED
      BY <1>8, <1>9, <1>15, <2>1, <2>2
  <1>17. QED
    BY <1>6, <1>16

\* An element less.
LEMMA SumRemove ==
  ASSUME NEW f, NEW S, IsFiniteSet(S), NEW x \in S, \A y \in S : f[y] \in Int
  PROVE  SumOf(f, S \ {x}) = SumOf(f, S) - f[x]
  <1> DEFINE R == S \ {x}
  <1>1. IsFiniteSet(R) /\ x \notin R /\ R \cup {x} = S
    BY WithoutOne
  <1> HIDE DEF R
  <1>2. \A y \in R \cup {x} : f[y] \in Int
    BY <1>1
  <1>3. SumOf(f, R \cup {x}) = SumOf(f, R) + f[x]
    BY <1>1, <1>2, SumAdd
  <1>4. SumOf(f, R) \in Int /\ f[x] \in Int
    BY <1>1, <1>2, SumType
  <1>5. SumOf(f, R) = SumOf(f, S) - f[x]
    <2>1. SumOf(f, R \cup {x}) = SumOf(f, S)
      BY <1>1, Zenon
    <2>2. QED
      BY <1>3, <1>4, <2>1
  <1>6. QED
    BY <1>5 DEF R

\* The sum of two parts.
LEMMA SumSplit ==
  ASSUME NEW f, NEW S, IsFiniteSet(S), NEW T \in SUBSET S, \A y \in S : f[y] \in Int
  PROVE  SumOf(f, S) = SumOf(f, S \ T) + SumOf(f, T)
  <1> DEFINE Good(u) == SumOf(f, S) = SumOf(f, S \ u) + SumOf(f, u)
             B == {u \in SUBSET S : ~Good(u)}
  <1>1. \A u \in SUBSET S : IsFiniteSet(u) /\ SumOf(f, u) \in Int
    <2>1. SUFFICES ASSUME NEW u \in SUBSET S PROVE IsFiniteSet(u) /\ SumOf(f, u) \in Int
      OBVIOUS
    <2>2. IsFiniteSet(u)
      BY FS_Subset
    <2>3. QED
      BY <2>2, SumType
  <1>2. SUFFICES ASSUME B # {} PROVE FALSE
    OBVIOUS
  <1>3. \A u \in B : IsFiniteSet(u)
    BY <1>1
  <1>4. PICK u \in B : \A t \in B : ~(Cardinality(t) < Cardinality(u))
    <2> HIDE DEF B
    <2> QED BY <1>2, <1>3, SmallestSet
  <1>5. u \in SUBSET S /\ IsFiniteSet(u) /\ ~(SumOf(f, S) = SumOf(f, S \ u) + SumOf(f, u))
    BY <1>1, <1>4
  <1>6. u # {}
    <2>1. SUFFICES ASSUME u = {} PROVE FALSE
      OBVIOUS
    <2>2. S \ u = S /\ SumOf(f, u) = 0 /\ SumOf(f, S) \in Int
      BY <1>1, <2>1, SumEmpty
    <2>3. QED
      BY <1>5, <2>2
  <1>7. PICK x : x \in u
    BY <1>6
  <1> DEFINE v == u \ {x}
             w == S \ u
  <1>8. Cardinality(v) < Cardinality(u) /\ IsFiniteSet(v) /\ v \in SUBSET S /\ v \in SUBSET u
    BY <1>5, <1>7, WithoutOne
  <1>9. SumOf(f, S) = SumOf(f, S \ v) + SumOf(f, v)
    BY <1>4, <1>8
  <1>10. S \ v = w \cup {x} /\ x \notin w /\ w \in SUBSET S /\ x \in S
    BY <1>5, <1>7
  <1>11. SumOf(f, v) = SumOf(f, u) - f[x]
    BY <1>5, <1>7, SumRemove
  <1> HIDE DEF v, w
  <1>12. SumOf(f, w \cup {x}) = SumOf(f, w) + f[x]
    BY <1>1, <1>10, SumAdd
  <1>13. SumOf(f, u) \in Int /\ SumOf(f, w) \in Int /\ f[x] \in Int
    BY <1>1, <1>5, <1>10
  <1>14. SumOf(f, S) = SumOf(f, w) + SumOf(f, u)
    <2>1. SumOf(f, S \ v) = SumOf(f, w \cup {x})
      BY <1>10, Zenon
    <2>2. QED
      BY <1>9, <1>11, <1>12, <1>13, <2>1
  <1>15. QED
    BY <1>5, <1>14 DEF w

\* A sum of natural numbers is one.
LEMMA SumNat ==
  ASSUME NEW f, NEW S, IsFiniteSet(S), \A x \in S : f[x] \in Nat
  PROVE  SumOf(f, S) \in Nat
  <1> DEFINE B == {s \in SUBSET S : SumOf(f, s) \notin Nat}
  <1>1. \A s \in SUBSET S : IsFiniteSet(s)
    BY FS_Subset
  <1>2. SUFFICES ASSUME B # {} PROVE FALSE
    OBVIOUS
  <1>3. \A s \in B : IsFiniteSet(s)
    BY <1>1
  <1>4. PICK s \in B : \A t \in B : ~(Cardinality(t) < Cardinality(s))
    <2> HIDE DEF B
    <2> QED BY <1>2, <1>3, SmallestSet
  <1>5. s \in SUBSET S /\ IsFiniteSet(s) /\ SumOf(f, s) \notin Nat
    BY <1>1, <1>4
  <1>6. s # {}
    BY <1>5, SumEmpty
  <1>7. Pick(s) \in s /\ s \ {Pick(s)} \in SUBSET s /\ Cardinality(s \ {Pick(s)}) < Cardinality(s)
    <2> HIDE DEF B
    <2> QED BY <1>5, <1>6, PickOne
  <1>8. SumOf(f, s \ {Pick(s)}) \in Nat
    BY <1>4, <1>5, <1>7
  <1>9. SumOf(f, s) = f[Pick(s)] + SumOf(f, s \ {Pick(s)})
    BY <1>5, <1>6, SumStep
  <1>10. QED
    BY <1>5, <1>7, <1>8, <1>9

\* Nothing adds up to nothing.
LEMMA SumZero ==
  ASSUME NEW f, NEW S, IsFiniteSet(S), \A x \in S : f[x] = 0
  PROVE  SumOf(f, S) = 0
  <1> DEFINE B == {s \in SUBSET S : SumOf(f, s) # 0}
  <1>1. \A s \in SUBSET S : IsFiniteSet(s)
    BY FS_Subset
  <1>2. SUFFICES ASSUME B # {} PROVE FALSE
    OBVIOUS
  <1>3. \A s \in B : IsFiniteSet(s)
    BY <1>1
  <1>4. PICK s \in B : \A t \in B : ~(Cardinality(t) < Cardinality(s))
    <2> HIDE DEF B
    <2> QED BY <1>2, <1>3, SmallestSet
  <1>5. s \in SUBSET S /\ IsFiniteSet(s) /\ SumOf(f, s) # 0
    BY <1>1, <1>4
  <1>6. s # {}
    BY <1>5, SumEmpty
  <1>7. Pick(s) \in s /\ s \ {Pick(s)} \in SUBSET s /\ Cardinality(s \ {Pick(s)}) < Cardinality(s)
    <2> HIDE DEF B
    <2> QED BY <1>5, <1>6, PickOne
  <1>8. SumOf(f, s \ {Pick(s)}) = 0
    BY <1>4, <1>5, <1>7
  <1>9. SumOf(f, s) = f[Pick(s)] + SumOf(f, s \ {Pick(s)})
    BY <1>5, <1>6, SumStep
  <1>10. QED
    BY <1>5, <1>7, <1>8, <1>9

\* No part is more than the whole.
LEMMA SumMonotone ==
  ASSUME NEW f, NEW S, IsFiniteSet(S), NEW T \in SUBSET S, \A y \in S : f[y] \in Nat
  PROVE  SumOf(f, T) \in Nat /\ SumOf(f, S) \in Nat /\ SumOf(f, T) <= SumOf(f, S)
  <1>1. IsFiniteSet(T) /\ IsFiniteSet(S \ T)
    BY FS_Subset
  <1>2. SumOf(f, T) \in Nat /\ SumOf(f, S) \in Nat /\ SumOf(f, S \ T) \in Nat
    BY <1>1, SumNat
  <1>3. SumOf(f, S) = SumOf(f, S \ T) + SumOf(f, T)
    BY SumSplit
  <1>4. QED
    BY <1>2, <1>3

\* A single element is no more than the whole.
LEMMA SumElement ==
  ASSUME NEW f, NEW S, IsFiniteSet(S), NEW x \in S, \A y \in S : f[y] \in Nat
  PROVE  SumOf(f, S) \in Nat /\ f[x] <= SumOf(f, S)
  <1> DEFINE R == S \ {x}
  <1>1. IsFiniteSet(R)
    BY WithoutOne
  <1>2. SumOf(f, S) \in Nat /\ SumOf(f, R) \in Nat
    BY <1>1, SumNat
  <1>3. SumOf(f, R) = SumOf(f, S) - f[x]
    BY SumRemove
  <1> HIDE DEF R
  <1>4. QED
    BY <1>2, <1>3

\* Only what the elements have counts.
LEMMA SumSame ==
  ASSUME NEW f, NEW g, NEW S, IsFiniteSet(S), \A x \in S : f[x] = g[x]
  PROVE  SumOf(f, S) = SumOf(g, S)
  <1> DEFINE B == {s \in SUBSET S : SumOf(f, s) # SumOf(g, s)}
  <1>1. \A s \in SUBSET S : IsFiniteSet(s)
    BY FS_Subset
  <1>2. SUFFICES ASSUME B # {} PROVE FALSE
    OBVIOUS
  <1>3. \A s \in B : IsFiniteSet(s)
    BY <1>1
  <1>4. PICK s \in B : \A t \in B : ~(Cardinality(t) < Cardinality(s))
    <2> HIDE DEF B
    <2> QED BY <1>2, <1>3, SmallestSet
  <1>5. s \in SUBSET S /\ IsFiniteSet(s) /\ SumOf(f, s) # SumOf(g, s)
    BY <1>1, <1>4
  <1>6. s # {}
    BY <1>5, SumEmpty
  <1>7. Pick(s) \in s /\ s \ {Pick(s)} \in SUBSET s /\ Cardinality(s \ {Pick(s)}) < Cardinality(s)
    <2> HIDE DEF B
    <2> QED BY <1>5, <1>6, PickOne
  <1>8. SumOf(f, s \ {Pick(s)}) = SumOf(g, s \ {Pick(s)})
    BY <1>4, <1>5, <1>7
  <1>9. /\ SumOf(f, s) = f[Pick(s)] + SumOf(f, s \ {Pick(s)})
        /\ SumOf(g, s) = g[Pick(s)] + SumOf(g, s \ {Pick(s)})
    BY <1>5, <1>6, SumStep
  <1>10. QED
    BY <1>5, <1>7, <1>8, <1>9

\* What a single element has more or less, the sum has.
LEMMA SumExcept ==
  ASSUME NEW f, NEW S, IsFiniteSet(S), NEW x \in S, NEW g,
         \A y \in S : f[y] \in Int /\ g[y] \in Int,
         \A y \in S \ {x} : f[y] = g[y]
  PROVE  SumOf(g, S) = SumOf(f, S) + (g[x] - f[x])
  <1> DEFINE R == S \ {x}
  <1>1. IsFiniteSet(R)
    BY WithoutOne
  <1>2. SumOf(f, R) = SumOf(f, S) - f[x] /\ SumOf(g, R) = SumOf(g, S) - g[x]
    BY SumRemove
  <1>3. SumOf(f, R) = SumOf(g, R)
    <2> HIDE DEF R
    <2>1. \A y \in R : f[y] = g[y]
      BY DEF R
    <2>2. QED
      BY <1>1, <2>1, SumSame
  <1>4. SumOf(f, S) \in Int /\ SumOf(g, S) \in Int /\ f[x] \in Int /\ g[x] \in Int
    BY SumType
  <1> HIDE DEF R
  <1>5. QED
    BY <1>2, <1>3, <1>4

\* Equal terms.
LEMMA SumConstant ==
  ASSUME NEW f, NEW S, IsFiniteSet(S), NEW u \in Int, \A x \in S : f[x] = u
  PROVE  SumOf(f, S) = u * Cardinality(S) /\ Cardinality(S) \in Nat
  <1> DEFINE Good(s) == SumOf(f, s) = u * Cardinality(s)
             B == {s \in SUBSET S : ~Good(s)}
  <1>1. \A s \in SUBSET S : IsFiniteSet(s)
    BY FS_Subset
  <1>2. Cardinality(S) \in Nat
    BY FS_CardinalityType
  <1>3. SUFFICES ASSUME B # {} PROVE FALSE
    BY <1>2
  <1>4. PICK s \in B : \A t \in B : ~(Cardinality(t) < Cardinality(s))
    <2>1. \A s \in B : IsFiniteSet(s)
      BY <1>1
    <2> HIDE DEF B
    <2>2. QED
      BY <1>3, <2>1, SmallestSet
  <1>5. s \in SUBSET S /\ IsFiniteSet(s) /\ ~Good(s)
    BY <1>1, <1>4
  <1>6. s # {}
    <2>1. SumOf(f, {}) = 0 /\ Cardinality({}) = 0 /\ u * 0 = 0
      BY SumEmpty, FS_EmptySet
    <2>2. QED
      BY <1>5, <2>1
  <1>7. PICK x \in s : TRUE
    BY <1>6
  <1> DEFINE r == s \ {x}
  <1>8. /\ IsFiniteSet(r) /\ r \in SUBSET s /\ Cardinality(s) \in Nat
        /\ Cardinality(r) = Cardinality(s) - 1 /\ Cardinality(r) < Cardinality(s)
    BY <1>5, <1>7, WithoutOne
  <1>9. Good(r)
    BY <1>4, <1>5, <1>8
  <1>10. SumOf(f, r) = SumOf(f, s) - f[x] /\ f[x] = u /\ SumOf(f, s) \in Int
    <2>1. \A y \in s : f[y] \in Int /\ f[y] = u
      BY <1>5
    <2>2. QED
      BY <1>5, <1>7, <2>1, SumRemove, SumType
  <1> HIDE DEF r
  <1> DEFINE n == Cardinality(s)
  <1>11. n \in Nat /\ SumOf(f, r) = u * (n - 1)
    BY <1>8, <1>9
  <1>12. SumOf(f, s) # u * n
    BY <1>5
  <1> HIDE DEF n, Good
  <1>13. u * (n - 1) = u * n - u
    BY <1>11
  <1>14. QED
    BY <1>10, <1>11, <1>12, <1>13

\* A common factor.
LEMMA SumTimes ==
  ASSUME NEW f, NEW h, NEW S, IsFiniteSet(S), NEW u \in Int, \A x \in S : f[x] \in Int /\ h[x] = f[x] * u
  PROVE  SumOf(h, S) = SumOf(f, S) * u
  <1> DEFINE Good(s) == SumOf(h, s) = SumOf(f, s) * u
             B == {s \in SUBSET S : ~Good(s)}
  <1>1. \A s \in SUBSET S : IsFiniteSet(s)
    BY FS_Subset
  <1>2. SUFFICES ASSUME B # {} PROVE FALSE
    OBVIOUS
  <1>3. PICK s \in B : \A t \in B : ~(Cardinality(t) < Cardinality(s))
    <2>1. \A s \in B : IsFiniteSet(s)
      BY <1>1
    <2> HIDE DEF B
    <2>2. QED
      BY <1>2, <2>1, SmallestSet
  <1>4. s \in SUBSET S /\ IsFiniteSet(s) /\ ~Good(s)
    BY <1>1, <1>3
  <1>5. s # {}
    <2>1. SumOf(f, {}) = 0 /\ SumOf(h, {}) = 0 /\ 0 * u = 0
      BY SumEmpty
    <2>2. QED
      BY <1>4, <2>1
  <1>6. PICK x \in s : TRUE
    BY <1>5
  <1> DEFINE r == s \ {x}
  <1>7. r \in SUBSET s /\ Cardinality(r) < Cardinality(s)
    BY <1>4, <1>6, WithoutOne
  <1>8. Good(r)
    BY <1>3, <1>4, <1>7
  <1>9. \A y \in s : f[y] \in Int /\ h[y] \in Int /\ h[y] = f[y] * u
    BY <1>4
  <1>10. /\ SumOf(f, r) = SumOf(f, s) - f[x] /\ SumOf(h, r) = SumOf(h, s) - h[x]
         /\ SumOf(f, s) \in Int /\ SumOf(h, s) \in Int
    BY <1>4, <1>6, <1>9, SumRemove, SumType
  <1> HIDE DEF r
  <1> DEFINE a == SumOf(f, s)
             b == SumOf(h, s)
             v == f[x]
  <1>11. a \in Int /\ b \in Int /\ v \in Int /\ b - v * u = (a - v) * u /\ b # a * u
    BY <1>4, <1>6, <1>8, <1>9, <1>10
  <1> HIDE DEF a, b, v, Good
  <1>12. (a - v) * u = a * u - v * u /\ a * u \in Int /\ v * u \in Int
    BY <1>11
  <1>13. QED
    BY <1>11, <1>12

\* g has the sums of f over the parts of S, one for each value of h.
SummedBy(f, S, h, g, D) == \A d \in D : g[d] = SumOf(f, {y \in S : h[y] = d})

\* What is summed up in parts is summed up once.
LEMMA SumPartition ==
  ASSUME NEW f, NEW S, IsFiniteSet(S), \A y \in S : f[y] \in Int,
         NEW D, IsFiniteSet(D), NEW h, \A y \in S : h[y] \in D,
         NEW g, SummedBy(f, S, h, g, D)
  PROVE  SumOf(g, D) = SumOf(f, S)
  <1> DEFINE Part(e) == {y \in S : h[y] \in e}
             At(d) == {y \in S : h[y] = d}
             B == {e \in SUBSET D : SumOf(g, e) # SumOf(f, Part(e))}
  <1>1. \A s \in SUBSET S : IsFiniteSet(s) /\ SumOf(f, s) \in Int
    <2>1. SUFFICES ASSUME NEW s \in SUBSET S
                   PROVE  IsFiniteSet(s) /\ SumOf(f, s) \in Int
      OBVIOUS
    <2>2. IsFiniteSet(s)
      BY FS_Subset
    <2>3. QED
      BY <2>2, SumType
  <1>2. \A d \in D : At(d) \in SUBSET S /\ g[d] = SumOf(f, At(d)) /\ g[d] \in Int
    BY <1>1 DEF SummedBy
  <1>3. B = {}
    <2>1. SUFFICES ASSUME B # {} PROVE FALSE
      OBVIOUS
    <2>2. \A e \in B : IsFiniteSet(e)
      BY FS_Subset
    <2>3. PICK e \in B : \A t \in B : ~(Cardinality(t) < Cardinality(e))
      <3> HIDE DEF B
      <3> QED BY <2>1, <2>2, SmallestSet
    <2>4. e \in SUBSET D /\ IsFiniteSet(e) /\ SumOf(g, e) # SumOf(f, Part(e))
      BY <2>2, <2>3
    <2>5. e # {}
      <3>1. SUFFICES ASSUME e = {} PROVE FALSE
        OBVIOUS
      <3>2. Part(e) = {}
        BY <3>1
      <3>3. SumOf(g, e) = 0 /\ SumOf(f, Part(e)) = 0
        <4> HIDE DEF Part
        <4> QED BY <3>1, <3>2, SumEmpty
      <3>4. QED
        BY <2>4, <3>3
    <2>6. PICK x : x \in e
      BY <2>5
    <2> DEFINE v == e \ {x}
    <2>7. Cardinality(v) < Cardinality(e) /\ v \in SUBSET D /\ x \in D
      BY <2>4, <2>6, WithoutOne
    <2>8. SumOf(g, v) = SumOf(f, Part(v))
      <3>1. v \notin B
        <4> HIDE DEF B, v
        <4> QED BY <2>3, <2>7
      <3>2. QED
        BY <2>7, <3>1
    <2>9. SumOf(g, v) = SumOf(g, e) - g[x]
      <3>1. \A d \in e : g[d] \in Int
        <4> HIDE DEF At
        <4> QED BY <1>2, <2>4
      <3>2. QED
        BY <2>4, <2>6, <3>1, SumRemove
    <2>10. /\ Part(e) \in SUBSET S /\ Part(v) \in SUBSET S
           /\ At(x) \in SUBSET Part(e) /\ Part(e) \ At(x) = Part(v)
      BY <2>6
    <2>11. SumOf(f, Part(e)) = SumOf(f, Part(e) \ At(x)) + SumOf(f, At(x))
      <3>1. IsFiniteSet(Part(e)) /\ \A y \in Part(e) : f[y] \in Int
        BY <1>1, <2>10
      <3> HIDE DEF Part, At
      <3>2. QED
        BY <2>10, <3>1, SumSplit
    <2>12. SumOf(f, Part(e) \ At(x)) = SumOf(f, Part(v))
      <3> HIDE DEF Part, At
      <3> QED BY <2>10
    <2>13. /\ SumOf(f, Part(e)) \in Int /\ SumOf(f, Part(v)) \in Int
           /\ g[x] = SumOf(f, At(x)) /\ g[x] \in Int
      <3> HIDE DEF Part, At
      <3> QED BY <1>1, <1>2, <2>7, <2>10
    <2>14. SumOf(g, e) \in Int
      <3>1. \A d \in e : g[d] \in Int
        <4> HIDE DEF At
        <4> QED BY <1>2, <2>4
      <3>2. QED
        BY <2>4, <3>1, SumType
    <2> HIDE DEF B, Part, At, v
    <2>15. QED
      BY <2>4, <2>8, <2>9, <2>11, <2>12, <2>13, <2>14
  <1>4. SumOf(g, D) = SumOf(f, Part(D))
    BY <1>3
  <1>5. Part(D) = S
    OBVIOUS
  <1> HIDE DEF Part
  <1>6. QED
    BY <1>4, <1>5

\* A sum of multiples of u is one.
LEMMA SumMultiple ==
  ASSUME NEW f, NEW S, IsFiniteSet(S), NEW u \in Int, \A x \in S : \E k \in Int : f[x] = k * u
  PROVE  \E k \in Int : SumOf(f, S) = k * u
  <1> DEFINE M(v) == \E k \in Int : v = k * u
             B == {s \in SUBSET S : ~M(SumOf(f, s))}
  <1>1. \A s \in SUBSET S : IsFiniteSet(s)
    BY FS_Subset
  <1>2. SUFFICES ASSUME B # {} PROVE FALSE
    OBVIOUS
  <1>3. \A s \in B : IsFiniteSet(s)
    BY <1>1
  <1>4. PICK s \in B : \A t \in B : ~(Cardinality(t) < Cardinality(s))
    <2> HIDE DEF B
    <2> QED BY <1>2, <1>3, SmallestSet
  <1>5. s \in SUBSET S /\ IsFiniteSet(s) /\ ~M(SumOf(f, s))
    BY <1>1, <1>4
  <1>6. s # {}
    <2>1. M(0)
      <3>1. 0 = 0 * u
        OBVIOUS
      <3>2. QED
        BY <3>1
    <2>2. QED
      BY <1>5, <2>1, SumEmpty
  <1>7. /\ Pick(s) \in s /\ s \ {Pick(s)} \in SUBSET s
        /\ Cardinality(s \ {Pick(s)}) < Cardinality(s)
    BY <1>5, <1>6, PickOne
  <1>8. M(SumOf(f, s \ {Pick(s)}))
    BY <1>4, <1>5, <1>7
  <1>9. SumOf(f, s) = f[Pick(s)] + SumOf(f, s \ {Pick(s)})
    BY <1>5, <1>6, SumStep
  <1>10. PICK a \in Int : SumOf(f, s \ {Pick(s)}) = a * u
    BY <1>8
  <1>11. PICK b \in Int : f[Pick(s)] = b * u
    BY <1>5, <1>7
  <1>12. SumOf(f, s) = (a + b) * u
    <2>1. b * u + a * u = (a + b) * u
      OBVIOUS
    <2>2. QED
      BY <1>9, <1>10, <1>11, <2>1
  <1>13. QED
    BY <1>5, <1>12

\* Of finitely many numbers one is the least.
LEMMA SmallestValue ==
  ASSUME NEW f, NEW S, IsFiniteSet(S), S # {}, \A x \in S : f[x] \in Int
  PROVE  \E x \in S : \A y \in S : f[x] <= f[y]
  <1> DEFINE Least(s, x) == x \in s /\ \A y \in s : f[x] <= f[y]
             B == {s \in SUBSET S : s # {} /\ ~\E x : Least(s, x)}
  <1>1. \A s \in SUBSET S : IsFiniteSet(s)
    BY FS_Subset
  <1>2. SUFFICES ASSUME B # {} PROVE FALSE
    OBVIOUS
  <1>3. \A s \in B : IsFiniteSet(s)
    BY <1>1
  <1>4. PICK s \in B : \A t \in B : ~(Cardinality(t) < Cardinality(s))
    <2> HIDE DEF B
    <2> QED BY <1>2, <1>3, SmallestSet
  <1>5. s \in SUBSET S /\ IsFiniteSet(s) /\ s # {} /\ ~\E x : Least(s, x)
    BY <1>1, <1>4
  <1>6. /\ Pick(s) \in s /\ s \ {Pick(s)} \in SUBSET s
        /\ Cardinality(s \ {Pick(s)}) < Cardinality(s)
    BY <1>5, PickOne
  <1>7. CASE s \ {Pick(s)} = {}
    <2>1. Least(s, Pick(s))
      BY <1>5, <1>6, <1>7
    <2>2. QED
      BY <1>5, <2>1
  <1>8. CASE s \ {Pick(s)} # {}
    <2>1. PICK x : Least(s \ {Pick(s)}, x)
      BY <1>4, <1>5, <1>6, <1>8
    <2>2. x \in S /\ Pick(s) \in S /\ f[x] \in Int /\ f[Pick(s)] \in Int
      BY <1>5, <1>6, <2>1
    <2>3. CASE f[x] <= f[Pick(s)]
      <3>1. Least(s, x)
        BY <2>1, <2>3
      <3>2. QED
        BY <1>5, <3>1
    <2>4. CASE ~(f[x] <= f[Pick(s)])
      <3>1. Least(s, Pick(s))
        BY <1>5, <1>6, <2>1, <2>2, <2>4
      <3>2. QED
        BY <1>5, <3>1
    <2>5. QED
      BY <2>3, <2>4
  <1>9. QED
    BY <1>7, <1>8

-----------------------------------------------------------------------------
(* Sums of sums, the largest of some numbers, and ranks.                    *)

\* What is added to each element is added to the sum.
LEMMA SumPlus ==
  ASSUME NEW f, NEW g, NEW h, NEW S, IsFiniteSet(S),
         \A x \in S : f[x] \in Int /\ g[x] \in Int /\ h[x] = f[x] + g[x]
  PROVE  SumOf(h, S) = SumOf(f, S) + SumOf(g, S)
  <1> DEFINE Good(s) == SumOf(h, s) = SumOf(f, s) + SumOf(g, s)
             B == {s \in SUBSET S : ~Good(s)}
  <1>1. \A s \in SUBSET S : IsFiniteSet(s)
    BY FS_Subset
  <1>2. SUFFICES ASSUME B # {} PROVE FALSE
    OBVIOUS
  <1>3. \A s \in B : IsFiniteSet(s)
    BY <1>1
  <1>4. PICK s \in B : \A t \in B : ~(Cardinality(t) < Cardinality(s))
    <2> HIDE DEF B
    <2> QED BY <1>2, <1>3, SmallestSet
  <1>5. s \in SUBSET S /\ IsFiniteSet(s) /\ ~Good(s)
    BY <1>1, <1>4
  <1>6. s # {}
    BY <1>5, SumEmpty
  <1> DEFINE x == Pick(s)
             r == s \ {Pick(s)}
  <1>7. x \in s /\ r \in SUBSET s /\ IsFiniteSet(r) /\ Cardinality(r) < Cardinality(s)
    <2> HIDE DEF B
    <2> QED BY <1>5, <1>6, PickOne
  <1>8. Good(r)
    BY <1>4, <1>5, <1>7
  <1>9. SumOf(f, r) \in Int /\ SumOf(g, r) \in Int
    <2> HIDE DEF r
    <2> QED BY <1>5, <1>7, SumType
  <1>10. /\ SumOf(h, s) = h[x] + SumOf(h, r) /\ SumOf(f, s) = f[x] + SumOf(f, r)
         /\ SumOf(g, s) = g[x] + SumOf(g, r)
    BY <1>5, <1>6, SumStep
  <1>11. x \in S
    BY <1>5, <1>7
  <1> HIDE DEF x, r, B
  <1>12. QED
    BY <1>5, <1>8, <1>9, <1>10, <1>11

\* What is taken off.
LEMMA SumNegate ==
  ASSUME NEW f, NEW g, NEW S, IsFiniteSet(S), \A x \in S : f[x] \in Int /\ g[x] = -f[x]
  PROVE  SumOf(g, S) = -SumOf(f, S)
  <1> DEFINE h == [x \in S |-> 0]
  <1>1. \A x \in S : f[x] \in Int /\ g[x] \in Int /\ h[x] = f[x] + g[x] /\ h[x] = 0
    OBVIOUS
  <1> HIDE DEF h
  <1>2. SumOf(h, S) = SumOf(f, S) + SumOf(g, S)
    BY <1>1, SumPlus
  <1>3. SumOf(h, S) = 0
    BY <1>1, SumZero
  <1>4. SumOf(f, S) \in Int /\ SumOf(g, S) \in Int
    BY <1>1, SumType
  <1>5. QED
    BY <1>2, <1>3, <1>4

\* A sum that changes by v on S and by the new elements of N.
LEMMA SumChange ==
  ASSUME NEW D, IsFiniteSet(D), NEW N, IsFiniteSet(N), D \cap N = {}, NEW S \in SUBSET D,
         NEW f, \A x \in D : f[x] \in Int, NEW g,
         NEW u, \A x \in N : u[x] \in Int /\ g[x] = u[x],
         NEW v, \A x \in S : v[x] \in Int /\ g[x] = f[x] + v[x],
         \A x \in D \ S : g[x] = f[x]
  PROVE  SumOf(g, D \cup N) = SumOf(f, D) + SumOf(u, N) + SumOf(v, S)
  <1> DEFINE A == D \cup N
             R == D \ S
  <1>1. IsFiniteSet(A) /\ N \in SUBSET A /\ A \ N = D
    BY FS_Union
  <1>2. IsFiniteSet(S) /\ IsFiniteSet(R) /\ R \in SUBSET D
    BY FS_Subset
  <1>3. \A x \in D : g[x] \in Int
    OBVIOUS
  <1>4. \A x \in A : g[x] \in Int
    BY <1>3
  <1>5. \A x \in S : f[x] \in Int /\ v[x] \in Int /\ g[x] = f[x] + v[x]
    OBVIOUS
  <1>6. \A x \in R : g[x] = f[x] /\ f[x] \in Int
    OBVIOUS
  <1> HIDE DEF A, R
  <1>7. SumOf(g, A) = SumOf(g, A \ N) + SumOf(g, N)
    BY <1>1, <1>4, SumSplit
  <1>8. SumOf(g, D) = SumOf(g, D \ S) + SumOf(g, S) /\ SumOf(f, D) = SumOf(f, D \ S) + SumOf(f, S)
    BY <1>3, SumSplit
  <1>9. SumOf(g, N) = SumOf(u, N)
    BY SumSame
  <1>10. SumOf(g, S) = SumOf(f, S) + SumOf(v, S)
    BY <1>2, <1>5, SumPlus
  <1>11. SumOf(g, R) = SumOf(f, R)
    BY <1>2, <1>6, SumSame
  <1>12. SumOf(f, R) \in Int /\ SumOf(f, S) \in Int /\ SumOf(v, S) \in Int
    BY <1>2, <1>5, <1>6, SumType
  <1>13. SumOf(u, N) \in Int
    BY SumType
  <1>14. SumOf(g, A \ N) = SumOf(g, D)
    BY <1>1, Zenon
  <1>15. SumOf(g, A) = SumOf(f, D) + SumOf(u, N) + SumOf(v, S)
    <2>1. SumOf(g, D) = SumOf(g, R) + SumOf(g, S) /\ SumOf(f, D) = SumOf(f, R) + SumOf(f, S)
      BY <1>8 DEF R
    <2>2. QED
      BY <1>7, <1>9, <1>10, <1>11, <1>12, <1>13, <1>14, <2>1
  <1>16. QED
    BY <1>15 DEF A

\* Only what is not nothing counts.
LEMMA SumSupport ==
  ASSUME NEW D, IsFiniteSet(D), NEW S \in SUBSET D, NEW f, \A x \in D : f[x] \in Int,
         \A x \in D \ S : f[x] = 0, NEW g, \A x \in S : g[x] = f[x]
  PROVE  SumOf(g, S) = SumOf(f, D)
  <1>1. IsFiniteSet(S) /\ IsFiniteSet(D \ S)
    BY FS_Subset
  <1>2. SumOf(f, D) = SumOf(f, D \ S) + SumOf(f, S)
    BY SumSplit
  <1>3. SumOf(f, D \ S) = 0
    BY <1>1, SumZero
  <1>4. SumOf(g, S) = SumOf(f, S)
    BY <1>1, SumSame
  <1>5. SumOf(f, S) \in Int
    BY <1>1, SumType
  <1>6. QED
    BY <1>2, <1>3, <1>4, <1>5

\* Finitely many integers have a largest one.
LEMMA LargestNumber ==
  ASSUME NEW S \in SUBSET Int, IsFiniteSet(S), S # {}
  PROVE  Max(S) \in S /\ \A y \in S : y <= Max(S)
  <1> DEFINE f == [x \in S |-> -x]
  <1>1. \A x \in S : f[x] \in Int /\ f[x] = -x
    OBVIOUS
  <1> HIDE DEF f
  <1>2. PICK x \in S : \A y \in S : f[x] <= f[y]
    BY <1>1, SmallestValue
  <1>3. \A y \in S : x >= y
    BY <1>1, <1>2
  <1>4. Max(S) \in S /\ \A y \in S : Max(S) >= y
    BY <1>3 DEF Max
  <1>5. QED
    BY <1>4

\* That number is the only one of its kind.
LEMMA LargestIs ==
  ASSUME NEW S \in SUBSET Int, IsFiniteSet(S), NEW x \in S, \A y \in S : y <= x
  PROVE  Max(S) = x
  <1>1. Max(S) \in S /\ \A y \in S : y <= Max(S)
    BY LargestNumber
  <1>2. Max(S) \in Int /\ x \in Int /\ x <= Max(S) /\ Max(S) <= x
    BY <1>1
  <1>3. QED
    BY <1>2

\* R orders S: an element is below itself never, and of two elements one is
\* below the other.
Orders(R, S) ==
  /\ \A x \in S : <<x, x>> \notin R
  /\ \A x, y \in S : x # y => <<x, y>> \in R \/ <<y, x>> \in R
  /\ \A x, y, z \in S : <<x, y>> \in R /\ <<y, z>> \in R => <<x, z>> \in R
Below(R, S, x) == {y \in S : <<y, x>> \in R}

\* What is higher has more below it.
LEMMA RankGrows ==
  ASSUME NEW S, IsFiniteSet(S), NEW R, Orders(R, S), NEW x \in S, NEW y \in S, <<x, y>> \in R
  PROVE  /\ Cardinality(Below(R, S, x)) \in Nat /\ Cardinality(Below(R, S, y)) \in Nat
         /\ Cardinality(Below(R, S, x)) < Cardinality(Below(R, S, y))
  <1> DEFINE A == Below(R, S, x)
             B == Below(R, S, y)
  <1>1. A \in SUBSET S /\ B \in SUBSET S
    BY DEF Below
  <1>2. A \in SUBSET B /\ x \in B /\ x \notin A
    BY DEF Below, Orders
  <1> HIDE DEF A, B
  <1>3. IsFiniteSet(A) /\ IsFiniteSet(B)
    BY <1>1, FS_Subset
  <1>4. Cardinality(A) <= Cardinality(B) /\ Cardinality(A) # Cardinality(B)
    BY <1>2, <1>3, FS_Subset
  <1>5. Cardinality(A) \in Nat /\ Cardinality(B) \in Nat
    BY <1>3, FS_CardinalityType
  <1>6. QED
    BY <1>4, <1>5 DEF A, B

\* Every rank is that of one element.
LEMMA RankIsTaken ==
  ASSUME NEW S, IsFiniteSet(S), NEW R, Orders(R, S), NEW i \in 1..Cardinality(S)
  PROVE  \E x \in S : Cardinality(Below(R, S, x)) = i - 1
  <1> DEFINE n == Cardinality(S)
             T == 0..(n - 1)
             f == [x \in S |-> Cardinality(Below(R, S, x))]
  <1>1. n \in Nat
    BY FS_CardinalityType
  <1>2. IsFiniteSet(T) /\ Cardinality(T) = n
    <2>1. n - 1 \in Int /\ (0 > n - 1 => n = 0) /\ (~(0 > n - 1) => (n - 1) - 0 + 1 = n)
      BY <1>1
    <2> HIDE DEF n
    <2>2. QED
      BY <2>1, FS_Interval
  <1>3. \A x \in S : f[x] \in T
    <2>1. SUFFICES ASSUME NEW x \in S PROVE Cardinality(Below(R, S, x)) \in T
      OBVIOUS
    <2>2. Below(R, S, x) \in SUBSET S /\ x \notin Below(R, S, x)
      BY DEF Below, Orders
    <2>3. /\ Cardinality(Below(R, S, x)) <= n /\ Cardinality(Below(R, S, x)) # n
          /\ IsFiniteSet(Below(R, S, x))
      BY <2>2, FS_Subset
    <2>4. Cardinality(Below(R, S, x)) \in Nat
      BY <2>3, FS_CardinalityType
    <2> HIDE DEF n
    <2>5. QED
      BY <1>1, <2>3, <2>4
  <1>4. \A x, y \in S : x # y => f[x] # f[y]
    <2>1. SUFFICES ASSUME NEW x \in S, NEW y \in S, <<x, y>> \in R
                   PROVE  f[x] # f[y] /\ f[y] # f[x]
      BY DEF Orders
    <2>2. QED
      BY <2>1, RankGrows
  <1>5. f \in Injection(S, T)
    <2> HIDE DEF T
    <2>1. f \in [S -> T]
      BY <1>3
    <2> HIDE DEF f
    <2>2. QED
      BY <1>4, <2>1 DEF Injection, IsInjective
  <1>6. f \in Surjection(S, T)
    <2> HIDE DEF f, T
    <2> QED BY <1>2, <1>5, FS_Injection
  <1>7. i - 1 \in T
    BY <1>1
  <1>8. PICK x \in S : f[x] = i - 1
    BY <1>6, <1>7 DEF Surjection
  <1>9. QED
    BY <1>8

\* q has the elements by rank.
Ranked(R, S, q) ==
  \A i \in 1..Cardinality(S) : q[i] \in S /\ Cardinality(Below(R, S, q[i])) = i - 1

\* A sequence by rank is in order and has every element.
LEMMA RankedOrder ==
  ASSUME NEW S, IsFiniteSet(S), NEW R, Orders(R, S), NEW q, Ranked(R, S, q)
  PROVE  /\ \A i, j \in 1..Cardinality(S) : i < j <=> <<q[i], q[j]>> \in R
         /\ \A x \in S : \E i \in 1..Cardinality(S) : q[i] = x
  <1> DEFINE n == Cardinality(S)
             rank(x) == Cardinality(Below(R, S, x))
  <1>1. n \in Nat
    BY FS_CardinalityType
  <1>2. \A x, y \in S : <<x, y>> \in R => rank(x) \in Nat /\ rank(y) \in Nat /\ rank(x) < rank(y)
    BY RankGrows
  <1>3. ASSUME NEW i \in 1..n, NEW j \in 1..n
        PROVE  i < j <=> <<q[i], q[j]>> \in R
    <2>1. q[i] \in S /\ q[j] \in S /\ rank(q[i]) = i - 1 /\ rank(q[j]) = j - 1
      BY DEF Ranked
    <2> HIDE DEF rank, n
    <2>2. i \in Int /\ j \in Int
      BY <1>1
    <2>3. ASSUME <<q[i], q[j]>> \in R PROVE i < j
      BY <1>2, <2>1, <2>2, <2>3
    <2>4. ASSUME i < j PROVE <<q[i], q[j]>> \in R
      <3>1. q[i] # q[j]
        BY <2>1, <2>2, <2>4
      <3>2. ~(<<q[j], q[i]>> \in R)
        BY <1>2, <2>1, <2>2, <2>4
      <3>3. QED
        BY <2>1, <3>1, <3>2 DEF Orders
    <2>5. QED
      BY <2>3, <2>4
  <1>4. ASSUME NEW x \in S
        PROVE  \E i \in 1..n : q[i] = x
    <2>1. Below(R, S, x) \in SUBSET S /\ x \notin Below(R, S, x)
      BY DEF Below, Orders
    <2>2. rank(x) <= n /\ rank(x) # n /\ IsFiniteSet(Below(R, S, x))
      BY <2>1, FS_Subset
    <2>3. rank(x) \in Nat
      BY <2>2, FS_CardinalityType
    <2>4. rank(x) + 1 \in 1..n
      <3> HIDE DEF rank, n
      <3> QED BY <1>1, <2>2, <2>3
    <2>5. q[rank(x) + 1] \in S /\ rank(q[rank(x) + 1]) = (rank(x) + 1) - 1
      BY <2>4 DEF Ranked
    <2> DEFINE y == q[rank(x) + 1]
    <2>6. rank(y) = rank(x)
      BY <2>3, <2>5
    <2>7. y = x
      <3> HIDE DEF rank, y
      <3>1. ~(<<x, y>> \in R) /\ ~(<<y, x>> \in R)
        BY <1>2, <2>3, <2>5, <2>6 DEF y
      <3>2. QED
        BY <2>5, <3>1 DEF Orders, y
    <2>8. QED
      BY <2>4, <2>7
  <1>5. QED
    BY <1>3, <1>4

\* The numbers up to k, without the last.
LEMMA IntervalTop ==
  ASSUME NEW k \in Nat, k # 0
  PROVE  1..k # {} /\ Max(1..k) = k /\ (1..k) \ {k} = 1..(k - 1)
  <1>1. k \in 1..k /\ 1..k \in SUBSET Int /\ \A y \in 1..k : y <= k
    OBVIOUS
  <1>2. IsFiniteSet(1..k)
    BY FS_Interval
  <1>3. Max(1..k) = k
    BY <1>1, <1>2, LargestIs
  <1>4. (1..k) \ {k} = 1..(k - 1)
    OBVIOUS
  <1>5. QED
    BY <1>1, <1>3, <1>4

\* Max chooses an element of each set of such numbers.
LEMMA IntervalMax ==
  ASSUME NEW n \in Nat
  PROVE  IsFiniteSet(1..n) /\ \A s \in SUBSET (1..n) : s # {} => Max(s) \in s
  <1>1. IsFiniteSet(1..n)
    BY FS_Interval
  <1>2. ASSUME NEW s \in SUBSET (1..n), s # {}
        PROVE  Max(s) \in s
    <2>1. IsFiniteSet(s)
      BY <1>1, FS_Subset
    <2>2. s \in SUBSET Int
      OBVIOUS
    <2>3. QED
      BY <1>2, <2>1, <2>2, LargestNumber
  <1>3. QED
    BY <1>1, <1>2

-----------------------------------------------------------------------------
(* Folds: F takes what there is so far and the element that c chooses.      *)

FoldBody(F, base, c, h, s) == IF s = {} THEN base ELSE F[<<h[s \ {c[s]}], c[s]>>]
FoldRec(F, base, c, h, S) == h = [s \in SUBSET S |-> FoldBody(F, base, c, h, s)]

\* There is a function for the recursion.
LEMMA FoldExists ==
  ASSUME NEW F, NEW base, NEW S, IsFiniteSet(S), NEW c, \A s \in SUBSET S : s # {} => c[s] \in s
  PROVE  \E h : FoldRec(F, base, c, h, S)
  <1> DEFINE T(n) == {s \in SUBSET S : Cardinality(s) <= n}
             E(n) == \E h : h = [s \in T(n) |-> FoldBody(F, base, c, h, s)]
             D == {n \in Nat : ~E(n)}
  <1>1. \A s \in SUBSET S : IsFiniteSet(s) /\ Cardinality(s) \in Nat /\ Cardinality(s) <= Cardinality(S)
    BY FS_Subset, FS_CardinalityType
  <1>2. Cardinality(S) \in Nat
    BY FS_CardinalityType
  <1>3. E(0)
    <2>1. \A s : s \in T(0) <=> s = {}
      <3>1. \A s \in SUBSET S : s # {} => Cardinality(s) # 0
        BY <1>1, FS_EmptySet
      <3>2. Cardinality({}) = 0
        BY FS_EmptySet
      <3>3. \A s \in SUBSET S : s # {} => ~(Cardinality(s) <= 0)
        <4>1. SUFFICES ASSUME NEW s \in SUBSET S, s # {} PROVE ~(Cardinality(s) <= 0)
          OBVIOUS
        <4>2. Cardinality(s) \in Nat /\ Cardinality(s) # 0
          BY <1>1, <3>1, <4>1
        <4>3. QED
          BY <4>2
      <3>4. {} \in SUBSET S /\ Cardinality({}) <= 0
        BY <3>2
      <3>5. QED
        BY <3>3, <3>4
    <2> DEFINE h == [s \in T(0) |-> base]
    <2> HIDE DEF T
    <2>2. h = [s \in T(0) |-> FoldBody(F, base, c, h, s)]
      BY <2>1 DEF FoldBody
    <2> QED BY <2>2
  <1>4. ASSUME NEW n \in Nat, E(n)
        PROVE  E(n + 1)
    <2>1. PICK g : g = [s \in T(n) |-> FoldBody(F, base, c, g, s)]
      BY <1>4
    <2> DEFINE h == [s \in T(n + 1) |-> FoldBody(F, base, c, g, s)]
    <2>2. \A s \in T(n + 1) : s # {} => s \ {c[s]} \in T(n) /\ s \ {c[s]} \in T(n + 1)
      <3>1. SUFFICES ASSUME NEW s \in SUBSET S, Cardinality(s) <= n + 1, s # {}
                     PROVE  s \ {c[s]} \in T(n) /\ s \ {c[s]} \in T(n + 1)
        OBVIOUS
      <3>2. c[s] \in s /\ IsFiniteSet(s)
        BY <1>1, <3>1
      <3>3. /\ s \ {c[s]} \in SUBSET s /\ Cardinality(s) \in Nat
            /\ Cardinality(s \ {c[s]}) = Cardinality(s) - 1
        BY <3>2, WithoutOne
      <3>4. QED
        BY <3>1, <3>3
    <2> HIDE DEF T
    <2>3. \A s \in T(n) \cap T(n + 1) : h[s] = g[s]
      BY <2>1
    <2>4. \A s \in T(n + 1) : FoldBody(F, base, c, h, s) = FoldBody(F, base, c, g, s)
      BY <2>2, <2>3 DEF FoldBody
    <2>5. h = [s \in T(n + 1) |-> FoldBody(F, base, c, h, s)]
      BY <2>4
    <2>6. QED
      BY <2>5
  <1>5. \A n \in Nat : E(n)
    <2> HIDE DEF E
    <2>1. SUFFICES ASSUME D # {} PROVE FALSE
      OBVIOUS
    <2>2. PICK m \in D : \A d \in D : m <= d
      <3>1. D \in SUBSET Nat
        OBVIOUS
      <3> HIDE DEF D
      <3>2. QED
        BY <2>1, <3>1, SmallestNumber
    <2>3. m \in Nat /\ m # 0 /\ ~E(m)
      BY <1>3, <2>2
    <2>4. m - 1 \in Nat /\ E(m - 1) /\ (m - 1) + 1 = m
      BY <2>2, <2>3
    <2>5. QED
      BY <1>4, <2>3, <2>4
  <1>6. T(Cardinality(S)) = SUBSET S
    BY <1>1
  <1>7. QED
    BY <1>2, <1>5, <1>6 DEF FoldRec

\* It stays where F stays.
LEMMA FoldType ==
  ASSUME NEW S, IsFiniteSet(S), NEW c, \A s \in SUBSET S : s # {} => c[s] \in s,
         NEW V, NEW base \in V, NEW F \in [V \X S -> V], NEW h, FoldRec(F, base, c, h, S)
  PROVE  \A s \in SUBSET S : h[s] \in V
  <1> DEFINE B == {s \in SUBSET S : h[s] \notin V}
  <1>1. \A s \in SUBSET S : IsFiniteSet(s) /\ h[s] = FoldBody(F, base, c, h, s)
    BY FS_Subset DEF FoldRec
  <1>2. SUFFICES ASSUME B # {} PROVE FALSE
    OBVIOUS
  <1>3. \A s \in B : IsFiniteSet(s)
    BY <1>1
  <1>4. PICK s \in B : \A t \in B : ~(Cardinality(t) < Cardinality(s))
    <2> HIDE DEF B
    <2> QED BY <1>2, <1>3, SmallestSet
  <1>5. s \in SUBSET S /\ IsFiniteSet(s) /\ h[s] \notin V
    BY <1>1, <1>4
  <1>6. s # {}
    BY <1>1, <1>5 DEF FoldBody
  <1>7. c[s] \in s /\ c[s] \in S
    BY <1>5, <1>6
  <1>8. s \ {c[s]} \in SUBSET S /\ Cardinality(s \ {c[s]}) < Cardinality(s)
    <2>1. s \ {c[s]} \in SUBSET s /\ Cardinality(s \ {c[s]}) < Cardinality(s)
      BY <1>5, <1>7, WithoutOne
    <2>2. QED
      BY <1>5, <2>1
  <1>9. h[s \ {c[s]}] \in V
    BY <1>4, <1>8
  <1>10. h[s] = F[<<h[s \ {c[s]}], c[s]>>]
    BY <1>1, <1>5, <1>6 DEF FoldBody
  <1>11. QED
    BY <1>5, <1>7, <1>9, <1>10

-----------------------------------------------------------------------------
(* Arithmetic.                                                              *)

\* Products compare like their factors.
LEMMA Cancel ==
  ASSUME NEW a \in Int, NEW b \in Int, NEW q \in Nat \ {0}
  PROVE  /\ a * q <= b * q <=> a <= b
         /\ a * q < b * q <=> a < b
  <1>1. ASSUME a <= b PROVE a * q <= b * q
    BY <1>1
  <1>2. ASSUME a < b PROVE a * q < b * q
    BY <1>2
  <1>3. ASSUME b < a PROVE b * q < a * q
    BY <1>3
  <1>4. a = b => a * q = b * q
    OBVIOUS
  <1>5. a * q \in Int /\ b * q \in Int
    OBVIOUS
  <1>6. QED
    BY <1>2, <1>3, <1>4, <1>5

\* Rounding up.
LEMMA RoundedUp ==
  ASSUME NEW s \in Int, NEW q \in Nat \ {0}
  PROVE  /\ (s + q - 1) \div q \in Int
         /\ s <= ((s + q - 1) \div q) * q
         /\ ((s + q - 1) \div q) * q < s + q
  <1> DEFINE c == (s + q - 1) \div q
             r == (s + q - 1) % q
  <1>1. c \in Int /\ r \in Int /\ s + q - 1 = q * c + r /\ 0 <= r /\ r < q
    OBVIOUS
  <1> HIDE DEF c, r
  <1>2. c * q = s + q - 1 - r
    BY <1>1
  <1>3. c \in Int /\ s <= c * q /\ c * q < s + q
    BY <1>1, <1>2
  <1>4. QED
    BY <1>3 DEF c

\* Rounding down.
LEMMA RoundedDown ==
  ASSUME NEW a \in Nat, NEW b \in Nat \ {0}
  PROVE  a \div b \in Nat /\ (a \div b) * b <= a
  <1> DEFINE c == a \div b
             r == a % b
  <1>1. c \in Int /\ r \in Int /\ a = b * c + r /\ 0 <= r /\ r < b
    OBVIOUS
  <1>2. c \in Nat
    OBVIOUS
  <1> HIDE DEF c, r
  <1>3. c * b = a - r
    BY <1>1
  <1>4. c \in Nat /\ c * b <= a
    BY <1>1, <1>2, <1>3
  <1>5. QED
    BY <1>4 DEF c

\* s / q, rounded up, against a whole number k.
LEMMA RoundedUpOrder ==
  ASSUME NEW s \in Int, NEW q \in Nat \ {0}, NEW k \in Int
  PROVE  /\ s <= k * q => (s + q - 1) \div q <= k
         /\ s >= k * q => (s + q - 1) \div q >= k
  <1> DEFINE c == (s + q - 1) \div q
  <1>1. c \in Int /\ s <= c * q /\ c * q < s + q
    BY RoundedUp
  <1> HIDE DEF c
  <1>2. ASSUME s <= k * q PROVE c <= k
    <2>1. c * q < (k + 1) * q
      <3>1. (k + 1) * q = k * q + q /\ k * q \in Int /\ c * q \in Int
        BY <1>1
      <3>2. QED
        BY <1>1, <1>2, <3>1
    <2>2. c < k + 1
      BY <1>1, <2>1, Cancel
    <2>3. QED
      BY <1>1, <2>2
  <1>3. ASSUME s >= k * q PROVE c >= k
    <2>1. k * q <= c * q
      <3>1. k * q \in Int /\ c * q \in Int
        BY <1>1
      <3>2. QED
        BY <1>1, <1>3, <3>1
    <2>2. k <= c
      BY <1>1, <2>1, Cancel
    <2>3. QED
      BY <1>1, <2>2
  <1>4. QED
    BY <1>2, <1>3 DEF c
=============================================================================
