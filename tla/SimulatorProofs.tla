---------------------------- MODULE SimulatorProofs ----------------------------
(***************************************************************************)
(* Theorems about the simulator: its functions of time agree with its      *)
(* instances, the fleet reaches its target, every period is billed once at *)
(* the price of its beginning, and values, integrals and combinations of   *)
(* functions, from which reports are made, are right.                      *)
(***************************************************************************)
EXTENDS Simulator, SumTheorems

-----------------------------------------------------------------------------
(* Piecewise constant functions.                                            *)

\* Finitely many breakpoints, at integers and with integers.
Pwf == [initial : Int, breakpoints : UNION {[D -> Int] : D \in {E \in SUBSET Int : IsFiniteSet(E)}}]

\* The parts of a function.
LEMMA PwfParts ==
  ASSUME NEW f \in Pwf
  PROVE  /\ f.initial \in Int
         /\ DOMAIN f.breakpoints \in SUBSET Int /\ IsFiniteSet(DOMAIN f.breakpoints)
         /\ \A b \in DOMAIN f.breakpoints : b \in Int /\ f.breakpoints[b] \in Int
         /\ f.breakpoints \in [DOMAIN f.breakpoints -> Int]
         /\ f = [initial |-> f.initial, breakpoints |-> f.breakpoints]
  <1>1. /\ f.initial \in Int /\ f = [initial |-> f.initial, breakpoints |-> f.breakpoints]
        /\ f.breakpoints \in UNION {[D -> Int] : D \in {E \in SUBSET Int : IsFiniteSet(E)}}
    BY DEF Pwf
  <1>2. PICK D \in SUBSET Int : IsFiniteSet(D) /\ f.breakpoints \in [D -> Int]
    BY <1>1
  <1>3. QED
    BY <1>1, <1>2

\* A function of such parts.
LEMMA PwfMake ==
  ASSUME NEW a \in Int, NEW D \in SUBSET Int, IsFiniteSet(D), NEW b \in [D -> Int]
  PROVE  [initial |-> a, breakpoints |-> b] \in Pwf
  BY DEF Pwf

\* A constant.
LEMMA PwfConstant ==
  ASSUME NEW a \in Int
  PROVE  PiecewiseConstantFunction(a) \in Pwf /\ \A t \in Int : call(PiecewiseConstantFunction(a), t) = a
  <1>1. <<>> \in [{} -> Int]
    OBVIOUS
  <1>2. PiecewiseConstantFunction(a) \in Pwf
    BY <1>1, PwfMake, FS_EmptySet DEF PiecewiseConstantFunction
  <1>3. QED
    BY <1>2 DEF PiecewiseConstantFunction, call

\* Before the first breakpoint.
LEMMA CallNone ==
  ASSUME NEW f \in Pwf, NEW t \in Int, \A b \in DOMAIN f.breakpoints : ~(b <= t)
  PROVE  call(f, t) = f.initial
  BY DEF call

\* The last breakpoint that is not later.
LEMMA CallIs ==
  ASSUME NEW f \in Pwf, NEW t \in Int, NEW b \in DOMAIN f.breakpoints, b <= t,
         \A c \in DOMAIN f.breakpoints : c <= t => c <= b
  PROVE  call(f, t) = f.breakpoints[b]
  <1> DEFINE S == {c \in DOMAIN f.breakpoints : c <= t}
  <1>1. S \in SUBSET DOMAIN f.breakpoints /\ b \in S /\ \A c \in S : c <= b
    OBVIOUS
  <1>2. S \in SUBSET Int /\ IsFiniteSet(S)
    <2> HIDE DEF S
    <2> QED BY <1>1, PwfParts, FS_Subset
  <1>3. Max(S) = b
    <2> HIDE DEF S
    <2> QED BY <1>1, <1>2, LargestIs
  <1>4. QED
    BY <1>1, <1>3 DEF call

\* There is one of the two.
LEMMA CallCases ==
  ASSUME NEW f \in Pwf, NEW t \in Int
  PROVE  \/ \A b \in DOMAIN f.breakpoints : ~(b <= t)
         \/ \E b \in DOMAIN f.breakpoints :
              b <= t /\ \A c \in DOMAIN f.breakpoints : c <= t => c <= b
  <1> DEFINE S == {c \in DOMAIN f.breakpoints : c <= t}
  <1>1. S \in SUBSET DOMAIN f.breakpoints
    OBVIOUS
  <1>2. S \in SUBSET Int /\ IsFiniteSet(S)
    <2> HIDE DEF S
    <2> QED BY <1>1, PwfParts, FS_Subset
  <1>3. CASE S # {}
    <2>1. Max(S) \in S /\ \A c \in S : c <= Max(S)
      <3> HIDE DEF S
      <3> QED BY <1>2, <1>3, LargestNumber
    <2>2. PICK b \in S : \A c \in S : c <= b
      <3> HIDE DEF S
      <3> QED BY <2>1
    <2>3. QED
      BY <2>2
  <1>4. QED
    BY <1>3

\* Values are integers.
LEMMA CallType ==
  ASSUME NEW f \in Pwf, NEW t \in Int
  PROVE  call(f, t) \in Int
  <1>1. CASE \A b \in DOMAIN f.breakpoints : ~(b <= t)
    BY <1>1, CallNone, PwfParts
  <1>2. CASE \E b \in DOMAIN f.breakpoints : b <= t /\ \A c \in DOMAIN f.breakpoints : c <= t => c <= b
    BY <1>2, CallIs, PwfParts
  <1>3. QED
    BY <1>1, <1>2, CallCases

\* Nothing changes without a breakpoint.
LEMMA CallSame ==
  ASSUME NEW f \in Pwf, NEW x \in Int, NEW t \in Int, x <= t,
         \A b \in DOMAIN f.breakpoints : ~(x < b /\ b <= t)
  PROVE  call(f, t) = call(f, x)
  <1>1. \A b \in DOMAIN f.breakpoints : b \in Int /\ (b <= x <=> b <= t)
    BY PwfParts
  <1>2. {b \in DOMAIN f.breakpoints : b <= x} = {b \in DOMAIN f.breakpoints : b <= t}
    BY <1>1
  <1>3. QED
    BY <1>2 DEF call

\* A breakpoint more.
LEMMA SetParts ==
  ASSUME NEW f \in Pwf, NEW x \in Int, NEW y \in Int
  PROVE  /\ Set(f, x, y) \in Pwf /\ Set(f, x, y).initial = f.initial
         /\ DOMAIN Set(f, x, y).breakpoints = DOMAIN f.breakpoints \cup {x}
         /\ Set(f, x, y).breakpoints[x] = y
         /\ \A b \in DOMAIN f.breakpoints : b # x => Set(f, x, y).breakpoints[b] = f.breakpoints[b]
  <1> DEFINE D == DOMAIN f.breakpoints \cup {x}
             g == [b \in D |-> IF b = x THEN y ELSE f.breakpoints[b]]
  <1>1. Set(f, x, y) = [initial |-> f.initial, breakpoints |-> g]
    <2>1. f = [initial |-> f.initial, breakpoints |-> f.breakpoints]
      BY PwfParts
    <2>2. QED
      BY <2>1 DEF Set
  <1>2. D \in SUBSET Int /\ IsFiniteSet(D) /\ g \in [D -> Int]
    BY PwfParts, FS_AddElement
  <1>3. [initial |-> f.initial, breakpoints |-> g] \in Pwf
    <2> HIDE DEF D, g
    <2> QED BY <1>2, PwfParts, PwfMake
  <1>4. QED
    BY <1>1, <1>3

\* At t the value is still the one of x.
HoldsFrom(f, x, t) == x <= t /\ \A b \in DOMAIN f.breakpoints : ~(x < b /\ b <= t)

\* add_breakpoint makes a function with at most one breakpoint more.
LEMMA AddBreakpoint ==
  ASSUME NEW f \in Pwf, NEW x \in Int, NEW y \in Int
  PROVE  /\ add_breakpoint(f, x, y) \in Pwf
         /\ DOMAIN f.breakpoints \in SUBSET DOMAIN add_breakpoint(f, x, y).breakpoints
         /\ DOMAIN add_breakpoint(f, x, y).breakpoints \in SUBSET (DOMAIN f.breakpoints \cup {x})
  BY SetParts DEF add_breakpoint

\* It has the value from there on to its next breakpoint.
LEMMA BreakpointCall ==
  ASSUME NEW f \in Pwf, NEW x \in Int, NEW y \in Int, NEW t \in Int
  PROVE  /\ HoldsFrom(f, x, t) => call(add_breakpoint(f, x, y), t) = y
         /\ ~HoldsFrom(f, x, t) => call(add_breakpoint(f, x, y), t) = call(f, t)
  <1> DEFINE h == add_breakpoint(f, x, y)
  <1>1. CASE call(f, x) = y
    <2>1. h = f
      BY <1>1 DEF add_breakpoint
    <2>2. QED
      BY <1>1, <2>1, CallSame DEF HoldsFrom
  <1>2. CASE call(f, x) # y
    <2>1. h = Set(f, x, y)
      BY <1>2 DEF add_breakpoint
    <2>2. /\ h \in Pwf /\ h.initial = f.initial /\ DOMAIN h.breakpoints = DOMAIN f.breakpoints \cup {x}
          /\ h.breakpoints[x] = y /\ \A b \in DOMAIN f.breakpoints : b # x => h.breakpoints[b] = f.breakpoints[b]
      BY <2>1, SetParts
    <2> HIDE DEF h
    <2>3. \A b \in DOMAIN f.breakpoints : b \in Int
      BY PwfParts
    <2>4. SUFFICES call(h, t) = IF HoldsFrom(f, x, t) THEN y ELSE call(f, t)
      BY DEF h
    <2>5. CASE HoldsFrom(f, x, t)
      <3>1. x \in DOMAIN h.breakpoints /\ \A c \in DOMAIN h.breakpoints : c <= t => c <= x
        BY <2>2, <2>3, <2>5 DEF HoldsFrom
      <3>2. call(h, t) = h.breakpoints[x]
        BY <2>2, <2>5, <3>1, CallIs DEF HoldsFrom
      <3>3. QED
        BY <2>2, <2>5, <3>2
    <2>6. CASE x <= t /\ ~HoldsFrom(f, x, t)
      <3>1. PICK b \in DOMAIN f.breakpoints : x < b /\ b <= t
        BY <2>6 DEF HoldsFrom
      <3>2. PICK c \in DOMAIN f.breakpoints : c <= t /\ \A d \in DOMAIN f.breakpoints : d <= t => d <= c
        BY <3>1, CallCases
      <3>3. x < c
        BY <2>3, <3>1, <3>2
      <3>4. call(f, t) = f.breakpoints[c]
        BY <3>2, CallIs
      <3>5. c \in DOMAIN h.breakpoints /\ \A d \in DOMAIN h.breakpoints : d <= t => d <= c
        BY <2>2, <2>3, <3>2, <3>3
      <3>6. call(h, t) = h.breakpoints[c]
        BY <2>2, <3>2, <3>5, CallIs
      <3>7. QED
        BY <2>2, <2>3, <2>6, <3>3, <3>4, <3>6
    <2>7. CASE ~(x <= t)
      <3>1. CASE \A b \in DOMAIN f.breakpoints : ~(b <= t)
        <4>1. call(h, t) = h.initial /\ call(f, t) = f.initial
          BY <2>2, <2>7, <3>1, CallNone
        <4>2. QED
          BY <2>2, <2>7, <4>1 DEF HoldsFrom
      <3>2. CASE \E c \in DOMAIN f.breakpoints : c <= t /\ \A d \in DOMAIN f.breakpoints : d <= t => d <= c
        <4>1. PICK c \in DOMAIN f.breakpoints : c <= t /\ \A d \in DOMAIN f.breakpoints : d <= t => d <= c
          BY <3>2
        <4>2. call(f, t) = f.breakpoints[c]
          BY <4>1, CallIs
        <4>3. c # x /\ c \in DOMAIN h.breakpoints /\ \A d \in DOMAIN h.breakpoints : d <= t => d <= c
          BY <2>2, <2>3, <2>7, <4>1
        <4>4. call(h, t) = h.breakpoints[c]
          BY <2>2, <4>1, <4>3, CallIs
        <4>5. QED
          BY <2>2, <2>7, <4>2, <4>3, <4>4 DEF HoldsFrom
      <3>3. QED
        BY <3>1, <3>2, CallCases
    <2>8. QED
      BY <2>5, <2>6, <2>7 DEF HoldsFrom
  <1>3. QED
    BY <1>1, <1>2

\* add_delta: the function is larger from there on, past every later breakpoint.
LEMMA AddDelta ==
  ASSUME NEW f \in Pwf, NEW x \in Int, NEW d \in Int
  PROVE  /\ add_delta(f, x, d) \in Pwf
         /\ \A t \in Int : call(add_delta(f, x, d), t) = call(f, t) + (IF t >= x THEN d ELSE 0)
  <1> DEFINE h == add_delta(f, x, d)
  <1>0. \A t \in Int : call(f, t) \in Int
    BY CallType
  <1>1. CASE d = 0
    BY <1>0, <1>1 DEF add_delta
  <1>2. CASE d # 0
    <2> DEFINE g == Set(f, x, call(f, x))
    <2>1. /\ g \in Pwf /\ g.initial = f.initial /\ DOMAIN g.breakpoints = DOMAIN f.breakpoints \cup {x}
          /\ g.breakpoints[x] = call(f, x)
          /\ \A b \in DOMAIN f.breakpoints : b # x => g.breakpoints[b] = f.breakpoints[b]
      BY <1>0, SetParts
    <2>2. h = [g EXCEPT !.breakpoints = [b \in DOMAIN @ |-> IF b >= x THEN @[b] + d ELSE @[b]]]
      BY <1>2 DEF add_delta
    <2> HIDE DEF g, h
    <2> DEFINE D == DOMAIN g.breakpoints
               p == [b \in D |-> IF b >= x THEN g.breakpoints[b] + d ELSE g.breakpoints[b]]
    <2>3. h = [initial |-> g.initial, breakpoints |-> p]
      <3>1. g = [initial |-> g.initial, breakpoints |-> g.breakpoints]
        BY <2>1, PwfParts
      <3>2. QED
        BY <2>2, <3>1
    <2>4. D \in SUBSET Int /\ IsFiniteSet(D) /\ p \in [D -> Int] /\ g.initial \in Int
      <3>1. /\ D \in SUBSET Int /\ IsFiniteSet(D) /\ g.initial \in Int
            /\ \A b \in D : g.breakpoints[b] \in Int
        BY <2>1, PwfParts
      <3> HIDE DEF D
      <3>2. QED
        BY <3>1
    <2>5. h \in Pwf
      <3> HIDE DEF D, p
      <3> QED BY <2>3, <2>4, PwfMake
    <2>6. /\ DOMAIN h.breakpoints = DOMAIN f.breakpoints \cup {x} /\ h.initial = f.initial
          /\ h.breakpoints[x] = call(f, x) + d
          /\ \A b \in DOMAIN f.breakpoints : b # x =>
               h.breakpoints[b] = f.breakpoints[b] + (IF b >= x THEN d ELSE 0)
      BY <2>1, <2>3, PwfParts
    <2> HIDE DEF D, p
    <2>7. ASSUME NEW t \in Int
          PROVE  call(h, t) = call(f, t) + (IF t >= x THEN d ELSE 0)
      <3>0. f.initial \in Int /\ \A b \in DOMAIN f.breakpoints : b \in Int /\ f.breakpoints[b] \in Int
        BY PwfParts
      <3>1. CASE x <= t /\ \A b \in DOMAIN f.breakpoints : ~(x < b /\ b <= t)
        <4>1. x \in DOMAIN h.breakpoints /\ \A c \in DOMAIN h.breakpoints : c <= t => c <= x
          BY <2>6, <3>0, <3>1
        <4>2. call(h, t) = h.breakpoints[x]
          BY <2>5, <3>1, <4>1, CallIs
        <4>3. call(f, t) = call(f, x)
          BY <3>1, CallSame
        <4>4. QED
          BY <2>6, <3>1, <4>2, <4>3
      <3>2. CASE x <= t /\ ~\A b \in DOMAIN f.breakpoints : ~(x < b /\ b <= t)
        <4>1. PICK b \in DOMAIN f.breakpoints : x < b /\ b <= t
          BY <3>2
        <4>2. PICK c \in DOMAIN f.breakpoints : c <= t /\ \A e \in DOMAIN f.breakpoints : e <= t => e <= c
          BY <4>1, CallCases
        <4>3. x < c
          BY <3>0, <4>1, <4>2
        <4>4. call(f, t) = f.breakpoints[c]
          BY <4>2, CallIs
        <4>5. c \in DOMAIN h.breakpoints /\ \A e \in DOMAIN h.breakpoints : e <= t => e <= c
          BY <2>6, <3>0, <4>2, <4>3
        <4>6. call(h, t) = h.breakpoints[c]
          BY <2>5, <4>2, <4>5, CallIs
        <4>7. h.breakpoints[c] = f.breakpoints[c] + d
          BY <2>6, <3>0, <4>3
        <4>8. QED
          BY <3>2, <4>4, <4>6, <4>7
      <3>3. CASE ~(x <= t)
        <4>1. CASE \A b \in DOMAIN f.breakpoints : ~(b <= t)
          <5>1. call(h, t) = h.initial /\ call(f, t) = f.initial
            BY <2>5, <2>6, <3>3, <4>1, CallNone
          <5>2. QED
            BY <2>6, <3>0, <3>3, <5>1
        <4>2. CASE \E c \in DOMAIN f.breakpoints : c <= t /\ \A e \in DOMAIN f.breakpoints : e <= t => e <= c
          <5>1. PICK c \in DOMAIN f.breakpoints : c <= t /\ \A e \in DOMAIN f.breakpoints : e <= t => e <= c
            BY <4>2
          <5>2. call(f, t) = f.breakpoints[c]
            BY <5>1, CallIs
          <5>3. c # x /\ ~(c >= x) /\ c \in DOMAIN h.breakpoints /\ \A e \in DOMAIN h.breakpoints : e <= t => e <= c
            BY <2>6, <3>0, <3>3, <5>1
          <5>4. call(h, t) = h.breakpoints[c]
            BY <2>5, <5>1, <5>3, CallIs
          <5>5. h.breakpoints[c] = f.breakpoints[c] + 0
            BY <2>6, <5>3
          <5>6. QED
            BY <3>0, <3>3, <5>2, <5>4, <5>5
        <4>3. QED
          BY <4>1, <4>2, CallCases
      <3>4. QED
        BY <3>1, <3>2, <3>3
    <2>8. QED
      BY <2>5, <2>7 DEF h
  <1>3. QED
    BY <1>1, <1>2

-----------------------------------------------------------------------------
(* Shifted: many changes at once.                                           *)

ShiftBody(h, f, s, at, by) ==
  IF s = {} THEN f ELSE add_delta(h[s \ {Pick(s)}], at[Pick(s)], by[Pick(s)])
ShiftRec(h, f, S, at, by) == h = [s \in SUBSET S |-> ShiftBody(h, f, s, at, by)]

\* What the changes of S add up to at a time.
From(at, by, S, t) == [i \in S |-> IF t >= at[i] THEN by[i] ELSE 0]

\* These are the parts of the definition.
LEMMA ShiftedChoice ==
  ASSUME NEW f, NEW S, NEW at, NEW by
  PROVE  Shifted(f, S, at, by) = (CHOOSE h : ShiftRec(h, f, S, at, by))[S]
  BY DEF Shifted, ShiftRec, ShiftBody, FoldSet, MapThenFoldSet, Pick

\* The recursion has a solution.
LEMMA ShiftExists ==
  ASSUME NEW f \in Pwf, NEW S, IsFiniteSet(S), NEW at, NEW by,
         \A i \in S : at[i] \in Int /\ by[i] \in Int
  PROVE  \E h : ShiftRec(h, f, S, at, by)
  <1> DEFINE F == [p \in Pwf \X S |-> add_delta(p[1], at[p[2]], by[p[2]])]
             c == [s \in SUBSET S |-> Pick(s)]
  <1>1. \A s \in SUBSET S : c[s] = Pick(s) /\ (s # {} => c[s] \in s)
    BY DEF Pick
  <1>2. F \in [Pwf \X S -> Pwf]
    BY AddDelta
  <1>3. \A g \in Pwf, i \in S : F[<<g, i>>] = add_delta(g, at[i], by[i])
    OBVIOUS
  <1> HIDE DEF F, c
  <1>4. PICK h : FoldRec(F, f, c, h, S)
    BY <1>1, FoldExists
  <1>5. \A s \in SUBSET S : h[s] \in Pwf
    BY <1>1, <1>2, <1>4, FoldType
  <1>6. \A s \in SUBSET S : FoldBody(F, f, c, h, s) = ShiftBody(h, f, s, at, by)
    <2>1. SUFFICES ASSUME NEW s \in SUBSET S, s # {}
                   PROVE  F[<<h[s \ {c[s]}], c[s]>>] = add_delta(h[s \ {Pick(s)}], at[Pick(s)], by[Pick(s)])
      BY DEF FoldBody, ShiftBody
    <2>2. s \ {c[s]} \in SUBSET S /\ c[s] \in S /\ c[s] = Pick(s)
      BY <1>1, <2>1
    <2>3. h[s \ {c[s]}] \in Pwf
      BY <1>5, <2>2
    <2>4. QED
      BY <1>3, <2>2, <2>3
  <1>7. QED
    BY <1>4, <1>6 DEF FoldRec, ShiftRec

\* Each change counts from its time on.
LEMMA ShiftedCall ==
  ASSUME NEW f \in Pwf, NEW S, IsFiniteSet(S), NEW at, NEW by,
         \A i \in S : at[i] \in Int /\ by[i] \in Int
  PROVE  /\ Shifted(f, S, at, by) \in Pwf
         /\ \A t \in Int : call(Shifted(f, S, at, by), t) = call(f, t) + SumOf(From(at, by, S, t), S)
  <1> DEFINE h == CHOOSE h : ShiftRec(h, f, S, at, by)
             Good(s) == /\ h[s] \in Pwf
                        /\ \A t \in Int : call(h[s], t) = call(f, t) + SumOf(From(at, by, S, t), s)
             B == {s \in SUBSET S : ~Good(s)}
  <1>1. ShiftRec(h, f, S, at, by)
    BY ShiftExists
  <1>2. Shifted(f, S, at, by) = h[S]
    BY ShiftedChoice
  <1> HIDE DEF h
  <1>3. SUFFICES ASSUME B # {} PROVE FALSE
    BY <1>2
  <1>4. \A s \in SUBSET S : IsFiniteSet(s) /\ h[s] = ShiftBody(h, f, s, at, by)
    BY <1>1, FS_Subset DEF ShiftRec
  <1>5. PICK s \in B : \A u \in B : ~(Cardinality(u) < Cardinality(s))
    <2>1. \A s \in B : IsFiniteSet(s)
      BY <1>4
    <2> HIDE DEF B
    <2>2. QED
      BY <1>3, <2>1, SmallestSet
  <1>6. s \in SUBSET S /\ IsFiniteSet(s) /\ ~Good(s)
    BY <1>4, <1>5
  <1>7. s # {}
    <2>1. SUFFICES ASSUME s = {} PROVE FALSE
      OBVIOUS
    <2>2. h[s] = f
      BY <1>4, <1>6, <2>1 DEF ShiftBody
    <2>3. \A t \in Int : call(f, t) \in Int /\ SumOf(From(at, by, S, t), s) = 0
      BY <2>1, CallType, SumEmpty
    <2>4. QED
      BY <1>6, <2>2, <2>3
  <1> DEFINE x == Pick(s)
             r == s \ {Pick(s)}
  <1>8. x \in s /\ r \in SUBSET s /\ IsFiniteSet(r) /\ Cardinality(r) < Cardinality(s)
    <2> HIDE DEF B
    <2> QED BY <1>6, <1>7, PickOne
  <1>9. Good(r) /\ x \in S
    BY <1>5, <1>6, <1>8
  <1>10. h[s] = add_delta(h[r], at[x], by[x])
    BY <1>4, <1>6, <1>7 DEF ShiftBody
  <1>11. \A t \in Int : SumOf(From(at, by, S, t), s) = From(at, by, S, t)[x] + SumOf(From(at, by, S, t), r)
    BY <1>6, <1>7, SumStep
  <1> HIDE DEF x, r, B
  <1>12. h[s] \in Pwf /\ \A t \in Int : call(h[s], t) = call(h[r], t) + (IF t >= at[x] THEN by[x] ELSE 0)
    BY <1>9, <1>10, AddDelta
  <1>13. ASSUME NEW t \in Int
         PROVE  call(h[s], t) = call(f, t) + SumOf(From(at, by, S, t), s)
    <2>1. \A i \in S : From(at, by, S, t)[i] \in Int
      BY DEF From
    <2>2. SumOf(From(at, by, S, t), r) \in Int
      BY <1>6, <1>8, <2>1, SumType
    <2>3. From(at, by, S, t)[x] = IF t >= at[x] THEN by[x] ELSE 0
      BY <1>9 DEF From
    <2>4. call(f, t) \in Int
      BY CallType
    <2>5. From(at, by, S, t)[x] \in Int
      BY <1>9, <2>1
    <2>6. call(h[r], t) = call(f, t) + SumOf(From(at, by, S, t), r)
      BY <1>9
    <2>7. QED
      BY <1>11, <1>12, <2>2, <2>3, <2>4, <2>5, <2>6
  <1>14. QED
    BY <1>6, <1>12, <1>13

-----------------------------------------------------------------------------
(* Instances and markets.                                                   *)

InstSet == [market : Markets, start : Int, join : Int, end : Int, bid : Int, refunded : BOOLEAN]

\* What is known of an instance at a time.
InstOK(inst, t) ==
  /\ inst \in InstSet /\ inst.start \in 0..t
  /\ inst.end \in -1..t /\ (inst.end >= 0 => inst.start <= inst.end)

\* Instances have the numbers from 1 on.
InstsOK(insts, t) ==
  /\ \E n \in Nat : DOMAIN insts = 1..n
  /\ \A i \in DOMAIN insts : InstOK(insts[i], t)

\* What is known of instances that have been started just now.
NewOK(new, insts, t) ==
  /\ \E n \in Nat, k \in Nat : n <= k /\ DOMAIN insts = 1..n /\ DOMAIN new = (n + 1)..k
  /\ \A i \in DOMAIN new :
       new[i] \in InstSet /\ new[i].start = t /\ new[i].end = -1

Weights(insts, S) == [i \in S |-> Weight[insts[i].market]]

\* Capacity is a sum.
LEMMA CpusIsSum ==
  ASSUME NEW insts, NEW S
  PROVE  Cpus(insts, S) = SumOf(Weights(insts, S), S)
  BY DEF Cpus, Weights, SumFunctionOnSet, FoldFunctionOnSet, SumOf, MapThenSumSet, MapThenFoldSet

\* So are the numbers of instances that are missing.
LEMMA SumOnSet ==
  ASSUME NEW f, NEW S
  PROVE  SumFunctionOnSet(f, S) = SumOf(f, S)
  BY DEF SumFunctionOnSet, FoldFunctionOnSet, SumOf, MapThenSumSet, MapThenFoldSet

\* There are finitely many instances, in every market.
LEMMA FiniteInsts ==
  ASSUME NEW insts, NEW n \in Nat, DOMAIN insts = 1..n
  PROVE  /\ IsFiniteSet(DOMAIN insts) /\ Cardinality(DOMAIN insts) = n
         /\ \A S \in SUBSET DOMAIN insts : IsFiniteSet(S) /\ Cardinality(S) \in Nat
         /\ Live(insts) \in SUBSET DOMAIN insts /\ \A m : In(insts, m) \in SUBSET DOMAIN insts
         /\ \A m : market_size(insts, m) \in Nat
  <1>1. IsFiniteSet(1..n) /\ Cardinality(1..n) = n
    <2>1. 1 \in Int /\ n \in Int /\ (1 > n => n = 0) /\ n - 1 + 1 = n
      OBVIOUS
    <2>2. QED
      BY <2>1, FS_Interval
  <1>2. \A S \in SUBSET DOMAIN insts : IsFiniteSet(S) /\ Cardinality(S) \in Nat
    BY <1>1, FS_Subset, FS_CardinalityType
  <1>3. Live(insts) \in SUBSET DOMAIN insts /\ \A m : In(insts, m) \in SUBSET DOMAIN insts
    BY DEF Live, In
  <1>4. QED
    BY <1>1, <1>2, <1>3 DEF market_size

\* The markets are numbers.
LEMMA FiniteMarkets ==
  /\ IsFiniteSet(Markets) /\ Markets \in SUBSET Nat
  /\ \A m \in Markets : Weight[m] \in Nat /\ Weight[m] > 0
  BY ConstantsAssumption

\* Units are whole.
LEMMA UnitType == Unit \in Nat /\ Unit > 0 /\ \A a \in Int : a * Unit \in Int
  BY ConstantsAssumption

\* Missing instances of all markets are given a market that misses some.
LEMMA StartedOK ==
  ASSUME NEW insts, NEW n \in Nat, DOMAIN insts = 1..n, NEW sizes, \A m \in Markets : sizes[m] \in Int,
         NEW delays \in SUBSET Int, NEW bid, \A m \in Markets : bid[m] \in Int, now' \in Int,
         NEW new \in Started(insts, sizes, delays, bid)
  PROVE  NewOK(new, insts, now')
  <1> DEFINE lack == Lacking(insts, sizes)
             c == Cardinality(DOMAIN insts)
             k == c + SumFunctionOnSet(lack, Markets)
             Less(m) == {j \in Markets : j < m}
             Open(i) == {m \in Markets : lack[m] > 0 /\ c + SumFunctionOnSet(lack, Less(m)) < i}
             Of(i) == Max(Open(i))
             ids == (c + 1)..k
  <1>1. PICK d \in [ids -> delays] : new = [i \in ids |-> Instance(Of(i), d[i], bid[Of(i)])]
    BY DEF Started
  <1>0. c = n
    BY FiniteInsts
  <1> HIDE DEF c
  <1>2. \A m \in Markets : lack[m] \in Nat
    <2>1. \A m \in Markets : market_size(insts, m) \in Nat
      BY FiniteInsts
    <2>2. QED
      BY <2>1 DEF Lacking
  <1> HIDE DEF lack
  <1>3. \A S \in SUBSET Markets : IsFiniteSet(S) /\ SumOf(lack, S) \in Nat
    <2>1. SUFFICES ASSUME NEW S \in SUBSET Markets PROVE IsFiniteSet(S) /\ SumOf(lack, S) \in Nat
      OBVIOUS
    <2>2. IsFiniteSet(S)
      BY FiniteMarkets, FS_Subset
    <2>3. QED
      BY <1>2, <2>2, SumNat
  <1>4. k \in Nat /\ n <= k /\ k = n + SumOf(lack, Markets)
    BY <1>0, <1>3, SumOnSet
  <1>5. ASSUME NEW i \in ids
        PROVE  Of(i) \in Markets
    <2>1. SumOf(lack, Markets) # 0
      BY <1>0, <1>3, <1>4, <1>5
    <2>2. PICK m0 \in Markets : lack[m0] # 0
      BY <2>1, FiniteMarkets, SumZero
    <2> DEFINE D == {m \in Markets : lack[m] # 0}
    <2>3. D \in SUBSET Nat /\ D # {}
      BY <2>2, FiniteMarkets
    <2>4. PICK m \in D : \A j \in D : m <= j
      <3> HIDE DEF D
      <3> QED BY <2>3, SmallestNumber
    <2>5. Less(m) \in SUBSET Markets /\ \A j \in Less(m) : lack[j] = 0
      BY <2>3, <2>4, FiniteMarkets
    <2>6. SumFunctionOnSet(lack, Less(m)) = 0
      <3> HIDE DEF Less
      <3> QED BY <1>3, <2>5, SumZero, SumOnSet
    <2>7. m \in Open(i)
      <3>1. m \in Markets /\ lack[m] \in Nat /\ lack[m] # 0
        BY <1>2, <2>4
      <3>2. c + 0 < i
        BY <1>0, <1>4
      <3> HIDE DEF Less
      <3>3. QED
        BY <2>6, <3>1, <3>2
    <2>8. Open(i) \in SUBSET Markets /\ Open(i) # {}
      BY <2>7
    <2> HIDE DEF Open
    <2>9. Open(i) \in SUBSET Int /\ IsFiniteSet(Open(i))
      <3>1. Markets \in SUBSET Int
        BY FiniteMarkets
      <3>2. QED
        BY <1>3, <2>8, <3>1
    <2>10. Max(Open(i)) \in Open(i)
      BY <2>8, <2>9, LargestNumber
    <2>11. QED
      BY <2>8, <2>10
  <1> HIDE DEF Of
  <1>6. ASSUME NEW i \in ids
        PROVE  new[i] \in InstSet /\ new[i].start = now' /\ new[i].end = -1
    <2>1. d[i] \in Int
      BY <1>1
    <2>2. new[i] = Instance(Of(i), d[i], bid[Of(i)])
      BY <1>1
    <2>3. QED
      BY <1>5, <2>1, <2>2 DEF Instance, InstSet
  <1>7. DOMAIN new = (n + 1)..k
    BY <1>0, <1>1
  <1> HIDE DEF k
  <1>8. QED
    BY <1>0, <1>4, <1>6, <1>7 DEF NewOK

-----------------------------------------------------------------------------
(* The markets of the fleet, one after the other.                           *)

PricesOK == instance_prices \in [Markets -> Pwf]

\* The markets that are available.
LEMMA AvailableMarkets ==
  ASSUME now' \in Int
  PROVE  /\ _find_available_markets \in SUBSET Markets /\ IsFiniteSet(_find_available_markets)
         /\ Cardinality(_find_available_markets) \in 0..Cardinality(Markets)
         /\ _find_available_markets # {} => Cardinality(_find_available_markets) # 0
  <1>1. _find_available_markets \in SUBSET Markets
    BY DEF _find_available_markets
  <1>2. /\ IsFiniteSet(_find_available_markets)
        /\ Cardinality(_find_available_markets) <= Cardinality(Markets)
    BY <1>1, FiniteMarkets, FS_Subset
  <1>3. Cardinality(_find_available_markets) \in Nat /\ Cardinality(Markets) \in Nat
    BY <1>2, FiniteMarkets, FS_CardinalityType
  <1>4. _find_available_markets # {} => Cardinality(_find_available_markets) # 0
    BY <1>2, FS_EmptySet
  <1>5. QED
    BY <1>1, <1>2, <1>3, <1>4

\* What a market lacks of its share is a number.
LEMMA ResidualType ==
  ASSUME now' \in Int, NEW insts, NEW n \in Nat, DOMAIN insts = 1..n, NEW wanted \in Int,
         NEW m \in _find_available_markets
  PROVE  Residual(insts, wanted, m) \in Int
  <1> DEFINE K == Cardinality(_find_available_markets)
  <1>1. K \in Nat \ {0} /\ m \in Markets
    BY AvailableMarkets
  <1>2. market_size(insts, m) \in Nat
    BY FiniteInsts
  <1>3. Weight[m] \in Nat
    BY <1>1, FiniteMarkets
  <1> HIDE DEF K
  <1>4. (wanted * Unit) \div K \in Int /\ market_size(insts, m) * Weight[m] * Unit \in Int
    BY <1>1, <1>2, <1>3, UnitType
  <1>5. QED
    BY <1>4 DEF Residual, K

\* q has every element of S once.
Lists(q, K, S) ==
  /\ DOMAIN q = 1..K /\ \A i \in 1..K : q[i] \in S
  /\ \A i, j \in 1..K : i # j => q[i] # q[j]
  /\ \A m \in S : \E i \in 1..K : q[i] = m

\* _compute_market_residuals: every available market once.
LEMMA MarketsSorted ==
  ASSUME now' \in Int, PricesOK, NEW insts, NEW n \in Nat, DOMAIN insts = 1..n, NEW wanted \in Int,
         NEW K, K = Cardinality(_find_available_markets),
         NEW q, q = _compute_market_residuals(insts, wanted)
  PROVE  Lists(q, K, _find_available_markets)
  <1> DEFINE S == _find_available_markets
             P(m) == call(instance_prices[m], now')
             L(m) == Residual(insts, wanted, m)
             Less(k, m) == \/ L(k) < L(m)
                           \/ L(k) = L(m) /\ P(k) < P(m)
                           \/ L(k) = L(m) /\ P(k) = P(m) /\ k < m
             R == {p \in S \X S : Less(p[1], p[2])}
  <1>1. q = [i \in 1..K |-> CHOOSE x \in S : Cardinality({y \in S : Less(y, x)}) = i - 1]
    BY DEF _compute_market_residuals, SortedBy
  <1>2. /\ S \in SUBSET Markets /\ IsFiniteSet(S) /\ \A m \in S : L(m) \in Int /\ P(m) \in Int /\ m \in Int
    <2>1. S \in SUBSET Markets /\ IsFiniteSet(S)
      BY AvailableMarkets
    <2>2. \A m \in S : L(m) \in Int
      BY ResidualType
    <2>3. \A m \in S : P(m) \in Int
      BY <2>1, CallType DEF PricesOK
    <2>4. QED
      BY <2>1, <2>2, <2>3, FiniteMarkets
  <1> HIDE DEF S, P, L
  <1>3. \A x, y \in S : <<x, y>> \in R <=> Less(x, y)
    OBVIOUS
  <1>4. Orders(R, S)
    <2>1. \A x \in S : ~Less(x, x)
      BY <1>2
    <2>2. \A x, y \in S : x # y => Less(x, y) \/ Less(y, x)
      BY <1>2
    <2>3. \A x, y, z \in S : Less(x, y) /\ Less(y, z) => Less(x, z)
      BY <1>2
    <2> HIDE DEF R, Less
    <2>4. QED
      BY <1>3, <2>1, <2>2, <2>3 DEF Orders
  <1>5. \A x \in S : Below(R, S, x) = {y \in S : Less(y, x)}
    <2> HIDE DEF R, Less
    <2> QED BY <1>3 DEF Below
  <1> HIDE DEF R, Less
  <1>6. K = Cardinality(S) /\ K \in Nat
    BY <1>2, FS_CardinalityType DEF S
  <1>7. ASSUME NEW i \in 1..K
        PROVE  q[i] \in S /\ Cardinality(Below(R, S, q[i])) = i - 1
    <2>1. \E x \in S : Cardinality(Below(R, S, x)) = i - 1
      BY <1>2, <1>4, <1>6, RankIsTaken
    <2>2. \E x \in S : Cardinality({y \in S : Less(y, x)}) = i - 1
      BY <1>5, <2>1
    <2>3. q[i] \in S /\ Cardinality({y \in S : Less(y, q[i])}) = i - 1
      BY <1>1, <2>2
    <2>4. QED
      BY <1>5, <2>3
  <1>8. /\ \A i, j \in 1..K : i < j <=> <<q[i], q[j]>> \in R
        /\ \A x \in S : \E i \in 1..K : q[i] = x
    <2>1. Ranked(R, S, q)
      BY <1>6, <1>7 DEF Ranked
    <2>2. /\ \A i, j \in 1..Cardinality(S) : i < j <=> <<q[i], q[j]>> \in R
          /\ \A x \in S : \E i \in 1..Cardinality(S) : q[i] = x
      BY <1>2, <1>4, <2>1, RankedOrder
    <2>3. QED
      BY <1>6, <2>2
  <1>9. \A i, j \in 1..K : i # j => q[i] # q[j]
    <2>1. SUFFICES ASSUME NEW i \in 1..K, NEW j \in 1..K, i < j PROVE q[i] # q[j]
      BY <1>6
    <2>2. QED
      BY <1>4, <1>7, <1>8, <2>1 DEF Orders
  <1>10. DOMAIN q = 1..K
    BY <1>1
  <1>11. QED
    BY <1>7, <1>8, <1>9, <1>10 DEF S, Lists

Accs == [left : Int, correction : Int, counts : [Markets -> Int]]
FirstAcc(insts) == [left |-> Cardinality(_find_available_markets), correction |-> 0,
                    counts |-> [m \in Markets |-> market_size(insts, m)]]

WalkBody(h, insts, wanted, q, s) ==
  IF s = {} THEN FirstAcc(insts) ELSE NextMarket(h[s \ {Max(s)}], q[Max(s)], insts, wanted)
WalkRec(h, insts, wanted, q) ==
  h = [s \in SUBSET (DOMAIN q) |-> WalkBody(h, insts, wanted, q, s)]

\* These are the parts of the definition.
LEMMA CountsChoice ==
  ASSUME NEW insts, NEW wanted, NEW q, q = _compute_market_residuals(insts, wanted)
  PROVE  _get_new_market_counts(insts, wanted) = (CHOOSE h : WalkRec(h, insts, wanted, q))[DOMAIN q].counts
  BY DEF _get_new_market_counts, FoldLeft, MapThenFoldSet, WalkRec, WalkBody, FirstAcc

\* One market more.
LEMMA NextMarketType ==
  ASSUME now' \in Int, NEW insts, NEW n \in Nat, DOMAIN insts = 1..n, NEW wanted \in Int,
         NEW acc \in Accs, NEW m \in _find_available_markets
  PROVE  NextMarket(acc, m, insts, wanted) \in Accs
  <1> DEFINE residual == Residual(insts, wanted, m) - acc.correction
             w == Weight[m] * Unit
             number == (residual + w - 1) \div w
             over == IF residual < 0 THEN -residual ELSE number * w - residual
  <1>1. acc.left \in Int /\ acc.correction \in Int /\ acc.counts \in [Markets -> Int]
    BY DEF Accs
  <1>2. residual \in Int
    BY <1>1, ResidualType
  <1>3. m \in Markets
    BY AvailableMarkets
  <1>4. w \in Nat \ {0}
    BY <1>3, FiniteMarkets, UnitType
  <1> HIDE DEF w
  <1>5. number \in Int
    <2> HIDE DEF residual
    <2> QED BY <1>2, <1>4, RoundedUp
  <1> HIDE DEF residual, number
  <1>6. over \in Int
    BY <1>2, <1>4, <1>5
  <1> HIDE DEF over
  <1>7. acc.left > 1 => over \div (acc.left - 1) \in Int
    BY <1>1, <1>6
  <1>8. [acc.counts EXCEPT ![m] = @ + number] \in [Markets -> Int]
    BY <1>1, <1>3, <1>5
  <1>9. NextMarket(acc, m, insts, wanted) =
          [left |-> acc.left - 1,
           correction |-> IF acc.left > 1 THEN acc.correction + over \div (acc.left - 1) ELSE acc.correction,
           counts |-> IF residual < 0 THEN acc.counts ELSE [acc.counts EXCEPT ![m] = @ + number]]
    BY DEF NextMarket, residual, w, number, over
  <1>10. QED
    BY <1>1, <1>7, <1>8, <1>9 DEF Accs

\* Accs[k]: after k markets.
Walk(a, insts, wanted, q, K) ==
  /\ a[0] = FirstAcc(insts)
  /\ \A k \in 1..K : a[k] = NextMarket(a[k - 1], q[k], insts, wanted)
  /\ \A k \in 0..K : a[k] \in Accs

\* _get_new_market_counts takes the markets in turn.
LEMMA MarketWalk ==
  ASSUME now' \in Int, PricesOK, NEW insts, NEW n \in Nat, DOMAIN insts = 1..n, NEW wanted \in Int,
         NEW K, K = Cardinality(_find_available_markets),
         NEW q, q = _compute_market_residuals(insts, wanted)
  PROVE  \E a : Walk(a, insts, wanted, q, K) /\ _get_new_market_counts(insts, wanted) = a[K].counts
  <1> DEFINE S == 1..K
             M == _find_available_markets
             F == [p \in Accs \X S |-> NextMarket(p[1], q[p[2]], insts, wanted)]
             c == [s \in SUBSET S |-> Max(s)]
             base == FirstAcc(insts)
  <1>1. K \in Nat /\ DOMAIN q = S /\ \A i \in S : q[i] \in M
    <2>1. K \in Nat
      BY AvailableMarkets
    <2>2. DOMAIN q = 1..K /\ \A i \in 1..K : q[i] \in _find_available_markets
      BY MarketsSorted DEF Lists
    <2>3. QED
      BY <2>1, <2>2
  <1>2. IsFiniteSet(S) /\ \A s \in SUBSET S : c[s] = Max(s) /\ (s # {} => c[s] \in s)
    BY <1>1, IntervalMax
  <1>3. base \in Accs
    BY <1>1, FiniteInsts DEF FirstAcc, Accs
  <1>4. \A acc \in Accs, i \in S : NextMarket(acc, q[i], insts, wanted) \in Accs
    BY <1>1, NextMarketType
  <1>5. F \in [Accs \X S -> Accs] /\ \A acc \in Accs, i \in S : F[<<acc, i>>] = NextMarket(acc, q[i], insts, wanted)
    BY <1>4
  <1> HIDE DEF F, c, S, base
  <1>6. PICK g : FoldRec(F, base, c, g, S)
    BY <1>2, FoldExists
  <1>7. \A s \in SUBSET S : g[s] \in Accs
    BY <1>2, <1>3, <1>5, <1>6, FoldType
  <1>8. \A s \in SUBSET S : FoldBody(F, base, c, g, s) = WalkBody(g, insts, wanted, q, s)
    <2>1. SUFFICES ASSUME NEW s \in SUBSET S, s # {}
                   PROVE  F[<<g[s \ {c[s]}], c[s]>>] = NextMarket(g[s \ {Max(s)}], q[Max(s)], insts, wanted)
      BY DEF FoldBody, WalkBody, base
    <2>2. s \ {c[s]} \in SUBSET S /\ c[s] \in S /\ c[s] = Max(s)
      BY <1>2, <2>1
    <2>3. g[s \ {c[s]}] \in Accs
      BY <1>7, <2>2
    <2>4. QED
      BY <1>5, <2>2, <2>3
  <1>9. WalkRec(g, insts, wanted, q)
    BY <1>1, <1>6, <1>8 DEF FoldRec, WalkRec
  <1> DEFINE h == CHOOSE h : WalkRec(h, insts, wanted, q)
             a == [k \in 0..K |-> h[1..k]]
  <1>10. WalkRec(h, insts, wanted, q)
    BY <1>9
  <1>11. _get_new_market_counts(insts, wanted) = h[S].counts
    BY <1>1, CountsChoice
  <1> HIDE DEF h
  <1>12. \A s \in SUBSET S : h[s] = WalkBody(h, insts, wanted, q, s)
    BY <1>1, <1>10 DEF WalkRec
  <1>13. a[0] = base
    <2>1. 1..0 = {} /\ 1..0 \in SUBSET S
      OBVIOUS
    <2>2. h[1..0] = base
      BY <1>12, <2>1 DEF WalkBody, base
    <2>3. QED
      BY <1>1, <2>2
  <1>14. ASSUME NEW k \in 1..K
         PROVE  a[k] = NextMarket(a[k - 1], q[k], insts, wanted)
    <2>1. k \in Nat /\ k # 0 /\ k - 1 \in 0..K /\ 1..k \in SUBSET S /\ 1..(k - 1) \in SUBSET S
      BY <1>1 DEF S
    <2>2. 1..k # {} /\ Max(1..k) = k /\ (1..k) \ {k} = 1..(k - 1)
      BY <2>1, IntervalTop
    <2>3. h[1..k] = NextMarket(h[1..(k - 1)], q[k], insts, wanted)
      BY <1>12, <2>1, <2>2 DEF WalkBody
    <2>4. QED
      BY <2>1, <2>3
  <1> HIDE DEF a
  <1>15. \A k \in 0..K : a[k] \in Accs
    <2> DEFINE D == {k \in 0..K : a[k] \notin Accs}
    <2>1. SUFFICES ASSUME D # {} PROVE FALSE
      OBVIOUS
    <2>2. D \in SUBSET Nat
      BY <1>1
    <2>3. PICK k \in D : \A j \in D : k <= j
      <3> HIDE DEF D
      <3> QED BY <2>1, <2>2, SmallestNumber
    <2>4. k # 0 /\ k \in 1..K /\ k - 1 \in 0..K /\ k - 1 \notin D /\ a[k] \notin Accs
      BY <1>1, <1>3, <1>13, <2>2, <2>3
    <2>5. a[k - 1] \in Accs /\ k \in S
      BY <2>4 DEF S
    <2>6. QED
      BY <1>4, <1>14, <2>4, <2>5
  <1>16. a[K] = h[S]
    BY <1>1 DEF a, S
  <1>17. QED
    BY <1>11, <1>13, <1>14, <1>15, <1>16 DEF Walk, base

\* So counts are numbers.
LEMMA CountsType ==
  ASSUME now' \in Int, PricesOK, NEW insts, NEW n \in Nat, DOMAIN insts = 1..n, NEW wanted \in Int
  PROVE  \A m \in Markets : _get_new_market_counts(insts, wanted)[m] \in Int
  <1> DEFINE K == Cardinality(_find_available_markets)
             q == _compute_market_residuals(insts, wanted)
  <1>1. PICK a : Walk(a, insts, wanted, q, K) /\ _get_new_market_counts(insts, wanted) = a[K].counts
    <2> HIDE DEF K, q
    <2> QED BY MarketWalk DEF K, q
  <1>2. K \in 0..K
    BY AvailableMarkets
  <1>3. a[K].counts \in [Markets -> Int]
    <2> HIDE DEF K, q
    <2> QED BY <1>1, <1>2 DEF Walk, Accs
  <1>4. QED
    BY <1>1, <1>3

-----------------------------------------------------------------------------
(* The cpus of the instances that run.                                      *)

RunsAt(inst, t) == inst.start <= t /\ (inst.end < 0 \/ t < inst.end)
AwsAt(insts, t) ==
  [i \in DOMAIN insts |-> IF RunsAt(insts[i], t) THEN Weight[insts[i].market] ELSE 0]
ServesAt(inst, t) == inst.join <= t /\ (inst.end < 0 \/ t < inst.end)
JoinedAt(insts, t) ==
  [i \in DOMAIN insts |-> IF ServesAt(insts[i], t)
                          THEN Weight[insts[i].market] ELSE 0]

\* after: the instances of S have ended at t, and those of new have started.
Replaced(after, insts, S, new, t) ==
  /\ DOMAIN after = DOMAIN insts \cup DOMAIN new
  /\ \A i \in DOMAIN new : after[i] = new[i]
  /\ \A i \in DOMAIN insts \ S : after[i] = insts[i]
  /\ \A i \in S : /\ after[i] \in InstSet /\ after[i].market = insts[i].market
                  /\ after[i].start = insts[i].start /\ after[i].join = insts[i].join
                  /\ after[i].end = t

\* New instances have other numbers.
LEMMA NewApart ==
  ASSUME NEW insts, NEW new, NEW t, NewOK(new, insts, t)
  PROVE  /\ DOMAIN insts \cap DOMAIN new = {} /\ IsFiniteSet(DOMAIN insts) /\ IsFiniteSet(DOMAIN new)
         /\ \E n \in Nat : DOMAIN insts \cup DOMAIN new = 1..n
  <1>1. PICK n \in Nat, k \in Nat : n <= k /\ DOMAIN insts = 1..n /\ DOMAIN new = (n + 1)..k
    BY DEF NewOK
  <1>2. IsFiniteSet(1..n) /\ IsFiniteSet((n + 1)..k)
    BY FS_Interval
  <1>3. (1..n) \cap ((n + 1)..k) = {} /\ (1..n) \cup ((n + 1)..k) = 1..k
    BY <1>1
  <1>4. QED
    BY <1>1, <1>2, <1>3

\* Nothing else becomes of them.
LEMMA ReplacedOK ==
  ASSUME NEW t0 \in Nat, NEW t \in Nat, t0 <= t, NEW insts, InstsOK(insts, t0), NEW S \in SUBSET Live(insts),
         NEW new, NewOK(new, insts, t), NEW after, Replaced(after, insts, S, new, t)
  PROVE  InstsOK(after, t)
  <1>1. \E n \in Nat : DOMAIN after = 1..n
    BY NewApart DEF Replaced
  <1>2. ASSUME NEW i \in DOMAIN after
        PROVE  InstOK(after[i], t)
    <2>1. CASE i \in DOMAIN new
      <3>1. /\ after[i] = new[i] /\ new[i] \in InstSet /\ new[i].start = t /\ new[i].end = -1
        BY <2>1 DEF Replaced, NewOK
      <3>2. QED
        BY <3>1 DEF InstOK
    <2>2. CASE i \in S
      <3>1. i \in DOMAIN insts /\ InstOK(insts[i], t0)
        BY <2>2 DEF Live, InstsOK
      <3>2. /\ after[i] \in InstSet /\ after[i].start = insts[i].start
            /\ after[i].join = insts[i].join /\ after[i].end = t
        BY <2>2 DEF Replaced
      <3>3. QED
        BY <3>1, <3>2 DEF InstOK
    <2>3. CASE i \in DOMAIN insts \ S
      <3>1. after[i] = insts[i] /\ InstOK(insts[i], t0)
        BY <2>3 DEF Replaced, InstsOK
      <3>2. QED
        BY <3>1 DEF InstOK
    <2>4. QED
      BY <2>1, <2>2, <2>3 DEF Replaced
  <1>3. QED
    BY <1>1, <1>2 DEF InstsOK

\* The weights of instances are numbers.
LEMMA WeightsType ==
  ASSUME NEW insts, NEW S, \A i \in S : insts[i] \in InstSet
  PROVE  \A i \in S : /\ Weights(insts, S)[i] = Weight[insts[i].market]
                       /\ Weight[insts[i].market] \in Nat
  <1>1. \A i \in S : insts[i].market \in Markets
    BY DEF InstSet
  <1>2. QED
    BY <1>1, FiniteMarkets DEF Weights

\* What runs changes from then on.
LEMMA ReplacedAws ==
  ASSUME NEW t0 \in Nat, NEW t1 \in Nat, t0 <= t1, NEW insts, InstsOK(insts, t0),
         NEW S \in SUBSET Live(insts), NEW new, NewOK(new, insts, t1),
         NEW after, Replaced(after, insts, S, new, t1), NEW t \in Int
  PROVE  SumOf(AwsAt(after, t), DOMAIN after) =
           SumOf(AwsAt(insts, t), DOMAIN insts)
             + (IF t >= t1 THEN Cpus(new, DOMAIN new) ELSE 0)
             + (IF t >= t1 THEN -Cpus(insts, S) ELSE 0)
  <1> DEFINE D == DOMAIN insts
             N == DOMAIN new
             f == AwsAt(insts, t)
             g == AwsAt(after, t)
             u == [i \in N |-> IF t >= t1 THEN Weight[new[i].market] ELSE 0]
             v == [i \in S |-> IF t >= t1 THEN -Weight[insts[i].market] ELSE 0]
  <1>1. D \cap N = {} /\ IsFiniteSet(D) /\ IsFiniteSet(N) /\ DOMAIN after = D \cup N
    BY NewApart DEF Replaced
  <1>2. S \in SUBSET D /\ IsFiniteSet(S) /\ \A i \in S : insts[i].end < 0
    <2>1. S \in SUBSET D /\ \A i \in S : insts[i].end < 0
      BY DEF Live
    <2>2. QED
      BY <1>1, <2>1, FS_Subset
  <1>3. /\ \A i \in D : insts[i] \in InstSet /\ InstOK(insts[i], t0) /\ Weight[insts[i].market] \in Nat
        /\ \A i \in N : /\ new[i] \in InstSet /\ new[i].start = t1 /\ new[i].end = -1
                        /\ Weight[new[i].market] \in Nat
    <2>1. \A i \in D : insts[i] \in InstSet /\ InstOK(insts[i], t0)
      BY DEF InstsOK, InstOK
    <2>2. \A i \in N : new[i] \in InstSet /\ new[i].start = t1 /\ new[i].end = -1
      BY DEF NewOK
    <2>3. \A i \in D : Weight[insts[i].market] \in Nat
      BY <2>1, WeightsType
    <2>4. \A i \in N : Weight[new[i].market] \in Nat
      BY <2>2, WeightsType
    <2>5. QED
      BY <2>1, <2>2, <2>3, <2>4
  <1>4. \A i \in D : f[i] \in Int
    BY <1>3 DEF AwsAt
  <1>5. \A i \in N : u[i] \in Int /\ g[i] = u[i]
    <2>1. SUFFICES ASSUME NEW i \in N PROVE u[i] \in Int /\ g[i] = u[i]
      OBVIOUS
    <2>2. after[i] = new[i] /\ i \in DOMAIN after
      BY <1>1 DEF Replaced
    <2>3. RunsAt(after[i], t) <=> t >= t1
      BY <1>3, <2>2 DEF RunsAt
    <2>4. QED
      BY <1>3, <2>2, <2>3 DEF AwsAt
  <1>6. \A i \in S : v[i] \in Int /\ g[i] = f[i] + v[i]
    <2>1. SUFFICES ASSUME NEW i \in S PROVE v[i] \in Int /\ g[i] = f[i] + v[i]
      OBVIOUS
    <2>2. /\ i \in D /\ i \in DOMAIN after /\ after[i].market = insts[i].market
          /\ after[i].start = insts[i].start /\ after[i].end = t1
      BY <1>1, <1>2 DEF Replaced
    <2>3. insts[i].start \in Int /\ insts[i].start <= t1 /\ insts[i].end \in Int
      BY <1>3, <2>2 DEF InstOK, InstSet
    <2>4. /\ RunsAt(insts[i], t) <=> insts[i].start <= t
          /\ RunsAt(after[i], t) <=> insts[i].start <= t /\ t < t1
      BY <1>2, <2>2, <2>3 DEF RunsAt
    <2>5. /\ f[i] = IF insts[i].start <= t THEN Weight[insts[i].market] ELSE 0
          /\ g[i] = IF insts[i].start <= t /\ t < t1 THEN Weight[insts[i].market] ELSE 0
          /\ v[i] = IF t >= t1 THEN -Weight[insts[i].market] ELSE 0
      BY <2>2, <2>4 DEF AwsAt
    <2>6. Weight[insts[i].market] \in Int
      BY <1>3, <2>2
    <2> HIDE DEF f, g, v
    <2>7. QED
      BY <2>3, <2>5, <2>6
  <1>7. \A i \in D \ S : g[i] = f[i]
    BY <1>1 DEF AwsAt, Replaced
  <1> HIDE DEF f, g
  <1>8. SumOf(g, D \cup N) = SumOf(f, D) + SumOf(u, N) + SumOf(v, S)
    <2> HIDE DEF u, v, D, N
    <2> QED BY <1>1, <1>2, <1>4, <1>5, <1>6, <1>7, SumChange
  <1>9. SumOf(u, N) = IF t >= t1 THEN Cpus(new, N) ELSE 0
    <2>1. CASE t >= t1
      <3>1. \A i \in N : u[i] = Weights(new, N)[i]
        BY <2>1 DEF Weights
      <3> HIDE DEF u
      <3>2. QED
        BY <1>1, <2>1, <3>1, SumSame, CpusIsSum
    <2>2. CASE ~(t >= t1)
      <3>1. \A i \in N : u[i] = 0
        BY <2>2
      <3> HIDE DEF u
      <3>2. QED
        BY <1>1, <2>2, <3>1, SumZero
    <2>3. QED
      BY <2>1, <2>2
  <1>10. SumOf(v, S) = IF t >= t1 THEN -Cpus(insts, S) ELSE 0
    <2>1. CASE t >= t1
      <3>1. \A i \in S : Weights(insts, S)[i] \in Int /\ v[i] = -Weights(insts, S)[i]
        BY <1>2, <1>3, <2>1 DEF Weights
      <3> HIDE DEF v
      <3>2. SumOf(v, S) = -SumOf(Weights(insts, S), S)
        BY <1>2, <3>1, SumNegate
      <3>3. QED
        BY <2>1, <3>2, CpusIsSum
    <2>2. CASE ~(t >= t1)
      <3>1. \A i \in S : v[i] = 0
        BY <2>2
      <3> HIDE DEF v
      <3>2. QED
        BY <1>2, <2>2, <3>1, SumZero
    <2>3. QED
      BY <2>1, <2>2
  <1>11. QED
    BY <1>1, <1>8, <1>9, <1>10 DEF f, g

AfterJoin(inst, t) == IF inst.join > t THEN inst.join ELSE t

\* So do the instances that have joined.
LEMMA ReplacedJoined ==
  ASSUME NEW t0 \in Nat, NEW t1 \in Nat, t0 <= t1, NEW insts, InstsOK(insts, t0),
         NEW S \in SUBSET Live(insts), NEW new, NewOK(new, insts, t1),
         NEW after, Replaced(after, insts, S, new, t1), NEW t \in Int
  PROVE  SumOf(JoinedAt(after, t), DOMAIN after) =
           SumOf(JoinedAt(insts, t), DOMAIN insts)
             + SumOf(From([i \in DOMAIN new |-> new[i].join], Weights(new, DOMAIN new), DOMAIN new, t), DOMAIN new)
             + SumOf(From([i \in S |-> AfterJoin(insts[i], t1)], [i \in S |-> -Weight[insts[i].market]], S, t), S)
  <1> DEFINE D == DOMAIN insts
             N == DOMAIN new
             f == JoinedAt(insts, t)
             g == JoinedAt(after, t)
             u == From([i \in N |-> new[i].join], Weights(new, N), N, t)
             v == From([i \in S |-> AfterJoin(insts[i], t1)], [i \in S |-> -Weight[insts[i].market]], S, t)
  <1>1. D \cap N = {} /\ IsFiniteSet(D) /\ IsFiniteSet(N) /\ DOMAIN after = D \cup N
    BY NewApart DEF Replaced
  <1>2. S \in SUBSET D /\ \A i \in S : insts[i].end < 0
    BY DEF Live
  <1>3. /\ \A i \in D : insts[i] \in InstSet /\ InstOK(insts[i], t0) /\ Weight[insts[i].market] \in Nat
        /\ \A i \in N : /\ new[i] \in InstSet /\ new[i].start = t1 /\ new[i].end = -1
                        /\ Weight[new[i].market] \in Nat
    <2>1. \A i \in D : insts[i] \in InstSet /\ InstOK(insts[i], t0)
      BY DEF InstsOK, InstOK
    <2>2. \A i \in N : new[i] \in InstSet /\ new[i].start = t1 /\ new[i].end = -1
      BY DEF NewOK
    <2>3. \A i \in D : Weight[insts[i].market] \in Nat
      BY <2>1, WeightsType
    <2>4. \A i \in N : Weight[new[i].market] \in Nat
      BY <2>2, WeightsType
    <2>5. QED
      BY <2>1, <2>2, <2>3, <2>4
  <1>4. \A i \in D : f[i] \in Int
    BY <1>3 DEF JoinedAt
  <1>5. \A i \in N : u[i] \in Int /\ g[i] = u[i]
    <2>1. SUFFICES ASSUME NEW i \in N PROVE u[i] \in Int /\ g[i] = u[i]
      OBVIOUS
    <2>2. after[i] = new[i] /\ i \in DOMAIN after
      BY <1>1 DEF Replaced
    <2>3. new[i].join \in Int
      BY <1>3 DEF InstSet
    <2>4. ServesAt(after[i], t) <=> t >= new[i].join
      BY <1>3, <2>2, <2>3 DEF ServesAt
    <2>5. u[i] = IF t >= new[i].join THEN Weight[new[i].market] ELSE 0
      BY DEF From, Weights
    <2>6. g[i] = IF t >= new[i].join THEN Weight[new[i].market] ELSE 0
      BY <2>2, <2>4 DEF JoinedAt
    <2>7. QED
      BY <1>3, <2>5, <2>6
  <1>6. \A i \in S : v[i] \in Int /\ g[i] = f[i] + v[i]
    <2>1. SUFFICES ASSUME NEW i \in S PROVE v[i] \in Int /\ g[i] = f[i] + v[i]
      OBVIOUS
    <2>2. /\ i \in D /\ i \in DOMAIN after /\ after[i].market = insts[i].market
          /\ after[i].start = insts[i].start /\ after[i].end = t1 /\ after[i].join = insts[i].join
      BY <1>1, <1>2 DEF Replaced
    <2>3. /\ insts[i].start \in Int /\ insts[i].start <= t1 /\ insts[i].end \in Int
          /\ insts[i].join \in Int
      BY <1>3, <2>2 DEF InstOK, InstSet
    <2>4. /\ ServesAt(insts[i], t) <=> insts[i].join <= t
          /\ ServesAt(after[i], t) <=> insts[i].join <= t /\ t < t1
      BY <1>2, <2>2, <2>3 DEF ServesAt
    <2>5. t >= AfterJoin(insts[i], t1) <=> insts[i].join <= t /\ t >= t1
      BY <2>3 DEF AfterJoin
    <2>6. v[i] = IF t >= AfterJoin(insts[i], t1) THEN -Weight[insts[i].market] ELSE 0
      BY DEF From
    <2>7. /\ f[i] = IF insts[i].join <= t THEN Weight[insts[i].market] ELSE 0
          /\ g[i] = IF insts[i].join <= t /\ t < t1 THEN Weight[insts[i].market] ELSE 0
          /\ v[i] = IF insts[i].join <= t /\ t >= t1 THEN -Weight[insts[i].market] ELSE 0
      BY <2>2, <2>4, <2>5, <2>6 DEF JoinedAt
    <2>8. Weight[insts[i].market] \in Int
      BY <1>3, <2>2
    <2> HIDE DEF f, g, v
    <2>9. QED
      BY <2>3, <2>7, <2>8
  <1>7. \A i \in D \ S : g[i] = f[i]
    BY <1>1 DEF JoinedAt, Replaced
  <1>8. SumOf(g, D \cup N) = SumOf(f, D) + SumOf(u, N) + SumOf(v, S)
    <2> HIDE DEF u, v, D, N, f, g
    <2> QED BY <1>1, <1>2, <1>4, <1>5, <1>6, <1>7, SumChange
  <1> HIDE DEF f, g, u, v
  <1>9. QED
    BY <1>1, <1>8 DEF f, g, u, v

-----------------------------------------------------------------------------
(* The cpus are those of the instances.                                     *)

CpusAre ==
  \A t \in Int : /\ call(aws_cpus, t) = SumOf(AwsAt(instances, t), DOMAIN instances)
                 /\ call(mesos_cpus, t) = SumOf(JoinedAt(instances, t), DOMAIN instances)

EventOK(e, t) ==
  /\ e.time \in t..EndTime
  /\ e.kind = "size" => \A m \in Markets : e.sizes[m] \in Nat
  /\ e.kind = "price" => e.market \in Markets /\ e.price \in Int

SimTypes ==
  /\ phase \in {"populate", "run", "orphans", "target", "prune", "done"}
  /\ fleet \in BOOLEAN /\ refund_outbid \in BOOLEAN
  /\ now \in 0..EndTime /\ \A e \in event_queue : EventOK(e, now)
  /\ phase = "populate" => now = 0
  /\ InstsOK(instances, now) /\ target \in Targets \cup {0} /\ PricesOK
  /\ aws_cpus \in Pwf /\ mesos_cpus \in Pwf

CpuInv == SimTypes /\ (phase # "done" => CpusAre)

\* refunded says whether the last period of those that end is not charged.
Refunds(after, insts, S, t) == \A i \in S : after[i].refunded = ~Charged(insts[i], t)

\* What EndAt and the new instances make of the instances.
LEMMA EndedAndNew ==
  ASSUME NEW t0 \in Nat, NEW insts, InstsOK(insts, t0), NEW S \in SUBSET Live(insts), NEW t \in Nat,
         NEW new, NewOK(new, insts, t),
         NEW after, after = [i \in DOMAIN insts \cup DOMAIN new |->
                               IF i \in DOMAIN new THEN new[i]
                               ELSE IF i \in S THEN EndAt(insts[i], t) ELSE insts[i]]
  PROVE  /\ Replaced(after, insts, S, new, t)
         /\ Refunds(after, insts, S, t)
  <1>1. DOMAIN insts \cap DOMAIN new = {} /\ S \in SUBSET DOMAIN insts
    BY NewApart DEF Live
  <1>2. ASSUME NEW i \in S
        PROVE  /\ EndAt(insts[i], t) \in InstSet
               /\ EndAt(insts[i], t).market = insts[i].market /\ EndAt(insts[i], t).start = insts[i].start
               /\ EndAt(insts[i], t).join = insts[i].join /\ EndAt(insts[i], t).end = t
               /\ EndAt(insts[i], t).refunded = ~Charged(insts[i], t)
    <2> DEFINE inst == insts[i]
               b == ~Charged(insts[i], t)
               end == EndAt(insts[i], t)
    <2>0. end = [inst EXCEPT !.end = t, !.refunded = b]
      BY DEF EndAt
    <2>1. inst \in InstSet /\ t \in Int /\ b \in BOOLEAN
      BY <1>1 DEF InstsOK, InstOK
    <2> HIDE DEF inst, b, end
    <2>2. /\ end \in InstSet /\ end.market = inst.market /\ end.start = inst.start
          /\ end.join = inst.join /\ end.end = t /\ end.refunded = b
      BY <2>0, <2>1 DEF InstSet
    <2>3. QED
      BY <2>2 DEF inst, b, end
  <1>3. \A i \in S : after[i] = EndAt(insts[i], t)
    BY <1>1
  <1>4. /\ DOMAIN after = DOMAIN insts \cup DOMAIN new
        /\ \A i \in DOMAIN new : after[i] = new[i]
        /\ \A i \in DOMAIN insts \ S : after[i] = insts[i]
    BY <1>1
  <1>5. QED
    BY <1>2, <1>3, <1>4 DEF Replaced, Refunds

\* Replace keeps the books.
LEMMA ReplaceKeeps ==
  ASSUME now \in Nat, now' \in Nat, now <= now', InstsOK(instances, now), aws_cpus \in Pwf, mesos_cpus \in Pwf,
         CpusAre, NEW S \in SUBSET Live(instances), NEW new, NewOK(new, instances, now'), Replace(S, new)
  PROVE  InstsOK(instances, now)' /\ aws_cpus' \in Pwf /\ mesos_cpus' \in Pwf /\ CpusAre'
  <1> DEFINE N == DOMAIN new
             joins == [i \in N |-> new[i].join]
             ends == [i \in S |-> AfterJoin(instances[i], now')]
             less == [i \in S |-> -Weight[instances[i].market]]
  <1>1. /\ Ids \cap N = {} /\ IsFiniteSet(Ids) /\ IsFiniteSet(N) /\ S \in SUBSET Ids /\ IsFiniteSet(S)
    <2>1. Ids \cap N = {} /\ IsFiniteSet(Ids) /\ IsFiniteSet(N)
      BY NewApart DEF Ids
    <2>2. S \in SUBSET Ids
      BY DEF Live, Ids
    <2>3. QED
      BY <2>1, <2>2, FS_Subset
  <1>2. \A i \in Ids : instances[i] \in InstSet
    BY DEF InstsOK, InstOK, Ids
  <1>3. \A i \in N : new[i] \in InstSet /\ Weights(new, N)[i] \in Nat
    <2>1. \A i \in N : new[i] \in InstSet
      BY DEF NewOK
    <2>2. QED
      BY <2>1, WeightsType
  <1>4. Replaced(instances', instances, S, new, now')
    <2> DEFINE t == now'
               after == instances'
    <2>1. after = [i \in DOMAIN instances \cup DOMAIN new |->
                     IF i \in DOMAIN new THEN new[i]
                     ELSE IF i \in S THEN EndAt(instances[i], t) ELSE instances[i]]
      BY DEF Replace, Ids
    <2>2. t \in Nat /\ NewOK(new, instances, t)
      OBVIOUS
    <2> HIDE DEF t, after
    <2>3. Replaced(after, instances, S, new, t)
      BY <2>1, <2>2, EndedAndNew
    <2>4. QED
      BY <2>3 DEF t, after
  <1>5. InstsOK(instances, now)'
    BY <1>4, ReplacedOK
  <1>6. Cpus(new, N) \in Int /\ Cpus(instances, S) \in Int
    <2>1. \A i \in N : Weights(new, N)[i] \in Int
      BY <1>3
    <2>2. \A i \in S : Weights(instances, S)[i] \in Int
      <3>1. \A i \in S : instances[i] \in InstSet
        BY <1>1, <1>2
      <3>2. QED
        BY <3>1, WeightsType
    <2>3. QED
      BY <1>1, <2>1, <2>2, SumType, CpusIsSum
  <1>7. /\ aws_cpus' \in Pwf
        /\ \A t \in Int : call(aws_cpus', t) = call(aws_cpus, t) + (IF t >= now' THEN Cpus(new, N) ELSE 0)
                                                + (IF t >= now' THEN -Cpus(instances, S) ELSE 0)
    <2> DEFINE f == aws_added(aws_cpus, new)
    <2>1. f \in Pwf /\ \A t \in Int : call(f, t) = call(aws_cpus, t) + (IF t >= now' THEN Cpus(new, N) ELSE 0)
      BY <1>6, AddDelta DEF aws_added
    <2>2. aws_cpus' = add_delta(f, now', -Cpus(instances, S))
      BY DEF Replace
    <2> HIDE DEF f, N
    <2>3. -Cpus(instances, S) \in Int
      BY <1>6
    <2>4. QED
      BY <2>1, <2>2, <2>3, AddDelta
  <1>8. /\ mesos_cpus' \in Pwf
        /\ \A t \in Int : call(mesos_cpus', t) = call(mesos_cpus, t) + SumOf(From(joins, Weights(new, N), N, t), N)
                                                + SumOf(From(ends, less, S, t), S)
    <2> DEFINE f == mesos_added(mesos_cpus, new)
    <2>1. f = Shifted(mesos_cpus, N, joins, Weights(new, N))
      BY DEF mesos_added, Weights
    <2>2. \A i \in N : joins[i] \in Int /\ Weights(new, N)[i] \in Int
      BY <1>3 DEF InstSet
    <2>3. \A i \in S : ends[i] \in Int /\ less[i] \in Int
      <3>1. \A i \in S : instances[i] \in InstSet
        BY <1>1, <1>2
      <3>2. \A i \in S : Weight[instances[i].market] \in Int
        <4>1. \A i \in S : instances[i].market \in Markets
          BY <3>1 DEF InstSet
        <4>2. \A m \in Markets : Weight[m] \in Int
          BY FiniteMarkets
        <4>3. QED
          BY <4>1, <4>2
      <3>3. \A i \in S : instances[i].join \in Int
        BY <3>1 DEF InstSet
      <3>4. QED
        BY <3>2, <3>3 DEF AfterJoin
    <2>4. mesos_cpus' = Shifted(f, S, ends, less)
      BY DEF Replace, mesos_removed, JoinOrEnd, AfterJoin
    <2> HIDE DEF f, N, joins, ends, less
    <2>5. f \in Pwf /\ \A t \in Int : call(f, t) = call(mesos_cpus, t) + SumOf(From(joins, Weights(new, N), N, t), N)
      BY <1>1, <2>1, <2>2, ShiftedCall
    <2>6. /\ mesos_cpus' \in Pwf
          /\ \A t \in Int : call(mesos_cpus', t) = call(f, t) + SumOf(From(ends, less, S, t), S)
      BY <1>1, <2>3, <2>4, <2>5, ShiftedCall
    <2>7. QED
      BY <2>5, <2>6
  <1>9. ASSUME NEW t \in Int
        PROVE  /\ call(aws_cpus', t) = SumOf(AwsAt(instances', t), DOMAIN instances')
               /\ call(mesos_cpus', t) = SumOf(JoinedAt(instances', t), DOMAIN instances')
    <2>1. SumOf(AwsAt(instances', t), DOMAIN instances') =
            SumOf(AwsAt(instances, t), DOMAIN instances) + (IF t >= now' THEN Cpus(new, N) ELSE 0)
              + (IF t >= now' THEN -Cpus(instances, S) ELSE 0)
      BY <1>4, ReplacedAws
    <2>2. SumOf(JoinedAt(instances', t), DOMAIN instances') =
            SumOf(JoinedAt(instances, t), DOMAIN instances) + SumOf(From(joins, Weights(new, N), N, t), N)
              + SumOf(From(ends, less, S, t), S)
      BY <1>4, ReplacedJoined
    <2>3. /\ call(aws_cpus, t) = SumOf(AwsAt(instances, t), DOMAIN instances)
          /\ call(mesos_cpus, t) = SumOf(JoinedAt(instances, t), DOMAIN instances)
      BY DEF CpusAre
    <2> HIDE DEF N, joins, ends, less
    <2>4. QED
      BY <1>7, <1>8, <2>1, <2>2, <2>3
  <1>10. QED
    BY <1>5, <1>7, <1>8, <1>9 DEF CpusAre

\* _increase_capacity_to_target starts instances or none.
LEMMA IncreaseOK ==
  ASSUME now' \in Int, PricesOK, NEW insts, NEW n \in Nat, DOMAIN insts = 1..n, NEW wanted \in Nat,
         NEW delays \in SUBSET Int, NEW new \in Increase(insts, wanted, delays)
  PROVE  NewOK(new, insts, now')
  <1>1. CASE new = <<>>
    <2>1. DOMAIN new = {} /\ (n + 1)..n = {}
      BY <1>1
    <2>2. n <= n /\ DOMAIN insts = 1..n /\ DOMAIN new = (n + 1)..n
      BY <2>1
    <2>3. QED
      BY <2>1, <2>2 DEF NewOK
  <1>2. CASE new \in Started(insts, _get_new_market_counts(insts, wanted), delays, Bid)
    <2>1. \A m \in Markets : _get_new_market_counts(insts, wanted)[m] \in Int
      BY CountsType
    <2>2. \A m \in Markets : Bid[m] \in Int
      BY ConstantsAssumption
    <2>3. QED
      BY <1>2, <2>1, <2>2, StartedOK
  <1>3. QED
    BY <1>1, <1>2 DEF Increase

\* There is nothing at first.
LEMMA CpuInit ==
  Init => CpuInv
  <1> SUFFICES ASSUME Init PROVE CpuInv
    OBVIOUS
  <1>1. Zero \in Pwf /\ \A t \in Int : call(Zero, t) = 0
    BY PwfConstant DEF Zero
  <1>2. DOMAIN instances = {} /\ DOMAIN instances = 1..0
    BY DEF Init
  <1>3. InstsOK(instances, now)
    BY <1>2 DEF InstsOK
  <1>4. CpusAre
    BY <1>1, <1>2, SumEmpty DEF CpusAre, Init
  <1>5. \A e \in event_queue : EventOK(e, now)
    BY ConstantsAssumption DEF Init, Event, EventOK
  <1>6. PricesOK
    BY <1>1 DEF Init, PricesOK
  <1>7. QED
    BY <1>1, <1>3, <1>4, <1>5, <1>6, ConstantsAssumption DEF CpuInv, SimTypes, Init

\* What a Replace needs of the types, and what it leaves to show.
LEMMA ReplaceTypes ==
  ASSUME SimTypes, CpusAre, now' \in now..EndTime, NEW S \in SUBSET Live(instances),
         NEW new, NewOK(new, instances, now'), Replace(S, new)
  PROVE  InstsOK(instances, now)' /\ aws_cpus' \in Pwf /\ mesos_cpus' \in Pwf /\ CpusAre'
  <1>1. now \in Nat /\ now' \in Nat /\ now <= now'
    BY ConstantsAssumption DEF SimTypes
  <1>2. InstsOK(instances, now) /\ aws_cpus \in Pwf /\ mesos_cpus \in Pwf
    BY DEF SimTypes
  <1>3. QED
    BY <1>1, <1>2, ReplaceKeeps

\* terminate_instances_by_id and what starts after it.
LEMMA TerminateTypes ==
  ASSUME SimTypes, CpusAre, UNCHANGED now, NEW S \in SUBSET Live(instances), terminate_instances_by_id(S)
  PROVE  InstsOK(instances, now)' /\ aws_cpus' \in Pwf /\ mesos_cpus' \in Pwf /\ CpusAre'
  <1>0. CASE S = {}
    BY <1>0 DEF terminate_instances_by_id, functions, SimTypes, CpusAre
  <1>a. SUFFICES ASSUME S # {}
                 PROVE  InstsOK(instances, now)' /\ aws_cpus' \in Pwf /\ mesos_cpus' \in Pwf /\ CpusAre'
    BY <1>0
  <1>1. PICK new \in Increase(Ended(S), target, Delays) : Replace(S, new)
    BY <1>a DEF terminate_instances_by_id
  <1>2. PICK n \in Nat : DOMAIN instances = 1..n
    BY DEF SimTypes, InstsOK
  <1>3. DOMAIN Ended(S) = 1..n
    BY <1>2 DEF Ended, Ids
  <1>4. now' \in Int /\ now' \in now..EndTime /\ PricesOK /\ target \in Nat /\ Delays \in SUBSET Int
    BY ConstantsAssumption DEF SimTypes
  <1> DEFINE left == Ended(S)
  <1>5. NewOK(new, left, now')
    <2> HIDE DEF left
    <2> QED BY <1>1, <1>3, <1>4, IncreaseOK DEF left
  <1>6. NewOK(new, instances, now')
    BY <1>2, <1>3, <1>5 DEF NewOK
  <1>7. QED
    BY <1>1, <1>4, <1>6, ReplaceTypes

\* Capacity that is added.
LEMMA IncreaseTypes ==
  ASSUME SimTypes, CpusAre, UNCHANGED now, NEW wanted \in Nat, NEW delays \in SUBSET Int,
         NEW new \in Increase(instances, wanted, delays), Replace({}, new)
  PROVE  InstsOK(instances, now)' /\ aws_cpus' \in Pwf /\ mesos_cpus' \in Pwf /\ CpusAre'
  <1>1. PICK n \in Nat : DOMAIN instances = 1..n
    BY DEF SimTypes, InstsOK
  <1>2. now' \in Int /\ now' \in now..EndTime /\ PricesOK
    BY ConstantsAssumption DEF SimTypes
  <1>3. NewOK(new, instances, now')
    BY <1>1, <1>2, IncreaseOK
  <1>4. {} \in SUBSET Live(instances)
    OBVIOUS
  <1>5. QED
    BY <1>2, <1>3, <1>4, ReplaceTypes

\* Events are handled in the order of their times.
LEMMA PopTypes ==
  ASSUME SimTypes, NEW e \in First, Pop(e)
  PROVE  /\ now' \in now..EndTime /\ now' \in 0..EndTime /\ EventOK(e, now) /\ now' = e.time
         /\ phase = "run" /\ \A f \in event_queue' : EventOK(f, now')
  <1>1. e \in event_queue /\ \A f \in event_queue : ~Before(f, e)
    BY DEF First
  <1>2. now \in 0..EndTime /\ EndTime \in Nat /\ \A f \in event_queue : EventOK(f, now)
    BY ConstantsAssumption DEF SimTypes
  <1>3. /\ now' = e.time /\ phase = "run" /\ event_queue' \in SUBSET event_queue
    BY DEF Pop
  <1>4. ASSUME NEW f \in event_queue'
        PROVE  EventOK(f, now')
    <2>1. EventOK(f, now) /\ EventOK(e, now) /\ ~Before(f, e)
      BY <1>1, <1>2, <1>3
    <2>2. ~(f.time < e.time) /\ f.time \in now..EndTime /\ e.time \in now..EndTime
      BY <2>1 DEF Before, EventOK
    <2>3. f.time \in now'..EndTime
      BY <1>2, <1>3, <2>2
    <2>4. QED
      BY <2>1, <2>3 DEF EventOK
  <1>5. QED
    BY <1>1, <1>2, <1>3, <1>4 DEF EventOK

\* An event that is added.
LEMMA PopulateKeeps ==
  ASSUME CpuInv, NEW e, EventOK(e, 0), Populate(e)
  PROVE  CpuInv'
  <1>1. now \in 0..EndTime /\ EndTime \in Nat /\ SimTypes /\ phase = "populate"
    BY ConstantsAssumption DEF CpuInv, SimTypes, Populate
  <1>2. \A f \in event_queue' : EventOK(f, now)
    <2>1. SUFFICES ASSUME NEW f \in event_queue', f \notin event_queue PROVE EventOK(f, now)
      BY <1>1 DEF SimTypes
    <2>2. f = e /\ ~(e.time >= EndTime \/ e.time < now)
      BY <2>1 DEF Populate, add_event
    <2>3. e.time \in now..EndTime
      BY <1>1, <2>2 DEF EventOK
    <2>4. QED
      BY <2>2, <2>3 DEF EventOK
  <1>3. UNCHANGED <<phase, fleet, refund_outbid, now, instances, target, instance_prices, aws_cpus, mesos_cpus>>
    BY DEF Populate, settings, functions
  <1>4. QED
    BY <1>1, <1>2, <1>3 DEF CpuInv, SimTypes, CpusAre, PricesOK

\* Every step keeps the functions and the instances together.
LEMMA CpuStep ==
  ASSUME CpuInv, [Next]_vars
  PROVE  CpuInv'
  <1>0. SimTypes /\ EndTime \in Nat /\ now \in 0..EndTime /\ now \in Nat
    BY ConstantsAssumption DEF CpuInv, SimTypes
  <1>1. CASE UNCHANGED vars
    BY <1>1 DEF vars, settings, functions, CpuInv, SimTypes, CpusAre, PricesOK
  <1>2. CASE _make_autoscaler
    <2>1. CpusAre /\ UNCHANGED now /\ target' \in Targets /\ UNCHANGED <<phase, fleet, refund_outbid, event_queue, instance_prices>>
      BY <1>2 DEF _make_autoscaler, CpuInv, settings
    <2>2. target' \in Nat /\ {0} \in SUBSET Nat
      BY <2>1, ConstantsAssumption
    <2>3. PICK new \in Increase(instances, target', {0}) : Replace({}, new)
      BY <1>2 DEF _make_autoscaler
    <2>4. InstsOK(instances, now)' /\ aws_cpus' \in Pwf /\ mesos_cpus' \in Pwf /\ CpusAre'
      BY <1>0, <2>1, <2>2, <2>3, IncreaseTypes
    <2>5. QED
      BY <1>0, <2>1, <2>4 DEF CpuInv, SimTypes, PricesOK
  <1>3. CASE _populate_cluster_size_events
    <2>1. PICK t \in Times, sizes \in [Markets -> Sizes] :
            Populate(ModifyClusterSizeEvent(t, sizes, Count("size") > 0))
      BY <1>3 DEF _populate_cluster_size_events
    <2> DEFINE e == ModifyClusterSizeEvent(t, sizes, Count("size") > 0)
    <2>2. EventOK(e, 0)
      <3>1. e.time = t /\ e.kind = "size" /\ e.sizes = sizes
        BY DEF ModifyClusterSizeEvent
      <3>2. t \in 0..EndTime
        BY <1>0 DEF Times
      <3>3. \A m \in Markets : sizes[m] \in Sizes
        OBVIOUS
      <3>4. \A m \in Markets : sizes[m] \in Nat
        BY <3>3, ConstantsAssumption
      <3> HIDE DEF e
      <3>5. QED
        BY <3>1, <3>2, <3>4 DEF EventOK
    <2> HIDE DEF e
    <2>3. QED
      BY <2>1, <2>2, PopulateKeeps DEF e
  <1>4. CASE _populate_autoscaling_events
    <2>1. /\ UNCHANGED <<phase, fleet, refund_outbid, now, instances, target, instance_prices, aws_cpus, mesos_cpus>>
          /\ phase = "populate"
      BY <1>4 DEF _populate_autoscaling_events, settings, functions
    <2>2. PICK period \in Periods : \E splay \in 1..(period - 1) :
            event_queue' = event_queue \cup {AutoscalingEvent(t) : t \in {x \in Times : x > 0 /\ x % splay = 0}}
      BY <1>4 DEF _populate_autoscaling_events
    <2>3. PICK splay \in 1..(period - 1) :
            event_queue' = event_queue \cup {AutoscalingEvent(t) : t \in {x \in Times : x > 0 /\ x % splay = 0}}
      BY <2>2
    <2>4. ASSUME NEW f \in event_queue'
          PROVE  EventOK(f, now)
      <3>1. CASE f \in event_queue
        BY <1>0, <3>1 DEF SimTypes
      <3>2. CASE f \notin event_queue
        <4>1. PICK t \in Times : f = AutoscalingEvent(t)
          BY <2>3, <2>4, <3>2
        <4>2. now = 0
          BY <1>0, <2>1 DEF SimTypes
        <4>3. QED
          BY <1>0, <4>1, <4>2 DEF EventOK, AutoscalingEvent, Times
      <3>3. QED
        BY <3>1, <3>2
    <2>5. QED
      BY <1>0, <2>1, <2>4 DEF CpuInv, SimTypes, CpusAre, PricesOK
  <1>5. CASE _populate_price_changes
    <2>1. PICK t \in Times, m \in Markets, p \in Prices : Populate(InstancePriceChangeEvent(t, m, p))
      BY <1>5 DEF _populate_price_changes
    <2> DEFINE e == InstancePriceChangeEvent(t, m, p)
    <2>2. EventOK(e, 0)
      BY <1>0, ConstantsAssumption DEF InstancePriceChangeEvent, EventOK, Times
    <2> HIDE DEF e
    <2>3. QED
      BY <2>1, <2>2, PopulateKeeps DEF e
  <1>6. CASE StartRun
    BY <1>6 DEF StartRun, settings, functions, CpuInv, SimTypes, CpusAre, PricesOK
  <1>7. ASSUME NEW e \in First, HandleEvent(e)
        PROVE  CpuInv'
    <2>1. /\ now' \in now..EndTime /\ now' \in 0..EndTime /\ phase = "run" /\ \A f \in event_queue' : EventOK(f, now')
      BY <1>0, <1>7, PopTypes DEF HandleEvent
    <2>2. UNCHANGED <<phase, fleet, refund_outbid, instances, target, instance_prices, aws_cpus, mesos_cpus>>
      BY <1>7 DEF HandleEvent, settings, functions
    <2>3. InstsOK(instances, now)'
      BY <1>0, <2>1, <2>2 DEF SimTypes, InstsOK, InstOK
    <2>4. QED
      BY <1>0, <2>1, <2>2, <2>3 DEF CpuInv, SimTypes, CpusAre, PricesOK
  <1>8. ASSUME NEW e \in First, HandlePriceChange(e)
        PROVE  CpuInv'
    <2>1. /\ now' \in now..EndTime /\ now' \in 0..EndTime /\ phase = "run" /\ \A f \in event_queue' : EventOK(f, now')
          /\ EventOK(e, now) /\ now' = e.time
      BY <1>0, <1>8, PopTypes DEF HandlePriceChange
    <2>2. /\ UNCHANGED <<phase, fleet, refund_outbid, instances, target, aws_cpus, mesos_cpus>> /\ e.kind = "price"
          /\ instance_prices' = [instance_prices EXCEPT ![e.market] = add_breakpoint(@, e.time, e.price)]
      BY <1>8 DEF HandlePriceChange, settings, functions
    <2>3. InstsOK(instances, now)'
      BY <1>0, <2>1, <2>2 DEF SimTypes, InstsOK, InstOK
    <2>4. PricesOK'
      <3>1. e.market \in Markets /\ e.price \in Int /\ e.time \in Int
        BY <2>1, <2>2 DEF EventOK
      <3>2. instance_prices \in [Markets -> Pwf]
        BY <1>0 DEF SimTypes, PricesOK
      <3>3. add_breakpoint(instance_prices[e.market], e.time, e.price) \in Pwf
        BY <3>1, <3>2, AddBreakpoint
      <3>4. QED
        BY <2>2, <3>1, <3>2, <3>3 DEF PricesOK
    <2>5. QED
      BY <1>0, <2>1, <2>2, <2>3, <2>4 DEF CpuInv, SimTypes, CpusAre
  <1>9. ASSUME NEW e \in First, HandleModifyClusterSize(e)
        PROVE  CpuInv'
    <2>1. /\ now' \in now..EndTime /\ now' \in 0..EndTime /\ phase = "run" /\ \A f \in event_queue' : EventOK(f, now')
          /\ EventOK(e, now) /\ now' = e.time
      BY <1>0, <1>9, PopTypes DEF HandleModifyClusterSize
    <2>2. UNCHANGED <<phase, fleet, refund_outbid, target, instance_prices>> /\ e.kind = "size"
      BY <1>9 DEF HandleModifyClusterSize, settings
    <2> DEFINE delays == IF e.delay THEN Delays ELSE {0}
               S == Excess(instances, e.sizes)
    <2>3. PICK new \in Started(instances, e.sizes, delays, NoBid) : Replace(S, new)
      BY <1>9 DEF HandleModifyClusterSize
    <2>4. S \in SUBSET Live(instances)
      BY DEF Excess, Oldest, In
    <2>5. delays \in SUBSET Int
      BY ConstantsAssumption
    <2>6. PICK n \in Nat : DOMAIN instances = 1..n
      BY <1>0 DEF SimTypes, InstsOK
    <2>7. /\ \A m \in Markets : e.sizes[m] \in Int /\ NoBid[m] \in Int
          /\ now' \in Int
      BY <2>1, <2>2 DEF EventOK, NoBid
    <2> HIDE DEF delays, S
    <2>8. NewOK(new, instances, now')
      BY <2>3, <2>5, <2>6, <2>7, StartedOK
    <2>9. CpusAre
      BY <2>1 DEF CpuInv
    <2>10. InstsOK(instances, now)' /\ aws_cpus' \in Pwf /\ mesos_cpus' \in Pwf /\ CpusAre'
      BY <1>0, <2>1, <2>3, <2>4, <2>8, <2>9, ReplaceTypes
    <2>11. QED
      BY <1>0, <2>1, <2>2, <2>10 DEF CpuInv, SimTypes, PricesOK
  <1>10. ASSUME NEW e \in First, HandleAutoscaling(e)
        PROVE  CpuInv'
    <2>1. /\ now' \in now..EndTime /\ now' \in 0..EndTime /\ phase = "run" /\ \A f \in event_queue' : EventOK(f, now')
      BY <1>0, <1>10, PopTypes DEF HandleAutoscaling
    <2>2. UNCHANGED <<fleet, refund_outbid, instances, target, instance_prices, aws_cpus, mesos_cpus>> /\ phase' = "orphans"
      BY <1>10 DEF HandleAutoscaling, settings, functions
    <2>3. InstsOK(instances, now)'
      BY <1>0, <2>1, <2>2 DEF SimTypes, InstsOK, InstOK
    <2>4. QED
      BY <1>0, <2>1, <2>2, <2>3 DEF CpuInv, SimTypes, CpusAre, PricesOK
  <1>11. CASE terminate_expired_orphan_instances
    <2>1. /\ phase = "orphans" /\ phase' = "target" /\ UNCHANGED target
          /\ UNCHANGED <<fleet, refund_outbid, event_queue, now, instance_prices>>
      BY <1>11 DEF terminate_expired_orphan_instances, Step, settings
    <2>2. PICK S \in SUBSET Orphans : terminate_instances_by_id(S)
      BY <1>11 DEF terminate_expired_orphan_instances
    <2>3. S \in SUBSET Live(instances) /\ CpusAre
      BY <2>1, <2>2 DEF Orphans, CpuInv
    <2>4. InstsOK(instances, now)' /\ aws_cpus' \in Pwf /\ mesos_cpus' \in Pwf /\ CpusAre'
      BY <1>0, <2>1, <2>2, <2>3, TerminateTypes
    <2>5. QED
      BY <1>0, <2>1, <2>4 DEF CpuInv, SimTypes, PricesOK
  <1>12. CASE modify_target_capacity
    <2>1. /\ phase = "target" /\ phase' = "prune" /\ target' \in Targets
          /\ UNCHANGED <<fleet, refund_outbid, event_queue, now, instance_prices>>
      BY <1>12 DEF modify_target_capacity, Step, settings
    <2>2. \/ UNCHANGED <<instances, aws_cpus, mesos_cpus>>
          \/ \E new \in Increase(instances, target', Delays) : Replace({}, new)
      BY <1>12 DEF modify_target_capacity, functions
    <2>3. CpusAre /\ target' \in Nat /\ Delays \in SUBSET Int
      BY <2>1, ConstantsAssumption DEF CpuInv
    <2>4. InstsOK(instances, now)' /\ aws_cpus' \in Pwf /\ mesos_cpus' \in Pwf /\ CpusAre'
      <3>1. CASE UNCHANGED <<instances, aws_cpus, mesos_cpus>>
        BY <1>0, <2>1, <2>3, <3>1 DEF SimTypes, CpusAre
      <3>2. CASE \E new \in Increase(instances, target', Delays) : Replace({}, new)
        BY <1>0, <2>1, <2>3, <3>2, IncreaseTypes
      <3>3. QED
        BY <2>2, <3>1, <3>2
    <2>5. QED
      BY <1>0, <2>1, <2>4 DEF CpuInv, SimTypes, PricesOK
  <1>13. CASE Prune
    <2>1. /\ phase = "prune" /\ phase' = "run" /\ UNCHANGED target
          /\ UNCHANGED <<fleet, refund_outbid, event_queue, now, instance_prices>>
      BY <1>13 DEF Prune, Step, settings
    <2>2. PICK S \in SUBSET Live(instances) : terminate_instances_by_id(S)
      BY <1>13 DEF Prune
    <2>3. CpusAre
      BY <2>1 DEF CpuInv
    <2>4. InstsOK(instances, now)' /\ aws_cpus' \in Pwf /\ mesos_cpus' \in Pwf /\ CpusAre'
      BY <1>0, <2>1, <2>2, <2>3, TerminateTypes
    <2>5. QED
      BY <1>0, <2>1, <2>4 DEF CpuInv, SimTypes, PricesOK
  <1>14. CASE EndRun
    <2>1. /\ phase' = "done" /\ UNCHANGED <<fleet, refund_outbid, event_queue, now, target, instance_prices, aws_cpus, mesos_cpus>>
          /\ instances' = [i \in DOMAIN instances |-> IF i \in Live(instances)
                                                      THEN EndAt(instances[i], now) ELSE instances[i]]
      BY <1>14 DEF EndRun, settings, Ids
    <2>2. ASSUME NEW i \in DOMAIN instances
          PROVE  InstOK(instances'[i], now)
      <3>1. InstOK(instances[i], now)
        BY <1>0 DEF SimTypes, InstsOK
      <3>2. PICK b \in BOOLEAN : EndAt(instances[i], now) = [instances[i] EXCEPT !.end = now, !.refunded = b]
        BY DEF EndAt
      <3> DEFINE inst == instances[i]
                 after == EndAt(instances[i], now)
      <3>3. inst \in InstSet /\ now \in Int /\ after = [inst EXCEPT !.end = now, !.refunded = b]
        BY <1>0, <3>1, <3>2 DEF InstOK
      <3> HIDE DEF inst, after
      <3>4. after \in InstSet /\ after.start = inst.start /\ after.join = inst.join /\ after.end = now
        BY <3>3 DEF InstSet
      <3>5. InstOK(after, now)
        BY <1>0, <3>1, <3>4 DEF InstOK, inst
      <3>6. QED
        BY <2>1, <3>1, <3>5 DEF after
    <2>3. InstsOK(instances, now)'
      BY <1>0, <2>1, <2>2 DEF SimTypes, InstsOK
    <2>4. QED
      BY <1>0, <2>1, <2>3 DEF CpuInv, SimTypes, PricesOK
  <1>15. QED
    BY <1>1, <1>2, <1>3, <1>4, <1>5, <1>6, <1>7, <1>8, <1>9, <1>10, <1>11, <1>12, <1>13, <1>14 DEF Next

\* The functions are those of the instances throughout.
THEOREM CpusAreKept ==
  Spec => []CpuInv
  <1>1. CpuInv /\ [Next]_vars => CpuInv'
    BY CpuStep
  <1>2. QED
    BY CpuInit, <1>1, PTL DEF Spec

\* aws_cpus and mesos_cpus agree with the instances at every time, whatever
\* is started, recycled before it joins, or ended.
THEOREM CpusMatchInstancesHolds ==
  Spec => []CpusMatchInstances
  <1>1. ASSUME CpuInv PROVE CpusMatchInstances
    <2>0. \A t \in ReportTimes : t \in Int
      BY DEF ReportTimes
    <2>1. SUFFICES ASSUME phase # "done", NEW t \in Int
          PROVE  LET left == {i \in Ids : instances[i].end < 0 \/ t < instances[i].end}
                 IN  /\ call(aws_cpus, t) = Cpus(instances, {i \in left : instances[i].start <= t})
                     /\ call(mesos_cpus, t) = Cpus(instances, {i \in left : instances[i].join <= t})
      BY <2>0 DEF CpusMatchInstances
    <2> DEFINE D == DOMAIN instances
               f == AwsAt(instances, t)
               g == JoinedAt(instances, t)
               L == {i \in Ids : instances[i].end < 0 \/ t < instances[i].end}
               R == {i \in L : instances[i].start <= t}
               J == {i \in L : instances[i].join <= t}
    <2>2. call(aws_cpus, t) = SumOf(f, D) /\ call(mesos_cpus, t) = SumOf(g, D)
      BY <1>1, <2>1 DEF CpuInv, CpusAre
    <2>3. IsFiniteSet(D) /\ \A i \in D : instances[i] \in InstSet
      BY <1>1, FiniteInsts DEF CpuInv, SimTypes, InstsOK, InstOK
    <2>4. \A i \in D : Weight[instances[i].market] \in Int
      <3>1. \A i \in D : instances[i].market \in Markets
        BY <2>3 DEF InstSet
      <3>2. \A m \in Markets : Weight[m] \in Int
        BY FiniteMarkets
      <3> HIDE DEF D
      <3>3. QED
        BY <3>1, <3>2
    <2>5. R \in SUBSET D /\ J \in SUBSET D
      BY DEF Ids
    <2>6. /\ \A i \in D : f[i] \in Int /\ g[i] \in Int
          /\ \A i \in D \ R : f[i] = 0
          /\ \A i \in D \ J : g[i] = 0
          /\ \A i \in R : Weights(instances, R)[i] = f[i]
          /\ \A i \in J : Weights(instances, J)[i] = g[i]
      BY <2>4 DEF AwsAt, JoinedAt, RunsAt, ServesAt, Weights, Ids
    <2> HIDE DEF D, f, g, R, J
    <2>7. SumOf(Weights(instances, R), R) = SumOf(f, D) /\ SumOf(Weights(instances, J), J) = SumOf(g, D)
      BY <2>3, <2>5, <2>6, SumSupport
    <2>8. call(aws_cpus, t) = Cpus(instances, R) /\ call(mesos_cpus, t) = Cpus(instances, J)
      BY <2>2, <2>7, CpusIsSum
    <2>9. QED
      BY <2>8 DEF R, J
  <1>2. QED
    BY <1>1, CpusAreKept, PTL

-----------------------------------------------------------------------------
(* The fleet and its target.                                                *)

\* Every market gets as many new instances as it lacks.
LEMMA StartedInMarkets ==
  ASSUME NEW insts, NEW n \in Nat, DOMAIN insts = 1..n, NEW sizes, \A m \in Markets : sizes[m] \in Int,
         NEW delays, NEW bid, NEW new \in Started(insts, sizes, delays, bid), NEW m \in Markets
  PROVE  Cardinality({i \in DOMAIN new : new[i].market = m}) = Lacking(insts, sizes)[m]
  <1> DEFINE lack == Lacking(insts, sizes)
             c == Cardinality(DOMAIN insts)
             Less(x) == {j \in Markets : j < x}
             B(x) == SumFunctionOnSet(lack, Less(x))
             T == SumFunctionOnSet(lack, Markets)
             Open(i) == {x \in Markets : lack[x] > 0 /\ c + B(x) < i}
             ids == (c + 1)..(c + T)
             mine == {i \in DOMAIN new : new[i].market = m}
  <1>1. PICK d \in [ids -> delays] : new = [i \in ids |-> Instance(Max(Open(i)), d[i], bid[Max(Open(i))])]
    BY DEF Started
  <1>2. \A i : i \in mine <=> i \in ids /\ Max(Open(i)) = m
    BY <1>1 DEF Instance
  <1> HIDE DEF mine
  <1>3. c \in Nat
    BY FiniteInsts
  <1>4. \A x \in Markets : lack[x] \in Nat /\ x \in Int
    <2>1. \A x \in Markets : market_size(insts, x) \in Nat
      BY FiniteInsts
    <2>2. QED
      BY <2>1, FiniteMarkets DEF Lacking
  <1> HIDE DEF c, lack
  <1>5. \A S \in SUBSET Markets : IsFiniteSet(S) /\ SumOf(lack, S) \in Nat
    <2>1. SUFFICES ASSUME NEW S \in SUBSET Markets PROVE IsFiniteSet(S) /\ SumOf(lack, S) \in Nat
      OBVIOUS
    <2>2. IsFiniteSet(S)
      BY FiniteMarkets, FS_Subset
    <2>3. QED
      BY <1>4, <2>2, SumNat
  <1>6. /\ T = SumOf(lack, Markets) /\ T \in Nat
        /\ \A x \in Markets : B(x) = SumOf(lack, Less(x)) /\ B(x) \in Nat
    BY <1>5, SumOnSet
  <1> HIDE DEF B, T
  <1> DEFINE U == Less(m) \cup {m}
  <1>7. U \in SUBSET Markets /\ SumOf(lack, U) = B(m) + lack[m]
    <2>1. Less(m) \in SUBSET Markets /\ m \notin Less(m) /\ U \in SUBSET Markets
      BY <1>4
    <2>2. IsFiniteSet(Less(m)) /\ \A y \in U : lack[y] \in Int
      BY <1>4, <1>5, <2>1
    <2> HIDE DEF Less
    <2>3. QED
      BY <1>6, <2>1, <2>2, SumAdd
  <1>8. \A j \in Markets : m < j => B(m) + lack[m] <= B(j)
    <2>1. SUFFICES ASSUME NEW j \in Markets, m < j PROVE SumOf(lack, U) <= SumOf(lack, Less(j))
      BY <1>6, <1>7
    <2>2. U \in SUBSET Less(j) /\ Less(j) \in SUBSET Markets
      BY <1>4, <2>1
    <2> HIDE DEF U, Less
    <2>3. \A y \in Less(j) : lack[y] \in Nat
      BY <1>4, <2>2
    <2>4. QED
      BY <1>5, <2>2, <2>3, SumMonotone
  <1>9. B(m) + lack[m] <= T
    <2> HIDE DEF U
    <2> QED BY <1>4, <1>6, <1>7, FiniteMarkets, SumMonotone
  <1>10. \A i : Open(i) \in SUBSET Int /\ IsFiniteSet(Open(i))
    <2>1. SUFFICES ASSUME NEW i PROVE Open(i) \in SUBSET Int /\ IsFiniteSet(Open(i))
      OBVIOUS
    <2>2. Open(i) \in SUBSET Markets
      OBVIOUS
    <2> HIDE DEF Open
    <2>3. QED
      BY <1>4, <1>5, <2>2
  <1>11. ASSUME NEW i \in ids, lack[m] > 0, c + B(m) < i, i <= c + B(m) + lack[m]
         PROVE  Max(Open(i)) = m
    <2>1. m \in Open(i)
      BY <1>11
    <2>2. \A j \in Open(i) : j <= m
      <3>1. SUFFICES ASSUME NEW j \in Open(i), m < j PROVE FALSE
        BY <1>4
      <3>2. j \in Markets /\ c + B(j) < i /\ B(j) \in Nat /\ B(m) \in Nat
        BY <1>6
      <3>3. B(m) + lack[m] <= B(j)
        BY <1>8, <3>1, <3>2
      <3>4. QED
        BY <1>3, <1>4, <1>6, <1>11, <3>2, <3>3
    <2> HIDE DEF Open
    <2>3. QED
      BY <1>10, <2>1, <2>2, LargestIs
  <1>12. ASSUME NEW i \in ids, Max(Open(i)) = m, Open(i) # {}
         PROVE  lack[m] > 0 /\ c + B(m) < i /\ i <= c + B(m) + lack[m]
    <2>1. m \in Open(i) /\ \A j \in Open(i) : j <= m
      <3> HIDE DEF Open
      <3> QED BY <1>10, <1>12, LargestNumber
    <2>2. lack[m] > 0 /\ c + B(m) < i
      BY <2>1
    <2>0. i \in Int /\ i <= c + T /\ c \in Int /\ T \in Int /\ B(m) \in Int /\ lack[m] \in Int
      <3>1. c \in Int /\ T \in Int /\ B(m) \in Int
        <4> HIDE DEF Less, Open, ids
        <4>1. c \in Nat /\ T \in Nat
          BY <1>3, <1>6
        <4>2. B(m) \in Nat
          BY <1>6
        <4>3. QED
          BY <4>1, <4>2
      <3>2. lack[m] \in Int
        BY <1>4
      <3>3. i \in Int /\ i <= c + T
        BY <3>1
      <3>4. QED
        BY <3>1, <3>2, <3>3
    <2>3. SUFFICES ASSUME c + B(m) + lack[m] < i PROVE FALSE
      <3> HIDE DEF ids, Open
      <3> QED BY <2>0, <2>2
    <2> DEFINE V == {j \in Markets : m < j /\ lack[j] # 0}
    <2>4. CASE V = {}
      <3>1. \A y \in Markets \ U : lack[y] = 0
        BY <1>4, <2>4
      <3>2. SumOf(lack, U) = SumOf(lack, Markets)
        <4> HIDE DEF U, V
        <4>1. \A x \in Markets : lack[x] \in Int
          BY <1>4
        <4>2. QED
          BY <1>7, <3>1, <4>1, FiniteMarkets, SumSupport
      <3>3. B(m) + lack[m] = T
        BY <1>6, <1>7, <3>2
      <3> HIDE DEF ids, Open, U, V
      <3>4. QED
        BY <2>0, <2>3, <3>3
    <2>5. CASE V # {}
      <3>1. V \in SUBSET Nat
        BY FiniteMarkets
      <3>2. PICK j \in V : \A y \in V : j <= y
        <4> HIDE DEF V
        <4> QED BY <2>5, <3>1, SmallestNumber
      <3>3. j \in Markets /\ m < j /\ lack[j] # 0 /\ U \in SUBSET Less(j) /\ Less(j) \in SUBSET Markets
        BY <1>4, <3>2
      <3>4. \A y \in Less(j) \ U : lack[y] = 0
        BY <1>4, <3>2
      <3>5. SumOf(lack, U) = SumOf(lack, Less(j))
        <4> HIDE DEF U, V, Less
        <4>1. \A x \in Less(j) : lack[x] \in Int
          BY <1>4, <3>3
        <4>2. IsFiniteSet(Less(j))
          BY <1>5, <3>3
        <4>3. QED
          BY <3>3, <3>4, <4>1, <4>2, SumSupport
      <3>6. c + B(j) < i
        <4>1. B(j) = B(m) + lack[m]
          BY <1>6, <1>7, <3>3, <3>5
        <4> HIDE DEF ids, Open, U, V, Less
        <4>2. QED
          BY <2>0, <2>3, <4>1
      <3>7. j \in Open(i)
        BY <1>4, <3>3, <3>6
      <3>8. QED
        BY <1>4, <2>1, <3>3, <3>7
    <2>6. QED
      BY <2>4, <2>5
  <1>13. \A i \in ids : Open(i) # {}
    <2>1. SUFFICES ASSUME NEW i \in ids PROVE Open(i) # {}
      OBVIOUS
    <2>2. T # 0
      BY <1>3, <1>6
    <2>3. PICK m0 \in Markets : lack[m0] # 0
      BY <1>6, <2>2, FiniteMarkets, SumZero
    <2> DEFINE V == {j \in Markets : lack[j] # 0}
    <2>4. V \in SUBSET Nat /\ V # {}
      BY <2>3, FiniteMarkets
    <2>5. PICK j \in V : \A y \in V : j <= y
      <3> HIDE DEF V
      <3> QED BY <2>4, SmallestNumber
    <2>6. j \in Markets /\ lack[j] # 0 /\ Less(j) \in SUBSET Markets /\ \A y \in Less(j) : lack[y] = 0
      BY <1>4, <2>5
    <2>7. SumOf(lack, Less(j)) = 0
      <3> HIDE DEF Less
      <3> QED BY <1>5, <2>6, SumZero
    <2>8. c + B(j) < i
      <3>1. B(j) = 0
        BY <1>6, <2>6, <2>7
      <3>2. i \in Int /\ c \in Int /\ c + 1 <= i
        BY <1>3, <1>6
      <3> HIDE DEF ids, V, Less
      <3>3. QED
        BY <3>1, <3>2
    <2>9. j \in Open(i)
      BY <1>4, <2>6, <2>8
    <2>10. QED
      BY <2>9
  <1> HIDE DEF Open, U
  <1>14. CASE lack[m] = 0
    <2>1. mine = {}
      BY <1>2, <1>12, <1>13, <1>14
    <2>2. QED
      BY <1>14, <2>1, FS_EmptySet DEF mine, lack
  <1>15. CASE lack[m] # 0
    <2> DEFINE lo == c + B(m) + 1
               hi == c + B(m) + lack[m]
    <2>1. lack[m] \in Nat /\ B(m) \in Nat /\ lack[m] > 0
      <3>1. lack[m] \in Nat
        BY <1>4
      <3>2. B(m) \in Nat
        BY <1>6
      <3>3. QED
        BY <1>15, <3>1, <3>2
    <2>2. lo \in Int /\ hi \in Int /\ ~(lo > hi) /\ hi - lo + 1 = lack[m]
      BY <1>3, <2>1
    <2>3. \A i : i \in lo..hi <=> i \in ids /\ c + B(m) < i /\ i <= c + B(m) + lack[m]
      BY <1>3, <1>6, <1>9, <2>1
    <2>4. \A i : i \in mine <=> i \in lo..hi
      <3> HIDE DEF lo, hi, ids
      <3> QED BY <1>2, <1>11, <1>12, <1>13, <2>1, <2>3
    <2>5. mine = lo..hi
      BY <2>4
    <2> HIDE DEF lo, hi
    <2>6. Cardinality(lo..hi) = lack[m]
      BY <2>2, FS_Interval
    <2>7. QED
      BY <2>5, <2>6 DEF mine, lack
  <1>16. QED
    BY <1>14, <1>15

\* The share of a market is a whole number of units.
LEMMA ShareIsExact ==
  ASSUME NEW wanted \in Nat, NEW K \in 1..Cardinality(Markets)
  PROVE  (wanted * Unit) \div K \in Nat /\ ((wanted * Unit) \div K) * K = wanted * Unit
  <1>1. K \in Nat \ {0} /\ Unit \in Nat /\ Unit % K = 0
    <2>1. Cardinality(Markets) \in Nat
      BY FiniteMarkets, FS_CardinalityType
    <2>2. K \in Nat \ {0}
      BY <2>1
    <2>3. QED
      BY <2>2, ConstantsAssumption
  <1> DEFINE part == Unit \div K
  <1>2. part \in Nat /\ Unit = part * K
    BY <1>1
  <1> HIDE DEF part
  <1>3. wanted * part \in Nat /\ wanted * Unit = (wanted * part) * K
    BY <1>1, <1>2
  <1> DEFINE x == wanted * part
             y == wanted * Unit
             z == y \div K
  <1>4. x \in Nat /\ y = x * K
    BY <1>3
  <1> HIDE DEF x, y
  <1>5. z \in Int /\ z * K <= x * K /\ x * K < z * K + K
    BY <1>1, <1>4
  <1> HIDE DEF z
  <1>6. z = x
    <2>1. x - z \in Int /\ (x - z) * K >= 0 /\ (x - z) * K < K
      BY <1>1, <1>4, <1>5
    <2>2. x - z < 1
      BY <1>1, <2>1
    <2>3. x - z > -1
      BY <1>1, <2>1
    <2>4. QED
      BY <1>4, <1>5, <2>2, <2>3
  <1>7. QED
    BY <1>4, <1>6 DEF y, z

\* x: what a market has after NextMarket.
Filled(size, w, share, corr, residual, number, over, x) ==
  /\ residual = share - size * w - corr
  /\ number = (residual + w - 1) \div w
  /\ over = IF residual < 0 THEN -residual ELSE number * w - residual
  /\ x = IF residual < 0 THEN size ELSE size + number

\* What a market has, from what it lacks of its share less the correction.
LEMMA CountsAgainstShare ==
  ASSUME NEW size \in Nat, NEW w \in Nat \ {0}, NEW share \in Nat, NEW corr \in Nat,
         NEW residual, NEW number, NEW over, NEW x,
         Filled(size, w, share, corr, residual, number, over, x)
  PROVE  /\ over \in Nat /\ size <= x /\ x \in Nat
         /\ x * w - share = over - corr
         /\ x > size => (x - 1) * w < share
  <1> DEFINE held == size * w
             more == number * w
             have == x * w
  <1>1. held \in Int
    OBVIOUS
  <1>2. residual \in Int
    BY <1>1 DEF Filled
  <1>3. number \in Int /\ residual <= more /\ more < residual + w
    BY <1>2, RoundedUp DEF Filled
  <1>4. more \in Int
    BY <1>3
  <1>5. residual >= 0 => number \in Nat
    <2>1. SUFFICES ASSUME residual >= 0, number < 0 PROVE FALSE
      BY <1>3
    <2>2. more < 0 * w
      BY <1>3, <2>1, Cancel
    <2> HIDE DEF more
    <2>3. QED
      BY <1>2, <1>3, <1>4, <2>1, <2>2
  <1>6. size <= x /\ x \in Nat
    BY <1>2, <1>5 DEF Filled
  <1>7. have \in Int /\ (x - 1) * w = have - w
    BY <1>6
  <1>8. have = IF residual < 0 THEN held ELSE held + more
    <2>1. (size + number) * w = held + more
      BY <1>3
    <2>2. QED
      BY <2>1 DEF Filled
  <1>9. residual = share - held - corr /\ over = IF residual < 0 THEN -residual ELSE more - residual
    BY DEF Filled
  <1> HIDE DEF held, more, have
  <1>10. over \in Nat
    BY <1>2, <1>3, <1>4, <1>9
  <1>11. have - share = over - corr
    BY <1>1, <1>2, <1>4, <1>7, <1>8, <1>9
  <1>12. x > size => have - w < share
    <2>1. SUFFICES ASSUME x > size PROVE have - w < share
      OBVIOUS
    <2>2. ~(residual < 0)
      BY <1>2, <2>1 DEF Filled
    <2>3. have = held + more
      BY <1>8, <2>2
    <2>4. QED
      BY <1>1, <1>2, <1>3, <1>4, <1>7, <1>9, <2>3
  <1>13. QED
    BY <1>6, <1>7, <1>10, <1>11, <1>12 DEF have

\* What is above the share comes off the shares of the L markets that are left.
LEMMA CorrectionIsCovered ==
  ASSUME NEW corr \in Nat, NEW over \in Nat, NEW L \in Nat, NEW gain \in Int, gain = over - corr,
         NEW next, next = IF L > 0 THEN corr + over \div L ELSE corr
  PROVE  next \in Nat /\ next * L <= gain + corr * (L + 1)
  <1>1. CASE L = 0
    <2>1. next = corr /\ corr * (L + 1) = corr /\ corr * L = 0
      BY <1>1
    <2>2. QED
      BY <2>1
  <1>2. CASE L # 0
    <2> DEFINE part == over \div L
    <2>1. next = corr + part
      BY <1>2
    <2>2. part \in Nat /\ part * L <= over
      BY <1>2, RoundedDown
    <2> HIDE DEF part
    <2> DEFINE cl == corr * L
               pl == part * L
    <2>3. next * L = cl + pl /\ corr * (L + 1) = cl + corr /\ cl \in Int /\ pl \in Int /\ pl <= over
      BY <2>1, <2>2
    <2> HIDE DEF cl, pl
    <2>4. QED
      BY <2>1, <2>2, <2>3
  <1>3. QED
    BY <1>1, <1>2

Share(wanted) == (wanted * Unit) \div Cardinality(_find_available_markets)

\* after: acc, when market m has been filled and L are left.
Gained(acc, after, insts, m, share, w, L) ==
  /\ after.left = L /\ after.correction \in Nat
  /\ \A x \in Markets : x # m => after.counts[x] = acc.counts[x]
  /\ market_size(insts, m) <= after.counts[m] /\ after.counts[m] \in Nat
  /\ after.correction * L <= (after.counts[m] * w - share) + acc.correction * (L + 1)
  /\ after.counts[m] > market_size(insts, m) => (after.counts[m] - 1) * w < share

\* One market more: it has its share but for the correction.
LEMMA MarketGains ==
  ASSUME now' \in Int, NEW insts, NEW n \in Nat, DOMAIN insts = 1..n, NEW wanted \in Nat,
         NEW acc \in Accs, NEW m \in _find_available_markets,
         NEW after, after = NextMarket(acc, m, insts, wanted),
         NEW L \in Nat, acc.left = L + 1, acc.correction \in Nat,
         acc.counts[m] = market_size(insts, m)
  PROVE  Gained(acc, after, insts, m, Share(wanted), Weight[m] * Unit, L)
  <1> DEFINE share == Share(wanted)
             w == Weight[m] * Unit
             size == market_size(insts, m)
             corr == acc.correction
             residual == Residual(insts, wanted, m) - corr
             number == (residual + w - 1) \div w
             over == IF residual < 0 THEN -residual ELSE number * w - residual
             x == after.counts[m]
             next == after.correction
  <1>1. acc.counts \in [Markets -> Int] /\ corr \in Nat /\ m \in Markets
    BY AvailableMarkets DEF Accs
  <1>2. size \in Nat
    BY FiniteInsts
  <1>3. w \in Nat \ {0}
    BY <1>1, FiniteMarkets, UnitType
  <1>4. share \in Nat
    <2>1. Cardinality(_find_available_markets) \in 1..Cardinality(Markets)
      BY AvailableMarkets
    <2>2. QED
      BY <2>1, ShareIsExact DEF Share
  <1>5. residual = share - size * w - corr
    <2>1. Weight[m] \in Nat
      BY <1>1, FiniteMarkets
    <2>2. size * Weight[m] * Unit = size * w
      <3> HIDE DEF size
      <3> QED BY <1>2, <2>1, UnitType
    <2>3. QED
      BY <2>2 DEF Residual, Share
  <1>6. after = [left |-> acc.left - 1,
                 correction |-> IF acc.left > 1 THEN corr + over \div (acc.left - 1) ELSE corr,
                 counts |-> IF residual < 0 THEN acc.counts ELSE [acc.counts EXCEPT ![m] = @ + number]]
    BY DEF NextMarket
  <1>7. number = (residual + w - 1) \div w /\ over = IF residual < 0 THEN -residual ELSE number * w - residual
    OBVIOUS
  <1> HIDE DEF size, corr, residual, number, over, w, share
  <1>8. after.left = L
    BY <1>6
  <1>9. \A y \in Markets : y # m => after.counts[y] = acc.counts[y]
    BY <1>1, <1>6
  <1>10. x = IF residual < 0 THEN size ELSE size + number
    BY <1>1, <1>6 DEF size
  <1>11. next = IF L > 0 THEN corr + over \div L ELSE corr
    <2>1. (L + 1 > 1 <=> L > 0) /\ (L + 1) - 1 = L
      OBVIOUS
    <2>2. QED
      BY <1>6, <2>1
  <1> HIDE DEF x, next
  <1>12. /\ over \in Nat /\ size <= x /\ x \in Nat
         /\ x * w - share = over - corr
         /\ x > size => (x - 1) * w < share
    <2>1. Filled(size, w, share, corr, residual, number, over, x)
      BY <1>5, <1>7, <1>10 DEF Filled
    <2>2. QED
      BY <1>1, <1>2, <1>3, <1>4, <2>1, CountsAgainstShare
  <1> DEFINE gain == x * w - share
  <1>13. gain \in Int
    BY <1>3, <1>4, <1>12
  <1>14. next \in Nat /\ next * L <= gain + corr * (L + 1)
    <2>1. gain = over - corr
      BY <1>12
    <2> HIDE DEF gain
    <2>2. QED
      BY <1>1, <1>11, <1>12, <1>13, <2>1, CorrectionIsCovered
  <1>15. QED
    BY <1>8, <1>9, <1>12, <1>14 DEF Gained, x, size, corr, next, w, share

\* What the markets have above the share.
Gains(c, share) == [m \in Markets |-> c[m] * (Weight[m] * Unit) - share]

\* acc: what there is after the markets of done, K - k of them being left.
Filling(acc, insts, share, done, left) ==
  /\ acc.left = left /\ acc.correction \in Nat
  /\ \A m \in Markets :
       /\ acc.counts[m] \in Nat /\ market_size(insts, m) <= acc.counts[m]
       /\ m \notin done => acc.counts[m] = market_size(insts, m)
       /\ acc.counts[m] > market_size(insts, m) => (acc.counts[m] - 1) * (Weight[m] * Unit) < share
  /\ acc.correction * left <= SumOf(Gains(acc.counts, share), done)

\* One market after the other is filled, and the corrections are always covered.
LEMMA MarketsFill ==
  ASSUME now' \in Int, PricesOK, NEW insts, NEW n \in Nat, DOMAIN insts = 1..n, NEW wanted \in Nat,
         _find_available_markets # {}
  PROVE  \E acc \in Accs : /\ Filling(acc, insts, Share(wanted), _find_available_markets, 0)
                           /\ acc.counts = _get_new_market_counts(insts, wanted)
  <1> DEFINE K == Cardinality(_find_available_markets)
             M == _find_available_markets
             q == _compute_market_residuals(insts, wanted)
             share == Share(wanted)
             Done(k) == {q[j] : j \in 1..k}
  <1>1. K \in 1..Cardinality(Markets) /\ K \in Nat \ {0} /\ M \in SUBSET Markets
    BY AvailableMarkets
  <1>2. share \in Nat
    BY <1>1, ShareIsExact DEF Share
  <1>3. PICK a : Walk(a, insts, wanted, q, K) /\ _get_new_market_counts(insts, wanted) = a[K].counts
    <2> HIDE DEF K, q
    <2> QED BY MarketWalk DEF K, q
  <1>4. /\ \A i \in 1..K : q[i] \in M
        /\ \A i, j \in 1..K : i # j => q[i] # q[j]
        /\ \A m \in M : \E i \in 1..K : q[i] = m
    <2>1. wanted \in Int /\ K = Cardinality(_find_available_markets) /\ q = _compute_market_residuals(insts, wanted)
      OBVIOUS
    <2> HIDE DEF K, q, M
    <2>2. Lists(q, K, _find_available_markets)
      BY <2>1, MarketsSorted
    <2>3. QED
      BY <2>2 DEF M, Lists
  <1> HIDE DEF q, share
  <1> DEFINE Good(k) == Filling(a[k], insts, share, Done(k), K - k)
  <1>5. Good(0)
    <2>1. a[0] = FirstAcc(insts)
      BY <1>3 DEF Walk
    <2>2. Done(0) = {}
      OBVIOUS
    <2>3. a[0].left = K - 0 /\ a[0].correction = 0 /\ \A m \in Markets : a[0].counts[m] = market_size(insts, m)
      BY <1>1, <2>1 DEF FirstAcc
    <2>4. \A m \in Markets : market_size(insts, m) \in Nat
      BY FiniteInsts
    <2> DEFINE zero == a[0]
               all == K - 0
    <2>5. zero.correction * all <= SumOf(Gains(zero.counts, share), {})
      <3>1. SumOf(Gains(zero.counts, share), {}) = 0
        BY SumEmpty
      <3>2. all \in Int /\ zero.correction = 0
        BY <1>1, <2>3
      <3> HIDE DEF zero, all
      <3>3. QED
        BY <3>1, <3>2
    <2>6. zero.left = all /\ zero.correction \in Nat
      BY <2>3
    <2>7. \A m \in Markets : zero.counts[m] = market_size(insts, m) /\ market_size(insts, m) \in Nat
      BY <2>3, <2>4
    <2> HIDE DEF zero, all, Done
    <2>8. Filling(zero, insts, share, {}, all)
      BY <2>5, <2>6, <2>7 DEF Filling
    <2>9. QED
      BY <2>2, <2>8 DEF zero, all
  <1>6. ASSUME NEW k \in 1..K, Good(k - 1)
        PROVE  Good(k)
    <2> DEFINE acc == a[k - 1]
               after == a[k]
               m == q[k]
               L == K - k
               w == Weight[m] * Unit
               old == Done(k - 1)
               new == Done(k)
    <2>1. L \in Nat /\ k \in 1..K /\ k - 1 \in 0..K /\ K - (k - 1) = L + 1
      BY <1>1
    <2>2. m \in M /\ m \in Markets
      BY <1>1, <1>4
    <2>3. old \in SUBSET Markets /\ m \notin old /\ \A x : x \in new <=> x \in old \cup {m}
      <3>1. 1..(k - 1) \in SUBSET (1..K) /\ \A j : j \in 1..k <=> j \in 1..(k - 1) \/ j = k
        BY <1>1
      <3>2. \A j \in 1..(k - 1) : j \in 1..K /\ j # k
        BY <1>1
      <3>3. QED
        BY <1>1, <1>4, <2>1, <3>1, <3>2
    <2>4. after = NextMarket(acc, m, insts, wanted) /\ acc \in Accs
      BY <1>3, <2>1 DEF Walk
    <2>5. Filling(acc, insts, share, old, L + 1)
      BY <1>6, <2>1
    <2> HIDE DEF K, M, acc, after, m, L, old, new, Done
    <2>6. acc.left = L + 1 /\ acc.correction \in Nat /\ acc.counts[m] = market_size(insts, m)
      BY <2>2, <2>3, <2>5 DEF Filling
    <2>7. /\ after.left = L /\ after.correction \in Nat
          /\ \A x \in Markets : x # m => after.counts[x] = acc.counts[x]
          /\ market_size(insts, m) <= after.counts[m] /\ after.counts[m] \in Nat
          /\ after.correction * L <= (after.counts[m] * w - share) + acc.correction * (L + 1)
          /\ after.counts[m] > market_size(insts, m) => (after.counts[m] - 1) * w < share
      <3>1. m \in _find_available_markets /\ L \in Nat
        BY <2>1, <2>2 DEF M
      <3>2. Gained(acc, after, insts, m, Share(wanted), Weight[m] * Unit, L)
        BY <2>4, <2>6, <3>1, MarketGains
      <3>3. QED
        BY <3>2 DEF Gained, share
    <2> HIDE DEF w
    <2>8. \A x \in Markets :
             /\ after.counts[x] \in Nat /\ market_size(insts, x) <= after.counts[x]
             /\ x \notin new => after.counts[x] = market_size(insts, x)
             /\ after.counts[x] > market_size(insts, x) => (after.counts[x] - 1) * (Weight[x] * Unit) < share
      <3>1. TAKE x \in Markets
      <3>2. CASE x = m
        BY <2>3, <2>7, <3>2 DEF w
      <3>3. CASE x # m
        BY <2>3, <2>5, <2>7, <3>3 DEF Filling
      <3>4. QED
        BY <3>2, <3>3
    <2> DEFINE f == Gains(acc.counts, share)
               g == Gains(after.counts, share)
    <2>9. \A x \in Markets : f[x] \in Int /\ g[x] \in Int /\ (x # m => g[x] = f[x])
      <3>1. TAKE x \in Markets
      <3>2. acc.counts[x] \in Nat /\ after.counts[x] \in Nat /\ Weight[x] \in Nat
        BY <2>5, <2>8, FiniteMarkets DEF Filling
      <3>3. f[x] = acc.counts[x] * (Weight[x] * Unit) - share /\ g[x] = after.counts[x] * (Weight[x] * Unit) - share
        BY DEF Gains
      <3>4. f[x] \in Int /\ g[x] \in Int
        <4>1. acc.counts[x] * (Weight[x] * Unit) \in Int /\ after.counts[x] * (Weight[x] * Unit) \in Int
          BY <3>2, UnitType
        <4>2. share \in Int
          BY <1>2
        <4>3. QED
          BY <3>3, <4>1, <4>2
      <3>5. QED
        BY <2>7, <3>3, <3>4
    <2>10. g[m] = after.counts[m] * w - share
      BY <2>2 DEF Gains, w
    <2> HIDE DEF f, g
    <2>11. IsFiniteSet(old) /\ new = old \cup {m}
      BY <2>3, FiniteMarkets, FS_Subset
    <2>12. SumOf(g, new) = SumOf(f, old) + g[m] /\ SumOf(f, old) \in Int /\ g[m] \in Int
      <3>1. \A y \in old \cup {m} : g[y] \in Int
        BY <2>2, <2>3, <2>9
      <3>2. SumOf(g, old \cup {m}) = SumOf(g, old) + g[m]
        BY <2>3, <2>11, <3>1, SumAdd
      <3>3. \A y \in old : f[y] = g[y] /\ f[y] \in Int
        BY <2>3, <2>9
      <3>4. SumOf(f, old) = SumOf(g, old) /\ SumOf(f, old) \in Int
        BY <2>11, <3>3, SumSame, SumType
      <3>5. QED
        BY <2>11, <3>1, <3>2, <3>4
    <2> DEFINE p == after.correction * L
               r == acc.correction * (L + 1)
               s == SumOf(f, old)
               z == SumOf(g, new)
    <2>13. p \in Int /\ r \in Int
      BY <2>1, <2>6, <2>7
    <2>14. r <= s
      BY <2>5 DEF Filling, f
    <2>15. p <= g[m] + r /\ z = s + g[m] /\ s \in Int /\ g[m] \in Int
      BY <2>7, <2>10, <2>12
    <2> HIDE DEF p, r, s, z
    <2>16. p <= z
      BY <2>13, <2>14, <2>15
    <2>17. Filling(after, insts, share, new, L)
      BY <2>7, <2>8, <2>16 DEF Filling, p, z, g
    <2>18. QED
      BY <2>17 DEF after, new, L
  <1>7. Good(K)
    <2> DEFINE D == {k \in 0..K : ~Good(k)}
    <2> HIDE DEF Good
    <2>1. SUFFICES ASSUME D # {} PROVE FALSE
      BY <1>1
    <2>2. D \in SUBSET Nat
      BY <1>1
    <2>3. PICK k \in D : \A j \in D : k <= j
      <3> HIDE DEF D
      <3> QED BY <2>1, <2>2, SmallestNumber
    <2>4. k \in 0..K /\ ~Good(k) /\ k # 0
      BY <1>5, <2>3
    <2>5. k \in 1..K /\ k - 1 \in 0..K /\ k - 1 \notin D
      BY <1>1, <2>3, <2>4
    <2>6. QED
      BY <1>6, <2>4, <2>5
  <1>8. Done(K) = M
    <2>1. \A m : m \in Done(K) <=> m \in M
      BY <1>4
    <2>2. QED
      BY <2>1
  <1>9. Filling(a[K], insts, share, M, 0)
    <2>1. K - K = 0
      BY <1>1
    <2> HIDE DEF K, M, Done
    <2>2. QED
      BY <1>7, <1>8, <2>1
  <1>10. a[K] \in Accs
    BY <1>1, <1>3 DEF Walk
  <1>11. QED
    BY <1>3, <1>9, <1>10 DEF share

Capacities(c) == [m \in Markets |-> c[m] * Weight[m]]

\* counts are enough, and none is more than one instance above the share.
Reaches(counts, insts, wanted, K) ==
  /\ \A m \in Markets : counts[m] \in Nat /\ market_size(insts, m) <= counts[m]
  /\ \A m \in Markets : counts[m] > market_size(insts, m) => (counts[m] - 1) * Weight[m] * K < wanted
  /\ wanted <= SumOf(Capacities(counts), Markets)

\* The counts of the fleet are such.
LEMMA CountsReach ==
  ASSUME now' \in Int, PricesOK, NEW insts, NEW n \in Nat, DOMAIN insts = 1..n, NEW wanted \in Nat,
         _find_available_markets # {}
  PROVE  Reaches(_get_new_market_counts(insts, wanted), insts, wanted, Cardinality(_find_available_markets))
  <1> DEFINE counts == _get_new_market_counts(insts, wanted)
             M == _find_available_markets
             K == Cardinality(M)
             share == Share(wanted)
  <1>1. K \in 1..Cardinality(Markets) /\ K \in Nat \ {0} /\ M \in SUBSET Markets /\ IsFiniteSet(M)
    BY AvailableMarkets
  <1>2. share \in Nat /\ share * K = wanted * Unit
    BY <1>1, ShareIsExact DEF Share
  <1>3. PICK acc \in Accs : Filling(acc, insts, share, M, 0) /\ acc.counts = counts
    BY MarketsFill
  <1> HIDE DEF counts, M, K, share
  <1>4. /\ \A m \in Markets :
             /\ counts[m] \in Nat /\ market_size(insts, m) <= counts[m]
             /\ counts[m] > market_size(insts, m) => (counts[m] - 1) * (Weight[m] * Unit) < share
    BY <1>3 DEF Filling
  <1>5. 0 <= SumOf(Gains(counts, share), M)
    <2>1. acc.correction * 0 <= SumOf(Gains(counts, share), M) /\ acc.correction \in Nat
      BY <1>3 DEF Filling
    <2>2. acc.correction * 0 = 0
      BY <2>1
    <2>3. QED
      BY <2>1, <2>2
  <1>6. ASSUME NEW m \in Markets, counts[m] > market_size(insts, m)
        PROVE  (counts[m] - 1) * Weight[m] * K < wanted
    <2> DEFINE c == counts[m] - 1
               v == Weight[m]
               x == c * v * K
    <2>1. counts[m] \in Nat /\ v \in Nat /\ K \in Nat \ {0} /\ c \in Int
      BY <1>1, <1>4, FiniteMarkets
    <2>2. c * (v * Unit) < share
      BY <1>4, <1>6
    <2> HIDE DEF c, v
    <2>3. c * (v * Unit) \in Int /\ x \in Int /\ c * (v * Unit) * K = x * Unit
      BY <2>1, UnitType
    <2>4. c * (v * Unit) * K < share * K
      <3> DEFINE y == c * (v * Unit)
      <3>1. y \in Int /\ y < share
        BY <2>2, <2>3
      <3> HIDE DEF y
      <3>2. y * K < share * K
        BY <1>2, <2>1, <3>1, Cancel
      <3>3. QED
        BY <3>2 DEF y
    <2> HIDE DEF x
    <2>5. x * Unit < wanted * Unit
      BY <1>2, <2>3, <2>4
    <2>6. x < wanted
      <3>1. Unit \in Nat \ {0}
        BY UnitType
      <3>2. QED
        BY <2>3, <2>5, <3>1, Cancel
    <2>7. QED
      BY <2>6 DEF x, c, v
  <1>7. wanted <= SumOf(Capacities(counts), Markets)
    <2> DEFINE f == Capacities(counts)
               g == Gains(counts, share)
               h == [m \in M |-> f[m] * Unit]
               e == [m \in M |-> share]
    <2>1. \A m \in Markets : f[m] \in Nat /\ f[m] = counts[m] * Weight[m]
      BY <1>4, FiniteMarkets DEF Capacities
    <2>2. ASSUME NEW m \in M
          PROVE  f[m] \in Int /\ h[m] = f[m] * Unit /\ e[m] = share /\ g[m] \in Int /\ h[m] = g[m] + e[m] /\ e[m] \in Int
      <3>1. m \in Markets /\ counts[m] \in Nat /\ Weight[m] \in Nat /\ f[m] = counts[m] * Weight[m]
        BY <1>1, <1>4, <2>1, FiniteMarkets
      <3>2. g[m] = counts[m] * (Weight[m] * Unit) - share
        BY <3>1 DEF Gains
      <3>3. counts[m] * (Weight[m] * Unit) = counts[m] * Weight[m] * Unit /\ counts[m] * Weight[m] * Unit \in Int
        BY <3>1, UnitType
      <3>4. h[m] = f[m] * Unit /\ e[m] = share
        OBVIOUS
      <3> HIDE DEF f, g, h, e
      <3>5. h[m] = counts[m] * Weight[m] * Unit
        BY <3>1, <3>4
      <3>6. QED
        BY <1>2, <2>1, <3>1, <3>2, <3>3, <3>4, <3>5
    <2> HIDE DEF f, g, h, e
    <2>3. SumOf(h, M) = SumOf(f, M) * Unit
      <3>1. Unit \in Int
        BY UnitType
      <3>2. QED
        BY <1>1, <2>2, <3>1, SumTimes
    <2>4. SumOf(h, M) = SumOf(g, M) + SumOf(e, M) /\ SumOf(g, M) \in Int
      BY <1>1, <2>2, SumPlus, SumType
    <2>5. SumOf(e, M) = share * K
      BY <1>1, <1>2, <2>2, SumConstant DEF K
    <2>6. SumOf(f, M) \in Nat /\ SumOf(f, Markets) \in Nat /\ SumOf(f, M) <= SumOf(f, Markets)
      BY <1>1, <2>1, FiniteMarkets, SumMonotone
    <2>7. wanted * Unit <= SumOf(f, M) * Unit
      <3>1. wanted * Unit \in Int /\ SumOf(h, M) = SumOf(g, M) + wanted * Unit
        BY <1>2, <2>4, <2>5, UnitType
      <3>2. 0 <= SumOf(g, M)
        BY <1>5 DEF g
      <3> DEFINE a == wanted * Unit
                 b == SumOf(g, M)
                 d == SumOf(f, M) * Unit
      <3>3. a \in Int /\ b \in Int /\ 0 <= b /\ d = b + a
        BY <2>3, <2>4, <3>1, <3>2
      <3> HIDE DEF a, b, d
      <3>4. a <= d
        BY <3>3
      <3>5. QED
        BY <3>4 DEF a, d
    <2>8. wanted <= SumOf(f, M)
      <3>1. Unit \in Nat \ {0}
        BY UnitType
      <3>2. QED
        BY <2>6, <2>7, <3>1, Cancel
    <2>9. QED
      BY <2>6, <2>8 DEF f
  <1>8. QED
    BY <1>4, <1>6, <1>7 DEF Reaches, counts, K, M

\* Capacity, market by market.
LEMMA CapacityByMarket ==
  ASSUME NEW insts, NEW n \in Nat, DOMAIN insts = 1..n, \A i \in DOMAIN insts : insts[i] \in InstSet,
         NEW sizes, \A m \in Markets : sizes[m] = market_size(insts, m)
  PROVE  fulfilled_capacity(insts) = SumOf(Capacities(sizes), Markets)
  <1> DEFINE S == Live(insts)
             f == Weights(insts, S)
             h == [i \in S |-> insts[i].market]
             g == Capacities(sizes)
  <1>1. S \in SUBSET DOMAIN insts /\ IsFiniteSet(S)
    BY FiniteInsts
  <1>2. \A i \in S : insts[i] \in InstSet /\ insts[i].market \in Markets
    BY <1>1 DEF InstSet
  <1>3. \A i \in S : f[i] = Weight[insts[i].market] /\ f[i] \in Int /\ h[i] = insts[i].market /\ h[i] \in Markets
    <2>1. \A i \in S : f[i] = Weight[insts[i].market] /\ Weight[insts[i].market] \in Nat
      <3> HIDE DEF S
      <3> QED BY <1>2, WeightsType
    <2>2. QED
      BY <1>2, <2>1
  <1> HIDE DEF f, h
  <1>4. SummedBy(f, S, h, g, Markets)
    <2>1. SUFFICES ASSUME NEW m \in Markets PROVE g[m] = SumOf(f, {y \in S : h[y] = m})
      BY DEF SummedBy
    <2> DEFINE P == {y \in S : h[y] = m}
    <2>2. P = In(insts, m)
      BY <1>3 DEF In
    <2>3. P \in SUBSET S /\ IsFiniteSet(P)
      BY <1>1, FS_Subset
    <2>4. \A y \in P : f[y] = Weight[m]
      BY <1>3
    <2>5. Weight[m] \in Nat /\ market_size(insts, m) \in Nat
      BY FiniteMarkets, FiniteInsts
    <2> HIDE DEF P, S
    <2>6. SumOf(f, P) = Weight[m] * Cardinality(P)
      BY <2>3, <2>4, <2>5, SumConstant
    <2>7. g[m] = market_size(insts, m) * Weight[m]
      BY DEF Capacities
    <2>8. market_size(insts, m) * Weight[m] = Weight[m] * market_size(insts, m)
      BY <2>5
    <2>9. market_size(insts, m) = Cardinality(P)
      BY <2>2 DEF market_size
    <2>10. QED
      BY <2>6, <2>7, <2>8, <2>9 DEF P
  <1> HIDE DEF S, g
  <1>5. SumOf(g, Markets) = SumOf(f, S)
    <2> DEFINE D == Markets
    <2>1. SummedBy(f, S, h, g, D) /\ IsFiniteSet(D)
      BY <1>4, FiniteMarkets
    <2>2. /\ IsFiniteSet(S) /\ \A y \in S : f[y] \in Int
          /\ \A y \in S : h[y] \in D
      BY <1>1, <1>3
    <2> HIDE DEF D
    <2>3. SumOf(g, D) = SumOf(f, S)
      BY <2>1, <2>2, SumPartition
    <2>4. QED
      BY <2>3 DEF D
  <1>6. QED
    BY <1>5, CpusIsSum DEF fulfilled_capacity, S, f, g

\* After the start of instances the markets have what they should.
LEMMA StartedSizes ==
  ASSUME NEW insts, NEW n \in Nat, DOMAIN insts = 1..n, NEW sizes, \A m \in Markets : sizes[m] \in Int,
         \A m \in Markets : market_size(insts, m) <= sizes[m],
         NEW delays, NEW bid, NEW new \in Started(insts, sizes, delays, bid), NEW t, NewOK(new, insts, t),
         NEW after, Replaced(after, insts, {}, new, t), NEW m \in Markets
  PROVE  market_size(after, m) = sizes[m]
  <1> DEFINE mine == {i \in DOMAIN new : new[i].market = m}
  <1>1. Cardinality(mine) = Lacking(insts, sizes)[m]
    BY StartedInMarkets
  <1>2. /\ DOMAIN insts \cap DOMAIN new = {} /\ IsFiniteSet(DOMAIN new)
        /\ In(insts, m) \in SUBSET DOMAIN insts /\ IsFiniteSet(In(insts, m))
        /\ market_size(insts, m) \in Nat
    BY NewApart, FiniteInsts
  <1>3. \A i \in DOMAIN new : new[i].end = -1
    BY DEF NewOK
  <1>4. /\ DOMAIN after = DOMAIN insts \cup DOMAIN new
        /\ \A i \in DOMAIN new : after[i] = new[i]
        /\ \A i \in DOMAIN insts : after[i] = insts[i]
    BY DEF Replaced
  <1>5. \A i : i \in In(after, m) <=> i \in In(insts, m) \cup mine
    BY <1>2, <1>3, <1>4 DEF In, Live
  <1>6. In(after, m) = In(insts, m) \cup mine
    BY <1>5
  <1>7. In(insts, m) \cap mine = {} /\ IsFiniteSet(mine)
    BY <1>2, FS_Subset
  <1> HIDE DEF mine
  <1>8. Cardinality(In(after, m)) = Cardinality(In(insts, m)) + Cardinality(mine) - Cardinality({})
    BY <1>2, <1>6, <1>7, FS_Union
  <1>9. Cardinality({}) = 0
    BY FS_EmptySet
  <1> DEFINE size == market_size(insts, m)
             l == Lacking(insts, sizes)[m]
  <1>10. market_size(after, m) = size + l - 0
    BY <1>1, <1>8, <1>9 DEF market_size
  <1>11. l = IF sizes[m] > size THEN sizes[m] - size ELSE 0
    BY DEF Lacking
  <1>12. size \in Nat /\ sizes[m] \in Int /\ size <= sizes[m]
    BY <1>2
  <1> HIDE DEF size, l
  <1>13. QED
    BY <1>10, <1>11, <1>12

\* Instances that are started bring the fleet to what is wanted, after those that
\* are left.
LEMMA IncreaseReaches ==
  ASSUME now' \in Nat, PricesOK, _find_available_markets # {}, NEW wanted \in Nat,
         NEW left, InstsOK(left, now'), NEW new \in Increase(left, wanted, Delays),
         NEW after, Replaced(after, left, {}, new, now')
  PROVE  /\ fulfilled_capacity(after) >= wanted
         /\ \A m \in Markets : market_size(after, m) > market_size(left, m) =>
              (market_size(after, m) - 1) * Weight[m] * Cardinality(_find_available_markets) < wanted
  <1> DEFINE K == Cardinality(_find_available_markets)
  <1>2. now' \in Int /\ wanted \in Nat /\ PricesOK /\ InstsOK(left, now')
    OBVIOUS
  <1>3. PICK n \in Nat : DOMAIN left = 1..n
    BY <1>2 DEF InstsOK
  <1>4. Delays \in SUBSET Int
    BY ConstantsAssumption
  <1>5. NewOK(new, left, now')
    BY <1>2, <1>3, <1>4, IncreaseOK
  <1>6. Replaced(after, left, {}, new, now')
    OBVIOUS
  <1>7. InstsOK(after, now')
    <2>1. {} \in SUBSET Live(left) /\ now' <= now'
      BY <1>2
    <2>2. QED
      BY <1>2, <1>5, <1>6, <2>1, ReplacedOK
  <1>8. CASE fulfilled_capacity(left) < wanted
    <2> DEFINE counts == _get_new_market_counts(left, wanted)
    <2>1. new \in Started(left, counts, Delays, Bid)
      BY <1>8 DEF Increase
    <2>2. Reaches(counts, left, wanted, K)
      BY <1>2, <1>3, CountsReach
    <2> HIDE DEF counts, K
    <2>3. \A m \in Markets : counts[m] \in Int /\ market_size(left, m) <= counts[m]
      BY <2>2 DEF Reaches
    <2>4. \A m \in Markets : market_size(after, m) = counts[m]
      BY <1>3, <1>5, <1>6, <2>1, <2>3, StartedSizes
    <2>5. fulfilled_capacity(after) = SumOf(Capacities(counts), Markets)
      <3>1. PICK k \in Nat : DOMAIN after = 1..k
        BY <1>7 DEF InstsOK
      <3>2. \A i \in DOMAIN after : after[i] \in InstSet
        BY <1>7 DEF InstsOK, InstOK
      <3>3. \A m \in Markets : counts[m] = market_size(after, m)
        BY <2>4
      <3>4. QED
        BY <3>1, <3>2, <3>3, CapacityByMarket
    <2>6. fulfilled_capacity(after) >= wanted
      BY <2>2, <2>5 DEF Reaches
    <2>7. \A m \in Markets : market_size(after, m) > market_size(left, m) =>
              (market_size(after, m) - 1) * Weight[m] * K < wanted
      BY <2>2, <2>4 DEF Reaches
    <2>8. QED
      BY <2>6, <2>7 DEF K
  <1>9. CASE ~(fulfilled_capacity(left) < wanted)
    <2>1. new = <<>>
      BY <1>9 DEF Increase
    <2>2. DOMAIN new = {}
      BY <2>1
    <2>3. Live(after) = Live(left) /\ \A i \in Live(left) : after[i] = left[i]
      BY <1>6, <2>2 DEF Replaced, Live
    <2>4. \A m \in Markets : In(after, m) = In(left, m)
      BY <2>3 DEF In
    <2>5. fulfilled_capacity(after) = fulfilled_capacity(left) /\ fulfilled_capacity(left) \in Int
      <3> DEFINE S == Live(left)
      <3>1. IsFiniteSet(S) /\ S \in SUBSET DOMAIN left
        BY <1>3, FiniteInsts
      <3>2. \A i \in S : left[i] \in InstSet
        BY <1>2, <3>1 DEF InstsOK, InstOK
      <3>3. \A i \in S : Weights(left, S)[i] \in Int /\ Weights(after, S)[i] = Weights(left, S)[i]
        <4>1. \A i \in S : Weights(left, S)[i] = Weight[left[i].market] /\ Weight[left[i].market] \in Nat
          <5> HIDE DEF S
          <5> QED BY <3>2, WeightsType
        <4>2. QED
          BY <2>3, <4>1 DEF Weights
      <3> HIDE DEF S
      <3>4. SumOf(Weights(after, S), S) = SumOf(Weights(left, S), S) /\ SumOf(Weights(left, S), S) \in Int
        BY <3>1, <3>3, SumSame, SumType
      <3>5. Cpus(after, S) = Cpus(left, S) /\ Cpus(left, S) \in Int
        BY <3>4, CpusIsSum
      <3>6. QED
        BY <2>3, <3>5 DEF fulfilled_capacity, S
    <2>6. \A m \in Markets : market_size(after, m) = market_size(left, m) /\ market_size(left, m) \in Nat
      BY <1>3, <2>4, FiniteInsts DEF market_size
    <2>7. fulfilled_capacity(after) >= wanted
      BY <1>2, <1>9, <2>5
    <2>8. \A m \in Markets : ~(market_size(after, m) > market_size(left, m))
      BY <2>6
    <2>9. QED
      BY <2>7, <2>8
  <1>10. QED
    BY <1>8, <1>9

\* Instances that end leave the others, and the fleet is brought to what is
\* wanted.
LEMMA ReplaceReaches ==
  ASSUME SimTypes, UNCHANGED now, _find_available_markets # {}, NEW wanted \in Nat,
         NEW S \in SUBSET Live(instances), NEW new \in Increase(Ended(S), wanted, Delays), Replace(S, new)
  PROVE  /\ fulfilled_capacity(instances') >= wanted
         /\ \A m \in Markets : market_size(instances', m) > market_size(instances, m) =>
              (market_size(instances', m) - 1) * Weight[m] * Cardinality(_find_available_markets) < wanted
  <1> DEFINE left == Ended(S)
             after == instances'
             none == <<>>
  <1>1. now \in Nat /\ now' = now /\ PricesOK /\ InstsOK(instances, now) /\ Delays \in SUBSET Int
    BY ConstantsAssumption DEF SimTypes
  <1>2. PICK n \in Nat : DOMAIN instances = 1..n
    BY <1>1 DEF InstsOK
  <1>3. DOMAIN none = {} /\ NewOK(none, instances, now)
    <2>1. DOMAIN none = {} /\ (n + 1)..n = {} /\ n <= n
      OBVIOUS
    <2> HIDE DEF none
    <2>2. QED
      BY <1>2, <2>1 DEF NewOK
  <1> HIDE DEF none
  <1>4. left = [i \in DOMAIN instances \cup DOMAIN none |->
                  IF i \in DOMAIN none THEN none[i]
                  ELSE IF i \in S THEN EndAt(instances[i], now) ELSE instances[i]]
    BY <1>1, <1>3 DEF Ended, Ids
  <1> HIDE DEF left
  <1>5. Replaced(left, instances, S, none, now)
    BY <1>1, <1>3, <1>4, EndedAndNew
  <1>6. InstsOK(left, now)
    BY <1>1, <1>3, <1>5, ReplacedOK
  <1>7. DOMAIN left = DOMAIN instances /\ new \in Increase(left, wanted, Delays)
    BY <1>3, <1>4 DEF left
  <1>8. NewOK(new, left, now')
    BY <1>1, <1>2, <1>7, IncreaseOK
  <1>9. Replaced(after, left, {}, new, now')
    <2>1. DOMAIN left \cap DOMAIN new = {}
      BY <1>8, NewApart
    <2>2. after = [i \in DOMAIN instances \cup DOMAIN new |-> IF i \in DOMAIN new THEN new[i]
                     ELSE IF i \in S THEN EndAt(instances[i], now') ELSE instances[i]]
      BY DEF Replace, Ids
    <2>3. \A i \in DOMAIN left : after[i] = left[i]
      BY <1>1, <1>3, <1>4, <1>7, <2>1, <2>2
    <2>4. QED
      BY <1>7, <2>1, <2>2, <2>3 DEF Replaced
  <1> HIDE DEF after
  <1>10. /\ fulfilled_capacity(after) >= wanted
         /\ \A m \in Markets : market_size(after, m) > market_size(left, m) =>
              (market_size(after, m) - 1) * Weight[m] * Cardinality(_find_available_markets) < wanted
    BY <1>1, <1>6, <1>7, <1>9, IncreaseReaches
  <1>11. PICK k \in Nat : DOMAIN after = 1..k
    <2>1. DOMAIN after = DOMAIN left \cup DOMAIN new
      BY <1>9 DEF Replaced
    <2>2. QED
      BY <1>8, <2>1, NewApart
  <1>12. ASSUME NEW m \in Markets
         PROVE  market_size(after, m) > market_size(instances, m) => market_size(after, m) > market_size(left, m)
    <2>1. \A i \in S : left[i].end = now
      BY <1>5 DEF Replaced
    <2>2. \A i \in DOMAIN instances \ S : left[i] = instances[i]
      BY <1>5 DEF Replaced
    <2>3. In(left, m) \in SUBSET In(instances, m)
      BY <1>1, <1>7, <2>1, <2>2 DEF In, Live
    <2>4. IsFiniteSet(In(instances, m))
      BY <1>2, FiniteInsts
    <2>5. market_size(left, m) <= market_size(instances, m)
      BY <2>3, <2>4, FS_Subset DEF market_size
    <2>6. /\ market_size(left, m) \in Nat /\ market_size(instances, m) \in Nat
          /\ market_size(after, m) \in Nat
      BY <1>2, <1>7, <1>11, FiniteInsts
    <2>7. QED
      BY <2>5, <2>6
  <1>13. QED
    BY <1>10, <1>12 DEF after

\* The fleet that nothing is taken from is brought to what is wanted.
LEMMA TargetReaches ==
  ASSUME SimTypes, UNCHANGED now, _find_available_markets # {}, NEW wanted \in Nat,
         NEW new \in Increase(instances, wanted, Delays), Replace({}, new)
  PROVE  /\ fulfilled_capacity(instances') >= wanted
         /\ \A m \in Markets : market_size(instances', m) > market_size(instances, m) =>
              (market_size(instances', m) - 1) * Weight[m] * Cardinality(_find_available_markets) < wanted
  <1> DEFINE after == instances'
  <1>1. now \in Nat /\ now' = now /\ PricesOK /\ InstsOK(instances, now) /\ Delays \in SUBSET Int
    BY ConstantsAssumption DEF SimTypes
  <1>2. PICK n \in Nat : DOMAIN instances = 1..n
    BY <1>1 DEF InstsOK
  <1>3. NewOK(new, instances, now')
    BY <1>1, <1>2, IncreaseOK
  <1>4. after = [i \in DOMAIN instances \cup DOMAIN new |->
                   IF i \in DOMAIN new THEN new[i]
                   ELSE IF i \in {} THEN EndAt(instances[i], now') ELSE instances[i]]
    BY DEF Replace, Ids
  <1> HIDE DEF after
  <1>5. {} \in SUBSET Live(instances)
    OBVIOUS
  <1>6. Replaced(after, instances, {}, new, now')
    BY <1>1, <1>3, <1>4, <1>5, EndedAndNew
  <1>7. /\ fulfilled_capacity(after) >= wanted
        /\ \A m \in Markets : market_size(after, m) > market_size(instances, m) =>
             (market_size(after, m) - 1) * Weight[m] * Cardinality(_find_available_markets) < wanted
    BY <1>1, <1>6, IncreaseReaches
  <1>8. QED
    BY <1>7 DEF after

\* Whenever its target changes or an instance is terminated and a market is
\* available, the fleet reaches its target, and no market that gets instances is
\* more than one instance above its share (_get_new_market_counts), whatever the
\* number of markets, the weights, the prices and the instances there are.
THEOREM FleetAlwaysReachesTarget ==
  Spec => FleetReachesTarget
  <1> DEFINE AtTarget ==
        (phase \in {"orphans", "target", "prune"} /\ Refilled /\ _find_available_markets # {}) =>
          /\ fulfilled_capacity(instances') >= target'
          /\ \A m \in Markets : market_size(instances', m) > market_size(instances, m) =>
               (market_size(instances', m) - 1) * Weight[m] * Cardinality(_find_available_markets)
                  < target'
  <1>1. CpuInv /\ [Next]_vars => [AtTarget]_vars
    <2>1. SUFFICES ASSUME CpuInv, [Next]_vars, phase \in {"orphans", "target", "prune"}, Refilled,
                          _find_available_markets # {}
                   PROVE  /\ fulfilled_capacity(instances') >= target'
                          /\ \A m \in Markets : market_size(instances', m) > market_size(instances, m) =>
                               (market_size(instances', m) - 1) * Weight[m] * Cardinality(_find_available_markets)
                                 < target'
      OBVIOUS
    <2>2. SimTypes
      BY <2>1 DEF CpuInv
    <2>3. ~UNCHANGED vars
      BY <2>1 DEF vars, Refilled
    <2>4. terminate_expired_orphan_instances \/ modify_target_capacity \/ Prune
      BY <2>1, <2>3 DEF Next, _make_autoscaler, _populate_cluster_size_events, Populate,
            _populate_autoscaling_events, _populate_price_changes, StartRun, HandleEvent, Pop,
            HandlePriceChange, HandleModifyClusterSize, HandleAutoscaling, EndRun
    <2>5. Step("orphans", "target") \/ Step("target", "prune") \/ Step("prune", "run")
      BY <2>4 DEF terminate_expired_orphan_instances, modify_target_capacity, Prune
    <2>6. UNCHANGED now
      BY <2>5 DEF Step
    <2>7. target' \in Targets \/ UNCHANGED target
      BY <2>4 DEF terminate_expired_orphan_instances, modify_target_capacity, Prune
    <2>8. target' \in Nat
      <3>1. target \in Targets \cup {0}
        BY <2>2 DEF SimTypes
      <3>2. Targets \cup {0} \in SUBSET Nat
        BY ConstantsAssumption
      <3>3. target' \in Targets \cup {0}
        BY <2>7, <3>1
      <3>4. QED
        BY <3>2, <3>3
    <2>9. ASSUME NEW S \in SUBSET Live(instances), terminate_instances_by_id(S), UNCHANGED target
          PROVE  /\ fulfilled_capacity(instances') >= target'
                 /\ \A m \in Markets : market_size(instances', m) > market_size(instances, m) =>
                      (market_size(instances', m) - 1) * Weight[m] * Cardinality(_find_available_markets)
                        < target'
      <3>1. S # {}
        <4>1. SUFFICES ASSUME S = {} PROVE FALSE
          OBVIOUS
        <4>2. UNCHANGED instances
          BY <2>9, <4>1 DEF terminate_instances_by_id
        <4>3. QED
          BY <2>1, <2>9, <4>2 DEF Refilled
      <3>2. PICK new \in Increase(Ended(S), target', Delays) : Replace(S, new)
        BY <2>9, <3>1 DEF terminate_instances_by_id
      <3>3. QED
        BY <2>1, <2>2, <2>6, <2>8, <3>2, ReplaceReaches
    <2>10. CASE terminate_expired_orphan_instances
      <3>1. Orphans \in SUBSET Live(instances)
        BY DEF Orphans
      <3>2. QED
        BY <2>9, <2>10, <3>1 DEF terminate_expired_orphan_instances
    <2>11. CASE Prune
      BY <2>9, <2>11 DEF Prune
    <2>12. CASE modify_target_capacity
      <3>1. target' # target
        <4>1. SUFFICES ASSUME target' = target PROVE FALSE
          OBVIOUS
        <4>2. UNCHANGED instances
          BY <2>12, <4>1 DEF modify_target_capacity
        <4>3. QED
          BY <2>1, <4>1, <4>2 DEF Refilled
      <3>2. PICK new \in Increase(instances, target', Delays) : Replace({}, new)
        BY <2>12, <3>1 DEF modify_target_capacity
      <3>3. QED
        BY <2>1, <2>2, <2>6, <2>8, <3>2, TargetReaches
    <2>13. QED
      BY <2>4, <2>10, <2>11, <2>12
  <1>2. QED
    BY <1>1, CpusAreKept, PTL DEF Spec, FleetReachesTarget

-----------------------------------------------------------------------------
(* Breakpoints in their order, and the first that is ahead.                 *)

\* q has the elements of D in order.
Increasing(q, K, D) ==
  /\ K \in Nat /\ DOMAIN q = 1..K /\ Len(q) = K
  /\ \A i \in 1..K : q[i] \in D /\ q[i] \in Int
  /\ \A i \in 1..K, j \in 1..K : i < j <=> q[i] < q[j]
  /\ \A x \in D : \E i \in 1..K : q[i] = x

\* Sorted numbers.
LEMMA SortedNumbers ==
  ASSUME NEW D \in SUBSET Int, IsFiniteSet(D), NEW q, q = Sorted(D), NEW K, K = Cardinality(D)
  PROVE  Increasing(q, K, D)
  <1> DEFINE R == {p \in D \X D : p[1] < p[2]}
  <1>1. q = [i \in 1..K |-> CHOOSE x \in D : Cardinality({y \in D : y < x}) = i - 1]
    BY DEF Sorted, SortedBy
  <1>2. \A x, y \in D : x \in Int /\ y \in Int /\ (<<x, y>> \in R <=> x < y)
    OBVIOUS
  <1> HIDE DEF R
  <1>3. Orders(R, D)
    BY <1>2 DEF Orders
  <1>4. \A x \in D : Below(R, D, x) = {y \in D : y < x}
    BY <1>2 DEF Below
  <1>5. K = Cardinality(D) /\ K \in Nat
    BY FS_CardinalityType
  <1>6. ASSUME NEW i \in 1..K
        PROVE  q[i] \in D /\ Cardinality(Below(R, D, q[i])) = i - 1
    <2>1. \E x \in D : Cardinality(Below(R, D, x)) = i - 1
      BY <1>3, <1>5, RankIsTaken
    <2>2. \E x \in D : Cardinality({y \in D : y < x}) = i - 1
      BY <1>4, <2>1
    <2>3. q[i] \in D /\ Cardinality({y \in D : y < q[i]}) = i - 1
      BY <1>1, <2>2
    <2>4. QED
      BY <1>4, <2>3
  <1>7. /\ \A i, j \in 1..K : i < j <=> <<q[i], q[j]>> \in R
        /\ \A x \in D : \E i \in 1..K : q[i] = x
    <2>1. Ranked(R, D, q)
      BY <1>5, <1>6 DEF Ranked
    <2>2. /\ \A i, j \in 1..Cardinality(D) : i < j <=> <<q[i], q[j]>> \in R
          /\ \A x \in D : \E i \in 1..Cardinality(D) : q[i] = x
      BY <1>3, <2>1, RankedOrder
    <2>3. QED
      BY <1>5, <2>2
  <1>8. DOMAIN q = 1..K /\ Len(q) = K
    BY <1>1, <1>5
  <1>9. \A i \in 1..K, j \in 1..K : i < j <=> q[i] < q[j]
    BY <1>2, <1>6, <1>7
  <1>10. QED
    BY <1>5, <1>6, <1>7, <1>8, <1>9 DEF Increasing

\* next: the first one that is later than x.
Ahead(q, K, next, x) == next \in 1..(K + 1) /\ \A i \in 1..K : i < next <=> q[i] <= x

\* There is one.
LEMMA AheadExists ==
  ASSUME NEW q, NEW K, NEW D, Increasing(q, K, D), NEW x \in Int
  PROVE  \E next \in 1..(K + 1) : Ahead(q, K, next, x)
  <1> DEFINE L == {i \in 1..K : ~(q[i] <= x)}
  <1>1. K \in Nat /\ \A i \in 1..K : q[i] \in Int
    BY DEF Increasing
  <1>2. CASE L = {}
    <2>1. Ahead(q, K, K + 1, x)
      BY <1>1, <1>2 DEF Ahead
    <2>2. QED
      BY <1>1, <2>1
  <1>3. CASE L # {}
    <2>1. L \in SUBSET Nat
      BY <1>1
    <2>2. PICK i \in L : \A j \in L : i <= j
      <3> HIDE DEF L
      <3> QED BY <1>3, <2>1, SmallestNumber
    <2>3. i \in 1..K /\ ~(q[i] <= x)
      OBVIOUS
    <2>4. ASSUME NEW j \in 1..K
          PROVE  j < i <=> q[j] <= x
      <3>1. CASE j < i
        BY <1>1, <2>2, <2>3, <3>1
      <3>2. CASE i < j
        <4>1. q[i] < q[j]
          BY <2>3, <3>2 DEF Increasing
        <4>2. QED
          BY <1>1, <2>3, <3>2, <4>1
      <3>3. CASE i = j
        BY <1>1, <2>3, <3>3
      <3>4. QED
        BY <1>1, <2>3, <3>1, <3>2, <3>3
    <2>5. Ahead(q, K, i, x)
      BY <1>1, <2>3, <2>4 DEF Ahead
    <2>6. QED
      BY <1>1, <2>3, <2>5
  <1>4. QED
    BY <1>2, <1>3

\* bisect counts up to it.
LEMMA BisectAhead ==
  ASSUME NEW f \in Pwf, NEW x \in Int, NEW K, NEW q, Increasing(q, K, DOMAIN f.breakpoints)
  PROVE  Ahead(q, K, bisect(f, x) + 1, x)
  <1> DEFINE D == DOMAIN f.breakpoints
             E == {b \in D : b <= x}
  <1>1. PICK next \in 1..(K + 1) : Ahead(q, K, next, x)
    BY AheadExists
  <1>2. K \in Nat /\ next \in Nat /\ next - 1 \in Nat
    BY <1>1 DEF Increasing
  <1> DEFINE I == 1..(next - 1)
             g == [i \in I |-> q[i]]
  <1>3. \A i \in I : i \in 1..K /\ q[i] \in E
    <2>1. \A i \in I : i \in 1..K /\ i < next
      BY <1>1, <1>2
    <2>2. QED
      BY <1>1, <2>1 DEF Increasing, Ahead
  <1>4. \A i, j \in I : q[i] = q[j] => i = j
    <2>1. SUFFICES ASSUME NEW i \in I, NEW j \in I, i < j PROVE q[i] # q[j]
      BY <1>2
    <2>2. i \in 1..K /\ j \in 1..K
      BY <1>3
    <2>3. q[i] < q[j] /\ q[i] \in Int
      BY <2>1, <2>2 DEF Increasing
    <2>4. QED
      BY <2>3
  <1>5. \A b \in E : \E i \in I : q[i] = b
    <2>1. SUFFICES ASSUME NEW b \in E PROVE \E i \in I : q[i] = b
      OBVIOUS
    <2>2. PICK i \in 1..K : q[i] = b
      BY DEF Increasing
    <2>3. i < next
      BY <1>1, <2>2 DEF Ahead
    <2>4. i \in I
      BY <1>2, <2>2, <2>3
    <2>5. QED
      BY <2>2, <2>4
  <1> HIDE DEF I, E
  <1>6. g \in Bijection(I, E)
    <2>1. g \in [I -> E] /\ \A i \in I : g[i] = q[i]
      BY <1>3
    <2> HIDE DEF g
    <2>2. \A i, j \in I : g[i] = g[j] => i = j
      BY <1>4, <2>1
    <2>3. \A b \in E : \E i \in I : g[i] = b
      BY <1>5, <2>1
    <2>4. QED
      BY <2>1, <2>2, <2>3 DEF Bijection, Injection, IsInjective, Surjection
  <1>7. IsFiniteSet(I) /\ Cardinality(I) = next - 1
    <2>1. 1 \in Int /\ next - 1 \in Int /\ (1 > next - 1 => next - 1 = 0) /\ next - 1 - 1 + 1 = next - 1
      BY <1>2
    <2>2. QED
      BY <2>1, FS_Interval DEF I
  <1> HIDE DEF g
  <1>8. Cardinality(E) = next - 1
    <2>1. ExistsBijection(I, E)
      BY <1>6 DEF ExistsBijection
    <2>2. QED
      BY <1>7, <2>1, FS_Bijection
  <1>9. bisect(f, x) = next - 1
    BY <1>8 DEF bisect, E
  <1>10. bisect(f, x) + 1 = next
    BY <1>2, <1>9
  <1>11. QED
    BY <1>1, <1>10

\* Behind counts on from there.
LEMMA BehindAhead ==
  ASSUME NEW q, NEW K, NEW D, Increasing(q, K, D), NEW x \in Int, NEW y \in Int, x <= y,
         NEW next, Ahead(q, K, next, x)
  PROVE  Behind(q, next, y) \in Nat /\ Ahead(q, K, next + Behind(q, next, y), y)
  <1>1. PICK m \in 1..(K + 1) : Ahead(q, K, m, y)
    BY AheadExists
  <1>2. K \in Nat /\ next \in 1..(K + 1) /\ Len(q) = K /\ \A i \in 1..K : q[i] \in Int
    BY DEF Increasing, Ahead
  <1>3. next <= m
    <2>1. SUFFICES ASSUME m < next PROVE FALSE
      BY <1>1, <1>2
    <2>2. m \in 1..K
      BY <1>1, <1>2, <2>1
    <2>3. q[m] <= x /\ ~(q[m] <= y)
      BY <1>1, <1>2, <2>1, <2>2 DEF Ahead
    <2>4. QED
      BY <1>2, <2>2, <2>3
  <1> DEFINE B == {i \in next..Len(q) : Reached(q[i], y)}
             lo == next
             hi == m - 1
  <1>4. \A i : i \in B <=> i \in lo..hi
    <2>1. \A i \in next..K : i \in 1..K
      BY <1>2
    <2>2. \A i \in 1..K : Reached(q[i], y) <=> i < m
      BY <1>1 DEF Ahead, Reached
    <2>3. \A i : i \in lo..hi <=> i \in next..K /\ i < m
      BY <1>1, <1>2
    <2>4. QED
      BY <1>2, <2>1, <2>2, <2>3
  <1>5. B = lo..hi
    BY <1>4
  <1>6. lo \in Int /\ hi \in Int /\ (lo > hi => m - next = 0) /\ hi - lo + 1 = m - next
    BY <1>1, <1>2, <1>3
  <1>7. Cardinality(lo..hi) = m - next
    <2> HIDE DEF lo, hi
    <2> QED BY <1>6, FS_Interval
  <1>8. Behind(q, next, y) = m - next
    <2> HIDE DEF lo, hi
    <2> QED BY <1>5, <1>7 DEF Behind
  <1>9. m - next \in Nat /\ next + (m - next) = m
    BY <1>1, <1>2, <1>3
  <1>10. QED
    BY <1>1, <1>8, <1>9

\* The value is that of the breakpoint before.
LEMMA CallAhead ==
  ASSUME NEW f \in Pwf, NEW x \in Int, NEW q, NEW K, Increasing(q, K, DOMAIN f.breakpoints),
         NEW next, Ahead(q, K, next, x)
  PROVE  /\ next = 1 => call(f, x) = f.initial
         /\ next # 1 => /\ next - 1 \in 1..K /\ q[next - 1] <= x
                        /\ call(f, x) = f.breakpoints[q[next - 1]]
  <1>1. K \in Nat /\ next \in 1..(K + 1) /\ \A b \in DOMAIN f.breakpoints : b \in Int /\ \E i \in 1..K : q[i] = b
    BY PwfParts DEF Increasing, Ahead
  <1>2. ASSUME next = 1 PROVE call(f, x) = f.initial
    <2>1. \A b \in DOMAIN f.breakpoints : ~(b <= x)
      <3>1. TAKE b \in DOMAIN f.breakpoints
      <3>2. PICK i \in 1..K : q[i] = b
        BY <1>1
      <3>3. ~(i < next)
        BY <1>1, <1>2
      <3>4. QED
        BY <3>2, <3>3 DEF Ahead
    <2>2. QED
      BY <2>1, CallNone
  <1>3. ASSUME next # 1
        PROVE  next - 1 \in 1..K /\ q[next - 1] <= x /\ call(f, x) = f.breakpoints[q[next - 1]]
    <2> DEFINE j == next - 1
    <2>1. j \in 1..K /\ j < next
      BY <1>1, <1>3
    <2>2. \A i \in 1..K : i < next => i < j \/ i = j
      BY <1>1, <2>1
    <2> HIDE DEF j
    <2>3. q[j] <= x /\ q[j] \in DOMAIN f.breakpoints /\ q[j] \in Int
      BY <2>1 DEF Ahead, Increasing
    <2>4. \A c \in DOMAIN f.breakpoints : c <= x => c <= q[j]
      <3>1. SUFFICES ASSUME NEW c \in DOMAIN f.breakpoints, c <= x PROVE c <= q[j]
        OBVIOUS
      <3>2. PICK i \in 1..K : q[i] = c
        BY <1>1
      <3>3. i < next
        BY <3>1, <3>2 DEF Ahead
      <3>4. CASE i = j
        BY <2>3, <3>2, <3>4
      <3>5. CASE i < j
        <4>1. q[i] < q[j]
          BY <2>1, <3>2, <3>5 DEF Increasing
        <4>2. QED
          BY <1>1, <2>3, <3>2, <4>1
      <3>6. QED
        BY <2>2, <3>3, <3>4, <3>5
    <2>5. call(f, x) = f.breakpoints[q[j]]
      BY <2>3, <2>4, CallIs
    <2>6. QED
      BY <2>1, <2>3, <2>5 DEF j
  <1>4. QED
    BY <1>2, <1>3

-----------------------------------------------------------------------------
(* values: the walk from point to point.                                    *)

\* There is only one.
LEMMA AheadUnique ==
  ASSUME NEW q, NEW K \in Nat, NEW x, NEW a, NEW b, Ahead(q, K, a, x), Ahead(q, K, b, x)
  PROVE  a = b
  <1>1. a \in 1..(K + 1) /\ b \in 1..(K + 1)
    BY DEF Ahead
  <1>2. CASE a < b
    <2>1. a \in 1..K /\ ~(a < a)
      BY <1>1, <1>2
    <2>2. QED
      BY <1>2, <2>1 DEF Ahead
  <1>3. CASE b < a
    <2>1. b \in 1..K /\ ~(b < b)
      BY <1>1, <1>3
    <2>2. QED
      BY <1>3, <2>1 DEF Ahead
  <1>4. QED
    BY <1>1, <1>2, <1>3

\* The breakpoints of a function, in order.
LEMMA BreaksIncrease ==
  ASSUME NEW f \in Pwf
  PROVE  Increasing(Breaks(f), Cardinality(DOMAIN f.breakpoints), DOMAIN f.breakpoints)
  BY PwfParts, SortedNumbers DEF Breaks

\* Breaks[i] for next <= i < next + n are those in between.
LEMMA FromHereOn ==
  ASSUME NEW f \in Pwf, NEW x \in Int, NEW y \in Int, x <= y, NEW q, q = Breaks(f),
         NEW next, next = bisect(f, x) + 1, NEW n, n = Behind(q, next, y)
  PROVE  \E K : /\ Increasing(q, K, DOMAIN f.breakpoints)
                /\ n \in Nat /\ next + n = bisect(f, y) + 1
                /\ Ahead(q, K, next, x) /\ Ahead(q, K, next + n, y)
  <1> DEFINE K == Cardinality(DOMAIN f.breakpoints)
  <1>1. Increasing(q, K, DOMAIN f.breakpoints)
    BY BreaksIncrease
  <1> HIDE DEF K
  <1>2. Ahead(q, K, next, x) /\ Ahead(q, K, bisect(f, y) + 1, y)
    BY <1>1, BisectAhead
  <1>3. n \in Nat /\ Ahead(q, K, next + n, y)
    BY <1>1, <1>2, BehindAhead
  <1>4. K \in Nat
    BY <1>1 DEF Increasing
  <1>5. next + n = bisect(f, y) + 1
    BY <1>2, <1>3, <1>4, AheadUnique
  <1>6. QED
    BY <1>1, <1>2, <1>3, <1>5

Standing(f, x) == [next |-> bisect(f, x) + 1, value |-> call(f, x)]

\* One value after the other.
LEMMA NextValueStands ==
  ASSUME NEW f \in Pwf, NEW x \in Int, NEW y \in Int, x <= y
  PROVE  NextValue(f, Breaks(f), Standing(f, x), y) = Standing(f, y)
  <1> DEFINE q == Breaks(f)
             next == bisect(f, x) + 1
             n == Behind(q, next, y)
  <1>1. PICK K : /\ Increasing(q, K, DOMAIN f.breakpoints)
                 /\ n \in Nat /\ next + n = bisect(f, y) + 1
                 /\ Ahead(q, K, next, x) /\ Ahead(q, K, next + n, y)
    BY FromHereOn
  <1>2. NextValue(f, q, Standing(f, x), y) =
          [next |-> next + n, value |-> IF n = 0 THEN call(f, x) ELSE f.breakpoints[q[next + n - 1]]]
    BY DEF NextValue, Standing
  <1>3. Standing(f, y) = [next |-> next + n, value |-> call(f, y)]
    BY <1>1 DEF Standing
  <1> HIDE DEF q, next, n
  <1>4. next \in Nat /\ next >= 1
    BY <1>1 DEF Ahead, Increasing
  <1>5. CASE n = 0
    <2>1. next + n = next
      BY <1>4, <1>5
    <2>2. call(f, y) = call(f, x)
      <3>1. CASE next = 1
        BY <1>1, <2>1, <3>1, CallAhead
      <3>2. CASE next # 1
        BY <1>1, <2>1, <3>2, CallAhead
      <3>3. QED
        BY <3>1, <3>2
    <2>3. QED
      BY <1>2, <1>3, <1>5, <2>2 DEF q
  <1>6. CASE n # 0
    <2>1. next + n # 1
      BY <1>1, <1>4, <1>6
    <2> DEFINE m == next + n
    <2>2. Ahead(q, K, m, y) /\ m # 1
      BY <1>1, <2>1
    <2> HIDE DEF m
    <2>3. call(f, y) = f.breakpoints[q[m - 1]]
      BY <1>1, <2>2, CallAhead
    <2>4. call(f, y) = f.breakpoints[q[next + n - 1]]
      BY <1>1, <1>4, <2>3 DEF m
    <2>5. QED
      BY <1>2, <1>3, <1>6, <2>4 DEF q
  <1>7. QED
    BY <1>5, <1>6

\* The smaller of two.
LEMMA SmallerOf ==
  ASSUME NEW a \in Int, NEW b \in Int
  PROVE  Min({a, b}) = IF a <= b THEN a ELSE b
  <1> DEFINE m == IF a <= b THEN a ELSE b
  <1>1. m \in {a, b} /\ \A y \in {a, b} : m <= y
    OBVIOUS
  <1>2. \A x \in {a, b} : (\A y \in {a, b} : x <= y) => x = m
    OBVIOUS
  <1> HIDE DEF m
  <1>3. Min({a, b}) = m
    BY <1>1, <1>2 DEF Min
  <1>4. QED
    BY <1>3 DEF m

\* The points at which values and integrals stop.
Stop(start, stop, step, k) == Min({stop, start + k * step})

\* They grow, and only the last one may be the end.
LEMMA StopsGrow ==
  ASSUME NEW start \in Int, NEW stop \in Int, start < stop, NEW step \in Nat \ {0},
         NEW P, P = Points(start, stop, step)
  PROVE  /\ P \in Nat /\ Stop(start, stop, step, 0) = start
         /\ \A k \in 0..P : Stop(start, stop, step, k) \in Int
         /\ \A k \in 1..P : /\ Stop(start, stop, step, k - 1) = start + (k - 1) * step
                            /\ Stop(start, stop, step, k - 1) <= Stop(start, stop, step, k)
  <1> DEFINE w == stop - start
  <1>1. w \in Nat \ {0}
    OBVIOUS
  <1>2. P \in Int /\ w <= P * step /\ P * step < w + step
    <2>1. w \in Int /\ P = (w + step - 1) \div step
      BY DEF Points
    <2> HIDE DEF w
    <2>2. QED
      BY <2>1, RoundedUp
  <1>3. P \in Nat
    <2>1. SUFFICES ASSUME P < 0 PROVE FALSE
      BY <1>2
    <2>2. P * step < 0 * step
      BY <1>2, <2>1, Cancel
    <2> DEFINE x == P * step
    <2>3. x \in Int /\ w <= x /\ x < 0
      BY <1>2, <2>2
    <2> HIDE DEF w, x
    <2>4. QED
      BY <1>1, <2>3
  <1>4. ASSUME NEW k \in 0..P
        PROVE  /\ k * step \in Nat
               /\ Stop(start, stop, step, k) = IF stop <= start + k * step THEN stop ELSE start + k * step
    <2>1. k \in Nat /\ k * step \in Nat
      BY <1>3
    <2>2. start + k * step \in Int
      BY <2>1
    <2>3. QED
      BY <2>1, <2>2, SmallerOf DEF Stop
  <1>5. ASSUME NEW k \in 1..P
        PROVE  /\ Stop(start, stop, step, k - 1) = start + (k - 1) * step
               /\ Stop(start, stop, step, k - 1) <= Stop(start, stop, step, k)
    <2> DEFINE j == k - 1
               a == j * step
               b == k * step
    <2>1. k \in 0..P /\ j \in 0..P /\ k \in Int
      BY <1>3
    <2>2. b = a + step /\ a \in Int /\ b \in Int
      BY <1>3
    <2>3. b <= P * step
      <3>1. k <= P /\ k \in Int /\ P \in Int
        BY <1>3
      <3>2. QED
        BY <3>1, Cancel
    <2>4. start + a < stop
      <3> DEFINE x == P * step
      <3>1. x \in Int /\ x < w + step /\ b <= x /\ w = stop - start
        BY <1>2, <2>3
      <3> HIDE DEF x, a, b, w
      <3>2. QED
        BY <2>2, <3>1
    <2>5. Stop(start, stop, step, j) = IF stop <= start + a THEN stop ELSE start + a
      BY <1>4, <2>1
    <2>6. Stop(start, stop, step, k) = IF stop <= start + b THEN stop ELSE start + b
      BY <1>4, <2>1
    <2> HIDE DEF a, b
    <2>7. Stop(start, stop, step, j) = start + a /\ Stop(start, stop, step, j) <= Stop(start, stop, step, k)
      BY <2>2, <2>4, <2>5, <2>6
    <2>8. QED
      BY <2>7 DEF a, j
  <1>6. Stop(start, stop, step, 0) = start
    <2>1. 0 \in 0..P /\ 0 * step = 0 /\ start + 0 = start
      BY <1>3
    <2>2. QED
      BY <1>4, <2>1
  <1>7. \A k \in 0..P : Stop(start, stop, step, k) \in Int
    BY <1>4
  <1>8. QED
    BY <1>3, <1>5, <1>6, <1>7

ValueBody(f, start, stop, step, w, k) ==
  IF k = 0 THEN [next |-> bisect(f, start) + 1, value |-> call(f, start)]
  ELSE NextValue(f, Breaks(f), w[k - 1], Min({stop, start + k * step}))
ValueRec(f, start, stop, step, w) ==
  w = [k \in 0..Points(start, stop, step) |-> ValueBody(f, start, stop, step, w, k)]

\* These are the parts of the definition.
LEMMA ValuesChoice ==
  ASSUME NEW f, NEW start, NEW stop, NEW step
  PROVE  values(f, start, stop, step) =
           [k \in 1..Points(start, stop, step) |-> (CHOOSE w : ValueRec(f, start, stop, step, w))[k - 1].value]
  BY DEF values, ValueRec, ValueBody

\* values: those of the function.
LEMMA ValuesAreRight ==
  ASSUME NEW f \in Pwf, NEW start \in Int, NEW stop \in Int, start < stop, NEW step \in Nat \ {0},
         NEW P, P = Points(start, stop, step)
  PROVE  P \in Nat /\ values(f, start, stop, step) = [k \in 1..P |-> call(f, start + (k - 1) * step)]
  <1> DEFINE X(k) == Stop(start, stop, step, k)
             v == [k \in 0..P |-> Standing(f, X(k))]
             w == CHOOSE w : ValueRec(f, start, stop, step, w)
  <1>1. /\ P \in Nat /\ X(0) = start /\ \A k \in 0..P : X(k) \in Int
        /\ \A k \in 1..P : X(k - 1) = start + (k - 1) * step /\ X(k - 1) <= X(k)
    BY StopsGrow
  <1>2. ASSUME NEW k \in 1..P
        PROVE  k - 1 \in 0..P /\ k # 0 /\ NextValue(f, Breaks(f), Standing(f, X(k - 1)), X(k)) = Standing(f, X(k))
    <2>1. k - 1 \in 0..P /\ k \in 0..P /\ k # 0
      BY <1>1
    <2>2. X(k - 1) \in Int /\ X(k) \in Int /\ X(k - 1) <= X(k)
      BY <1>1, <2>1
    <2> HIDE DEF X
    <2>3. QED
      BY <2>1, <2>2, NextValueStands
  <1>3. ASSUME NEW k \in 0..P, NEW u, k # 0 => u[k - 1] = Standing(f, X(k - 1))
        PROVE  ValueBody(f, start, stop, step, u, k) = Standing(f, X(k))
    <2>1. CASE k = 0
      BY <1>1, <2>1 DEF ValueBody, Standing
    <2>2. CASE k # 0
      <3>1. k \in 1..P
        BY <1>1, <2>2
      <3>2. ValueBody(f, start, stop, step, u, k) = NextValue(f, Breaks(f), u[k - 1], X(k))
        BY <2>2 DEF ValueBody, Stop
      <3> HIDE DEF X
      <3>3. QED
        BY <1>2, <1>3, <2>2, <3>1, <3>2
    <2>3. QED
      BY <2>1, <2>2
  <1> HIDE DEF X
  <1>4. ValueRec(f, start, stop, step, v)
    <2>1. ASSUME NEW k \in 0..P
          PROVE  ValueBody(f, start, stop, step, v, k) = Standing(f, X(k))
      <3>1. k # 0 => k - 1 \in 0..P
        BY <1>1
      <3>2. k # 0 => v[k - 1] = Standing(f, X(k - 1))
        BY <3>1
      <3> HIDE DEF v
      <3>3. QED
        BY <1>3, <3>2
    <2>2. v = [k \in 0..P |-> ValueBody(f, start, stop, step, v, k)]
      BY <2>1
    <2>3. QED
      BY <2>2 DEF ValueRec
  <1>5. ValueRec(f, start, stop, step, w)
    BY <1>4
  <1> HIDE DEF w, v
  <1>6. \A k \in 0..P : w[k] = ValueBody(f, start, stop, step, w, k)
    BY <1>5 DEF ValueRec
  <1> DEFINE D == {k \in 0..P : w[k] # Standing(f, X(k))}
  <1>7. D = {}
    <2>1. SUFFICES ASSUME D # {} PROVE FALSE
      OBVIOUS
    <2>2. D \in SUBSET Nat
      BY <1>1
    <2>3. PICK k \in D : \A j \in D : k <= j
      <3> HIDE DEF D
      <3> QED BY <2>1, <2>2, SmallestNumber
    <2>4. k \in 0..P /\ w[k] # Standing(f, X(k))
      OBVIOUS
    <2>5. k # 0 => k - 1 \in 0..P /\ k - 1 \notin D
      BY <1>1, <2>3, <2>4
    <2>6. k # 0 => w[k - 1] = Standing(f, X(k - 1))
      BY <2>5
    <2>7. QED
      BY <1>3, <1>6, <2>4, <2>6
  <1>8. \A k \in 1..P : w[k - 1].value = call(f, start + (k - 1) * step)
    <2>1. TAKE k \in 1..P
    <2>2. k - 1 \in 0..P
      BY <1>1
    <2>3. w[k - 1] = Standing(f, X(k - 1))
      BY <1>7, <2>2
    <2>4. w[k - 1].value = call(f, X(k - 1))
      BY <2>3 DEF Standing
    <2>5. QED
      BY <1>1, <2>4
  <1>9. values(f, start, stop, step) = [k \in 1..P |-> w[k - 1].value]
    BY ValuesChoice DEF w
  <1>10. QED
    BY <1>1, <1>8, <1>9

-----------------------------------------------------------------------------
(* Walks along a sequence, and areas.                                       *)

\* F makes a[k] of a[k - 1] and k.
Steps(F, base, V, K, a) ==
  /\ a[0] = base
  /\ \A k \in 1..K : a[k - 1] \in V /\ a[k] = F[<<a[k - 1], k>>]
  /\ \A k \in 0..K : a[k] \in V

\* g has what F makes of any of the numbers up to K, in order.
Follows(F, base, V, K, g) ==
  \A s \in SUBSET (1..K) :
    /\ s = {} => g[s] = base
    /\ s # {} /\ g[s \ {Max(s)}] \in V => g[s] = F[<<g[s \ {Max(s)}], Max(s)>>]

WalkOf(F, base, K, g) ==
  g = [s \in SUBSET (1..K) |-> IF s = {} THEN base ELSE F[<<g[s \ {Max(s)}], Max(s)>>]]

\* There is one.
LEMMA WalkExists ==
  ASSUME NEW K \in Nat, NEW V, NEW base \in V, NEW F \in [V \X (1..K) -> V]
  PROVE  \E g : WalkOf(F, base, K, g) /\ \A s \in SUBSET (1..K) : g[s] \in V
  <1> DEFINE S == 1..K
             c == [s \in SUBSET S |-> Max(s)]
  <1>1. IsFiniteSet(S) /\ \A s \in SUBSET S : c[s] = Max(s) /\ (s # {} => c[s] \in s)
    BY IntervalMax
  <1>2. F \in [V \X S -> V]
    OBVIOUS
  <1> HIDE DEF S, c
  <1>3. PICK g : FoldRec(F, base, c, g, S)
    BY <1>1, FoldExists
  <1>4. \A s \in SUBSET S : g[s] \in V
    BY <1>1, <1>2, <1>3, FoldType
  <1>5. g = [s \in SUBSET S |-> IF s = {} THEN base ELSE F[<<g[s \ {Max(s)}], Max(s)>>]]
    BY <1>1, <1>3 DEF FoldRec, FoldBody
  <1>6. QED
    BY <1>4, <1>5 DEF WalkOf, S

Arrives(F, base, V, K, end) == \E a : Steps(F, base, V, K, a) /\ a[K] = end

\* Over all of them it makes one step after the other.
LEMMA WalkSteps ==
  ASSUME NEW K \in Nat, NEW V, NEW base \in V, NEW F \in [V \X (1..K) -> V],
         NEW g, Follows(F, base, V, K, g)
  PROVE  Arrives(F, base, V, K, g[1..K])
  <1> DEFINE a == [k \in 0..K |-> g[1..k]]
  <1>1. a[0] = base
    <2>1. 1..0 = {} /\ 1..0 \in SUBSET (1..K)
      OBVIOUS
    <2>2. a[0] = g[1..0]
      BY 0 \in 0..K
    <2> HIDE DEF a
    <2>3. QED
      BY <2>1, <2>2 DEF Follows
  <1>2. ASSUME NEW k \in 1..K, a[k - 1] \in V
        PROVE  a[k] = F[<<a[k - 1], k>>] /\ a[k] \in V
    <2>1. k \in Nat /\ k # 0 /\ k - 1 \in 0..K /\ k \in 0..K /\ 1..k \in SUBSET (1..K)
      OBVIOUS
    <2>2. 1..k # {} /\ Max(1..k) = k /\ (1..k) \ {k} = 1..(k - 1)
      BY <2>1, IntervalTop
    <2>3. a[k] = g[1..k] /\ a[k - 1] = g[1..(k - 1)]
      BY <2>1
    <2> HIDE DEF a
    <2>4. g[1..k] = F[<<g[1..(k - 1)], k>>]
      BY <1>2, <2>1, <2>2, <2>3 DEF Follows
    <2>5. F[<<a[k - 1], k>>] \in V
      BY <1>2
    <2>6. QED
      BY <2>3, <2>4, <2>5
  <1>3. a[K] = g[1..K]
    OBVIOUS
  <1> HIDE DEF a
  <1>4. \A k \in 0..K : a[k] \in V
    <2> DEFINE D == {k \in 0..K : a[k] \notin V}
    <2>1. SUFFICES ASSUME D # {} PROVE FALSE
      OBVIOUS
    <2>2. D \in SUBSET Nat
      OBVIOUS
    <2>3. PICK k \in D : \A j \in D : k <= j
      <3> HIDE DEF D
      <3> QED BY <2>1, <2>2, SmallestNumber
    <2>4. k # 0 /\ k \in 1..K /\ k - 1 \in 0..K /\ k - 1 \notin D /\ a[k] \notin V
      BY <1>1, <2>2, <2>3
    <2>5. QED
      BY <1>2, <2>4
  <1>5. \A k \in 1..K : k - 1 \in 0..K
    OBVIOUS
  <1>6. QED
    BY <1>1, <1>2, <1>3, <1>4, <1>5 DEF Steps, Arrives

-----------------------------------------------------------------------------
\* Area: the integral from a to b.
AreaOf(f, a, b) == SumOf([t \in a..(b - 1) |-> call(f, t)], a..(b - 1))

\* It is a number.
LEMMA AreaType ==
  ASSUME NEW f \in Pwf, NEW a \in Int, NEW b \in Int
  PROVE  AreaOf(f, a, b) \in Int /\ AreaOf(f, a, a) = 0
  <1> DEFINE S == a..(b - 1)
             g == [t \in S |-> call(f, t)]
  <1>1. IsFiniteSet(S)
    BY FS_Interval
  <1>2. \A t \in S : g[t] \in Int
    BY CallType
  <1>3. SumOf(g, S) \in Int
    <2> HIDE DEF g, S
    <2> QED BY <1>1, <1>2, SumType
  <1>4. AreaOf(f, a, b) \in Int
    BY <1>3 DEF AreaOf
  <1>5. a..(a - 1) = {}
    OBVIOUS
  <1>6. AreaOf(f, a, a) = 0
    BY <1>5, SumEmpty DEF AreaOf
  <1>7. QED
    BY <1>4, <1>6

\* Two areas side by side.
LEMMA AreaSplit ==
  ASSUME NEW f \in Pwf, NEW a \in Int, NEW b \in Int, NEW c \in Int, a <= b, b <= c
  PROVE  AreaOf(f, a, c) = AreaOf(f, a, b) + AreaOf(f, b, c)
  <1> DEFINE S == a..(c - 1)
             T == b..(c - 1)
             R == a..(b - 1)
             g == [t \in S |-> call(f, t)]
             gT == [t \in T |-> call(f, t)]
             gR == [t \in R |-> call(f, t)]
  <1>1. T \in SUBSET S /\ S \ T = R
    <2>1. \A i : i \in R <=> i \in S /\ i \notin T
      OBVIOUS
    <2>2. QED
      BY <2>1
  <1>2. IsFiniteSet(S) /\ IsFiniteSet(T) /\ IsFiniteSet(R)
    BY FS_Interval
  <1>3. \A t \in S : g[t] \in Int
    BY CallType
  <1>4. (\A t \in T : gT[t] = g[t]) /\ (\A t \in R : gR[t] = g[t])
    BY <1>1
  <1>5. AreaOf(f, a, c) = SumOf(g, S) /\ AreaOf(f, a, b) = SumOf(gR, R) /\ AreaOf(f, b, c) = SumOf(gT, T)
    BY DEF AreaOf
  <1> HIDE DEF S, T, R, g, gT, gR
  <1>6. SumOf(g, S) = SumOf(g, S \ T) + SumOf(g, T)
    BY <1>1, <1>2, <1>3, SumSplit
  <1>7. SumOf(gT, T) = SumOf(g, T)
    BY <1>2, <1>4, SumSame
  <1>8. SumOf(gR, R) = SumOf(g, R)
    BY <1>2, <1>4, SumSame
  <1>9. QED
    BY <1>1, <1>5, <1>6, <1>7, <1>8

\* The area of a piece without breakpoints inside.
LEMMA AreaFlat ==
  ASSUME NEW f \in Pwf, NEW a \in Int, NEW b \in Int, a <= b,
         \A x \in DOMAIN f.breakpoints : ~(a < x /\ x < b)
  PROVE  AreaOf(f, a, b) = (b - a) * call(f, a)
  <1> DEFINE S == a..(b - 1)
             g == [t \in S |-> call(f, t)]
             u == call(f, a)
             n == Cardinality(S)
  <1>1. IsFiniteSet(S) /\ n = b - a
    <2> DEFINE c == b - 1
    <2>1. c \in Int /\ (a > c => b - a = 0) /\ c - a + 1 = b - a
      OBVIOUS
    <2>2. IsFiniteSet(a..c) /\ Cardinality(a..c) = IF a > c THEN 0 ELSE c - a + 1
      <3> HIDE DEF c
      <3> QED BY <2>1, FS_Interval
    <2>3. QED
      BY <2>1, <2>2
  <1>2. u \in Int
    BY CallType
  <1>3. \A t \in S : g[t] = u
    <2>1. SUFFICES ASSUME NEW t \in S PROVE call(f, t) = call(f, a)
      OBVIOUS
    <2>2. t \in Int /\ a <= t /\ t < b
      OBVIOUS
    <2>3. \A x \in DOMAIN f.breakpoints : x \in Int
      BY PwfParts
    <2>4. \A x \in DOMAIN f.breakpoints : ~(a < x /\ x <= t)
      BY <2>2, <2>3
    <2>5. QED
      BY <2>2, <2>4, CallSame
  <1>4. AreaOf(f, a, b) = SumOf(g, S)
    BY DEF AreaOf
  <1> HIDE DEF S, g, u
  <1>5. SumOf(g, S) = u * n /\ n \in Nat
    BY <1>1, <1>2, <1>3, SumConstant
  <1>6. AreaOf(f, a, b) = u * (b - a)
    BY <1>1, <1>4, <1>5
  <1>7. u * (b - a) = (b - a) * u
    BY <1>2
  <1>8. QED
    BY <1>6, <1>7 DEF u

-----------------------------------------------------------------------------
(* integrals: the pieces of a chunk.                                        *)

PieceBody(f, base, q, h, s) == IF s = {} THEN base ELSE Piece(f, h[s \ {Max(s)}], q[Max(s)])
PieceRec(f, base, q, h) == h = [s \in SUBSET (DOMAIN q) |-> PieceBody(f, base, q, h, s)]
PieceWalk(f, base, q) == CHOOSE h : PieceRec(f, base, q, h)
ChunkOf(acc, end, next) ==
  [x |-> end, value |-> acc.value, next |-> next, area |-> acc.area + (end - acc.x) * acc.value]

\* These are the parts of the definition.
LEMMA ChunkChoice ==
  ASSUME NEW f, NEW bps, NEW last, NEW end
  PROVE  NextChunk(f, bps, last, end) =
           ChunkOf(PieceWalk(f, [area |-> 0, x |-> last.x, value |-> last.value],
                             SubSeq(bps, last.next, last.next + Behind(bps, last.next, end) - 1))
                     [DOMAIN SubSeq(bps, last.next, last.next + Behind(bps, last.next, end) - 1)],
                   end, last.next + Behind(bps, last.next, end))
  BY DEF NextChunk, FoldLeft, MapThenFoldSet, PieceRec, PieceBody, PieceWalk, ChunkOf

PieceSet == [area : Int, x : Int, value : Int]

\* One piece after the other.
Pieces(f, base, q, n, a) ==
  a[0] = base /\ (\A k \in 1..n : a[k] = Piece(f, a[k - 1], q[k])) /\ \A k \in 0..n : a[k] \in PieceSet

\* They are the parts of a chunk.
LEMMA PiecesWalk ==
  ASSUME NEW f \in Pwf, NEW base \in PieceSet, NEW n \in Nat, NEW q, DOMAIN q = 1..n,
         \A i \in 1..n : q[i] \in DOMAIN f.breakpoints
  PROVE  \E a : Pieces(f, base, q, n, a) /\ a[n] = PieceWalk(f, base, q)[DOMAIN q]
  <1> DEFINE F == [p \in PieceSet \X (1..n) |-> Piece(f, p[1], q[p[2]])]
             h == PieceWalk(f, base, q)
  <1>1. \A acc \in PieceSet, i \in 1..n : Piece(f, acc, q[i]) \in PieceSet
    <2>1. SUFFICES ASSUME NEW acc \in PieceSet, NEW i \in 1..n PROVE Piece(f, acc, q[i]) \in PieceSet
      OBVIOUS
    <2>2. q[i] \in Int /\ f.breakpoints[q[i]] \in Int
      BY PwfParts
    <2>3. acc.area \in Int /\ acc.x \in Int /\ acc.value \in Int
      BY DEF PieceSet
    <2>4. acc.area + (q[i] - acc.x) * acc.value \in Int
      BY <2>2, <2>3
    <2>5. QED
      BY <2>2, <2>4 DEF Piece, PieceSet
  <1>2. /\ F \in [PieceSet \X (1..n) -> PieceSet]
        /\ \A acc \in PieceSet, i \in 1..n : F[<<acc, i>>] = Piece(f, acc, q[i])
    BY <1>1
  <1> HIDE DEF F
  <1>3. PICK g : WalkOf(F, base, n, g) /\ \A s \in SUBSET (1..n) : g[s] \in PieceSet
    BY <1>2, WalkExists
  <1>4. \A s \in SUBSET (1..n) : s # {} => Max(s) \in 1..n /\ s \ {Max(s)} \in SUBSET (1..n)
    BY IntervalMax
  <1>5. PieceRec(f, base, q, g)
    <2>1. \A s \in SUBSET (1..n) : g[s] = PieceBody(f, base, q, g, s)
      BY <1>2, <1>3, <1>4 DEF WalkOf, PieceBody
    <2>2. g = [s \in SUBSET (1..n) |-> g[s]]
      BY <1>3 DEF WalkOf
    <2>3. QED
      BY <2>1, <2>2 DEF PieceRec
  <1>6. PieceRec(f, base, q, h)
    BY <1>5 DEF PieceWalk
  <1> HIDE DEF h
  <1>7. Follows(F, base, PieceSet, n, h)
    <2>1. \A s \in SUBSET (1..n) : h[s] = PieceBody(f, base, q, h, s)
      BY <1>6 DEF PieceRec
    <2>2. SUFFICES ASSUME NEW s \in SUBSET (1..n), s # {}, h[s \ {Max(s)}] \in PieceSet
                   PROVE  h[s] = F[<<h[s \ {Max(s)}], Max(s)>>]
      BY <2>1 DEF Follows, PieceBody
    <2>3. Max(s) \in 1..n
      BY <1>4, <2>2
    <2>4. QED
      BY <1>2, <2>1, <2>2, <2>3 DEF PieceBody
  <1>8. PICK a : Steps(F, base, PieceSet, n, a) /\ a[n] = h[1..n]
    <2>1. F \in [PieceSet \X (1..n) -> PieceSet]
      BY <1>2
    <2>2. Arrives(F, base, PieceSet, n, h[1..n])
      BY <1>7, <2>1, WalkSteps
    <2>3. QED
      BY <2>2 DEF Arrives
  <1>9. Pieces(f, base, q, n, a)
    BY <1>2, <1>8 DEF Pieces, Steps
  <1>10. QED
    BY <1>8, <1>9 DEF h

\* Where integrals stands at x, after the chunk from a.
Chunk(f, a, x) == [x |-> x, value |-> call(f, x), area |-> AreaOf(f, a, x), next |-> bisect(f, x) + 1]

\* Arithmetic of a piece more.
PieceAt(f, x, y) == [area |-> AreaOf(f, x, y), x |-> y, value |-> call(f, y)]

\* To the next breakpoint.
LEMMA PieceStands ==
  ASSUME NEW f \in Pwf, NEW x \in Int, NEW y \in Int, x <= y, NEW b \in DOMAIN f.breakpoints, y <= b,
         \A c \in DOMAIN f.breakpoints : ~(y < c /\ c < b)
  PROVE  Piece(f, PieceAt(f, x, y), b) = PieceAt(f, x, b)
  <1>1. b \in Int /\ \A c \in DOMAIN f.breakpoints : c \in Int
    BY PwfParts
  <1>2. AreaOf(f, y, b) = (b - y) * call(f, y)
    BY <1>1, AreaFlat
  <1>3. AreaOf(f, x, b) = AreaOf(f, x, y) + AreaOf(f, y, b)
    BY <1>1, AreaSplit
  <1>4. call(f, b) = f.breakpoints[b]
    <2>1. b <= b /\ \A c \in DOMAIN f.breakpoints : c <= b => c <= b
      BY <1>1
    <2>2. QED
      BY <1>1, <2>1, CallIs
  <1>5. QED
    BY <1>2, <1>3, <1>4 DEF Piece, PieceAt

\* To the end of the chunk.
LEMMA ChunkEnds ==
  ASSUME NEW f \in Pwf, NEW x \in Int, NEW y \in Int, x <= y, NEW end \in Int, y <= end,
         \A c \in DOMAIN f.breakpoints : ~(y < c /\ c <= end), NEW next, next = bisect(f, end) + 1
  PROVE  ChunkOf(PieceAt(f, x, y), end, next) = Chunk(f, x, end)
  <1>1. \A c \in DOMAIN f.breakpoints : c \in Int
    BY PwfParts
  <1>2. AreaOf(f, y, end) = (end - y) * call(f, y)
    BY <1>1, AreaFlat
  <1>3. AreaOf(f, x, end) = AreaOf(f, x, y) + AreaOf(f, y, end)
    BY <1>1, AreaSplit
  <1>4. call(f, end) = call(f, y)
    BY <1>1, CallSame
  <1>5. QED
    BY <1>2, <1>3, <1>4 DEF ChunkOf, PieceAt, Chunk

\* One chunk after the other.
LEMMA NextChunkStands ==
  ASSUME NEW f \in Pwf, NEW x \in Int, NEW y \in Int, x <= y, NEW a \in Int
  PROVE  NextChunk(f, Breaks(f), Chunk(f, a, x), y) = Chunk(f, x, y)
  <1> DEFINE q == Breaks(f)
             D == DOMAIN f.breakpoints
             next == bisect(f, x) + 1
             n == Behind(q, next, y)
             r == SubSeq(q, next, next + n - 1)
             base == PieceAt(f, x, x)
  <1>1. PICK K : /\ Increasing(q, K, D)
                 /\ n \in Nat /\ next + n = bisect(f, y) + 1
                 /\ Ahead(q, K, next, x) /\ Ahead(q, K, next + n, y)
    BY FromHereOn
  <1>2. NextChunk(f, q, Chunk(f, a, x), y) =
          ChunkOf(PieceWalk(f, base, r)[DOMAIN r], y, next + n)
    <2>1. Chunk(f, a, x).next = next /\ Chunk(f, a, x).x = x /\ Chunk(f, a, x).value = call(f, x)
      BY DEF Chunk
    <2> DEFINE last == Chunk(f, a, x)
    <2>2. base = [area |-> 0, x |-> last.x, value |-> last.value]
      BY <2>1, AreaType DEF PieceAt
    <2>3. n = Behind(q, last.next, y) /\ r = SubSeq(q, last.next, last.next + n - 1)
      BY <2>1
    <2> HIDE DEF last, base, q, next, n, r
    <2>4. NextChunk(f, q, last, y) = ChunkOf(PieceWalk(f, base, r)[DOMAIN r], y, last.next + n)
      BY <2>2, <2>3, ChunkChoice
    <2>5. QED
      BY <2>1, <2>4 DEF last
  <1>0. q \in Seq(Int)
    <2> DEFINE C == Cardinality(D)
    <2> DEFINE E(i) == CHOOSE b \in D : Cardinality({c \in D : c < b}) = i - 1
    <2>0. q = [i \in 1..C |-> E(i)]
      BY DEF Breaks, Sorted, SortedBy
    <2>1. q = [i \in 1..C |-> q[i]]
      <3> HIDE DEF E, q, C
      <3> QED BY <2>0
    <2>2. Increasing(q, C, D)
      BY BreaksIncrease
    <2> HIDE DEF q, C
    <2>3. C \in Nat /\ \A i \in 1..C : q[i] \in Int
      BY <2>2 DEF Increasing
    <2>4. QED
      BY <2>1, <2>3
  <1> HIDE DEF q, next, n
  <1>3. K \in Nat /\ next \in 1..(K + 1) /\ next + n \in 1..(K + 1) /\ next \in Nat /\ n \in Nat
    BY <1>1 DEF Ahead, Increasing
  <1>4. DOMAIN r = 1..n /\ \A i \in 1..n : next + i - 1 \in 1..K /\ r[i] = q[next + i - 1]
    <2>1. Len(q) = K
      BY <1>1 DEF Increasing
    <2>2. \A i \in 1..n : next + i - 1 \in 1..K
      BY <1>3
    <2> DEFINE m == next + n - 1
    <2>3. m \in Int /\ m - next + 1 = n
      BY <1>3
    <2>4. DOMAIN SubSeq(q, next, m) = 1..n /\ \A i \in 1..n : SubSeq(q, next, m)[i] = q[next + i - 1]
      <3> HIDE DEF m
      <3> QED BY <1>0, <1>3, <2>1, <2>3
    <2>5. QED
      BY <2>2, <2>4
  <1> HIDE DEF r
  <1> DEFINE X(k) == IF k = 0 THEN x ELSE r[k]
  <1>5. ASSUME NEW k \in 1..n
        PROVE  r[k] \in D /\ r[k] \in Int /\ x < r[k] /\ r[k] <= y
    <2> DEFINE i == next + k - 1
    <2>1. i \in 1..K /\ r[k] = q[i] /\ ~(i < next) /\ i < next + n
      BY <1>3, <1>4
    <2> HIDE DEF i
    <2>2. q[i] \in D /\ q[i] \in Int
      BY <1>1, <2>1 DEF Increasing
    <2>3. ~(q[i] <= x) /\ q[i] <= y
      BY <1>1, <2>1 DEF Ahead
    <2>4. QED
      BY <2>1, <2>2, <2>3
  <1>6. ASSUME NEW k \in 1..n, NEW c \in D
        PROVE  ~(X(k - 1) < c /\ c < r[k])
    <2>1. PICK j \in 1..K : q[j] = c
      BY <1>1 DEF Increasing
    <2> DEFINE i == next + k - 1
    <2>2. i \in 1..K /\ r[k] = q[i]
      BY <1>4
    <2>3. SUFFICES ASSUME X(k - 1) < c, j < i PROVE FALSE
      BY <1>1, <2>1, <2>2 DEF Increasing
    <2>4. CASE k = 1
      <3>1. j < next /\ X(k - 1) = x
        BY <1>3, <2>3, <2>4
      <3>2. c <= x /\ c \in Int
        BY <1>1, <2>1, <3>1 DEF Ahead, Increasing
      <3>3. QED
        BY <2>3, <3>1, <3>2
    <2>5. CASE k # 1
      <3> DEFINE e == k - 1
                 m == next + e - 1
      <3>1. e \in 1..n /\ e # 0 /\ m = i - 1
        BY <1>3, <2>5
      <3>2. m \in 1..K /\ r[e] = q[m] /\ X(e) = r[e]
        BY <1>4, <3>1
      <3> HIDE DEF m
      <3>3. q[m] < c
        BY <2>3, <3>2
      <3>4. m < j
        BY <1>1, <2>1, <3>2, <3>3 DEF Increasing
      <3> HIDE DEF i
      <3>5. QED
        BY <1>3, <2>2, <2>3, <3>1, <3>4
    <2>6. QED
      BY <2>4, <2>5
  <1>7. ASSUME NEW c \in D
        PROVE  ~(X(n) < c /\ c <= y)
    <2>1. PICK j \in 1..K : q[j] = c
      BY <1>1 DEF Increasing
    <2>2. SUFFICES ASSUME X(n) < c, c <= y PROVE FALSE
      OBVIOUS
    <2>3. j < next + n
      BY <1>1, <2>1, <2>2 DEF Ahead
    <2>4. CASE n = 0
      <3>1. j < next /\ X(n) = x
        BY <1>3, <2>3, <2>4
      <3>2. c <= x /\ c \in Int
        BY <1>1, <2>1, <3>1 DEF Ahead, Increasing
      <3>3. QED
        BY <2>2, <3>1, <3>2
    <2>5. CASE n # 0
      <3> DEFINE m == next + n - 1
      <3>1. n \in 1..n /\ X(n) = r[n]
        BY <1>3, <2>5
      <3>2. m \in 1..K /\ r[n] = q[m]
        BY <1>4, <3>1
      <3>3. j < m \/ j = m
        BY <1>3, <2>3
      <3> HIDE DEF m
      <3>4. ~(q[m] < c)
        BY <1>1, <2>1, <3>2, <3>3 DEF Increasing
      <3>5. QED
        BY <2>2, <3>1, <3>2, <3>4
    <2>6. QED
      BY <2>4, <2>5
  <1>8. \A k \in 0..n : X(k) \in Int /\ x <= X(k) /\ X(k) <= y
    BY <1>5
  <1>9. ASSUME NEW k \in 1..n
        PROVE  X(k) = r[k] /\ X(k - 1) <= r[k]
    <2>1. k # 0 /\ X(k) = r[k]
      OBVIOUS
    <2>2. CASE k = 1
      BY <1>5, <2>1, <2>2
    <2>3. CASE k # 1
      <3> DEFINE e == k - 1
      <3>1. e \in 1..n /\ e # 0
        BY <1>3, <2>3
      <3>2. X(e) = r[e] /\ r[e] = q[next + e - 1] /\ r[k] = q[next + k - 1]
        BY <1>4, <3>1
      <3>3. next + e - 1 \in 1..K /\ next + k - 1 \in 1..K /\ next + e - 1 < next + k - 1
        BY <1>3, <1>4, <3>1
      <3>4. q[next + e - 1] < q[next + k - 1]
        BY <1>1, <3>3 DEF Increasing
      <3>5. r[e] \in Int /\ r[k] \in Int
        BY <1>5, <3>1
      <3>6. QED
        BY <2>1, <3>2, <3>4, <3>5
    <2>4. QED
      BY <2>2, <2>3
  <1> HIDE DEF X
  <1>10. base \in PieceSet
    BY AreaType, CallType DEF PieceAt, PieceSet
  <1>11. PICK p : Pieces(f, base, r, n, p) /\ p[n] = PieceWalk(f, base, r)[DOMAIN r]
    <2>1. n \in Nat /\ DOMAIN r = 1..n /\ \A i \in 1..n : r[i] \in DOMAIN f.breakpoints
      BY <1>3, <1>4, <1>5
    <2> HIDE DEF base, D
    <2>2. QED
      BY <1>10, <2>1, PiecesWalk
  <1> DEFINE B == {k \in 0..n : p[k] # PieceAt(f, x, X(k))}
  <1>12. B = {}
    <2>1. SUFFICES ASSUME B # {} PROVE FALSE
      OBVIOUS
    <2>2. B \in SUBSET Nat
      BY <1>3
    <2>3. PICK k \in B : \A j \in B : k <= j
      <3> HIDE DEF B
      <3> QED BY <2>1, <2>2, SmallestNumber
    <2>4. k \in 0..n /\ p[k] # PieceAt(f, x, X(k))
      OBVIOUS
    <2>5. k # 0
      BY <1>11, <2>4 DEF Pieces, X
    <2> DEFINE e == k - 1
    <2>6. k \in 1..n /\ e \in 0..n /\ e \notin B
      BY <1>3, <2>3, <2>4, <2>5
    <2>7. p[e] = PieceAt(f, x, X(e))
      BY <2>6
    <2>8. p[k] = Piece(f, p[e], r[k])
      BY <1>11, <2>6 DEF Pieces
    <2>9. Piece(f, PieceAt(f, x, X(e)), r[k]) = PieceAt(f, x, r[k])
      <3>1. X(e) \in Int /\ x <= X(e) /\ r[k] \in D /\ X(e) <= r[k]
        BY <1>5, <1>8, <1>9, <2>6
      <3>2. \A c \in D : ~(X(e) < c /\ c < r[k])
        BY <1>6, <2>6
      <3> HIDE DEF e
      <3>3. QED
        BY <3>1, <3>2, PieceStands
    <2>10. QED
      BY <1>9, <2>4, <2>6, <2>7, <2>8, <2>9
  <1>13. p[n] = PieceAt(f, x, X(n))
    <2>1. n \in 0..n
      BY <1>3
    <2>2. QED
      BY <1>12, <2>1
  <1>14. ChunkOf(PieceAt(f, x, X(n)), y, next + n) = Chunk(f, x, y)
    <2> DEFINE z == X(n)
               m == next + n
    <2>1. z \in Int /\ x <= z /\ z <= y /\ m = bisect(f, y) + 1
      BY <1>1, <1>3, <1>8
    <2>2. \A c \in D : ~(z < c /\ c <= y)
      BY <1>7
    <2> HIDE DEF z, m
    <2>3. ChunkOf(PieceAt(f, x, z), y, m) = Chunk(f, x, y)
      BY <2>1, <2>2, ChunkEnds
    <2>4. QED
      BY <2>3 DEF z, m
  <1>15. QED
    BY <1>2, <1>11, <1>13, <1>14 DEF q

-----------------------------------------------------------------------------
(* integrals: the walk from chunk to chunk.                                 *)

IntegralBody(f, start, stop, step, w, k) ==
  IF k = 0 THEN [x |-> start, value |-> call(f, start), area |-> 0, next |-> bisect(f, start) + 1]
  ELSE NextChunk(f, Breaks(f), w[k - 1], Min({stop, start + k * step}))
IntegralRec(f, start, stop, step, w) ==
  w = [k \in 0..Points(start, stop, step) |-> IntegralBody(f, start, stop, step, w, k)]

\* These are the parts of the definition.
LEMMA IntegralsChoice ==
  ASSUME NEW f, NEW start, NEW stop, NEW step
  PROVE  integrals(f, start, stop, step) =
           [k \in 1..Points(start, stop, step) |-> (CHOOSE w : IntegralRec(f, start, stop, step, w))[k].area]
  BY DEF integrals, IntegralRec, IntegralBody

\* integrals: the area of each chunk.
LEMMA IntegralsAreRight ==
  ASSUME NEW f \in Pwf, NEW start \in Int, NEW stop \in Int, start < stop, NEW step \in Nat \ {0},
         NEW P, P = Points(start, stop, step)
  PROVE  /\ P \in Nat
         /\ integrals(f, start, stop, step) =
              [k \in 1..P |-> AreaOf(f, start + (k - 1) * step, Stop(start, stop, step, k))]
  <1> DEFINE X(k) == Stop(start, stop, step, k)
             Y(k) == IF k = 0 THEN start ELSE X(k - 1)
             v == [k \in 0..P |-> Chunk(f, Y(k), X(k))]
             w == CHOOSE w : IntegralRec(f, start, stop, step, w)
  <1>1. /\ P \in Nat /\ X(0) = start /\ \A k \in 0..P : X(k) \in Int
        /\ \A k \in 1..P : X(k - 1) = start + (k - 1) * step /\ X(k - 1) <= X(k)
    BY StopsGrow
  <1>2. ASSUME NEW k \in 1..P
        PROVE  k - 1 \in 0..P /\ k # 0 /\ NextChunk(f, Breaks(f), Chunk(f, Y(k - 1), X(k - 1)), X(k)) = Chunk(f, Y(k), X(k))
    <2>1. k - 1 \in 0..P /\ k \in 0..P /\ k # 0
      BY <1>1
    <2>2. X(k - 1) \in Int /\ X(k) \in Int /\ X(k - 1) <= X(k) /\ Y(k) = X(k - 1)
      BY <1>1, <2>1
    <2>3. Y(k - 1) \in Int
      <3>1. k - 1 # 0 => (k - 1) - 1 \in 0..P
        BY <1>1
      <3> HIDE DEF X
      <3>2. QED
        BY <1>1, <3>1
    <2> HIDE DEF X, Y
    <2>4. QED
      BY <2>1, <2>2, <2>3, NextChunkStands
  <1>3. ASSUME NEW k \in 0..P, NEW u, k # 0 => u[k - 1] = Chunk(f, Y(k - 1), X(k - 1))
        PROVE  IntegralBody(f, start, stop, step, u, k) = Chunk(f, Y(k), X(k))
    <2>1. CASE k = 0
      <3>1. AreaOf(f, start, start) = 0
        BY AreaType
      <3>2. Y(k) = start /\ X(k) = start
        BY <1>1, <2>1
      <3> HIDE DEF X, Y
      <3>3. QED
        BY <2>1, <3>1, <3>2 DEF IntegralBody, Chunk
    <2>2. CASE k # 0
      <3>1. k \in 1..P
        BY <1>1, <2>2
      <3>2. IntegralBody(f, start, stop, step, u, k) = NextChunk(f, Breaks(f), u[k - 1], X(k))
        BY <2>2 DEF IntegralBody, Stop
      <3> HIDE DEF X, Y
      <3>3. QED
        BY <1>2, <1>3, <2>2, <3>1, <3>2
    <2>3. QED
      BY <2>1, <2>2
  <1>y. \A k \in 1..P : Y(k) = X(k - 1)
    BY <1>1
  <1> HIDE DEF X, Y
  <1>4. IntegralRec(f, start, stop, step, v)
    <2>1. ASSUME NEW k \in 0..P
          PROVE  IntegralBody(f, start, stop, step, v, k) = Chunk(f, Y(k), X(k))
      <3>1. k # 0 => k - 1 \in 0..P
        BY <1>1
      <3>2. k # 0 => v[k - 1] = Chunk(f, Y(k - 1), X(k - 1))
        BY <3>1
      <3> HIDE DEF v
      <3>3. QED
        BY <1>3, <3>2
    <2>2. v = [k \in 0..P |-> IntegralBody(f, start, stop, step, v, k)]
      BY <2>1
    <2>3. QED
      BY <2>2 DEF IntegralRec
  <1>5. IntegralRec(f, start, stop, step, w)
    BY <1>4
  <1> HIDE DEF w, v
  <1>6. \A k \in 0..P : w[k] = IntegralBody(f, start, stop, step, w, k)
    BY <1>5 DEF IntegralRec
  <1> DEFINE D == {k \in 0..P : w[k] # Chunk(f, Y(k), X(k))}
  <1>7. D = {}
    <2>1. SUFFICES ASSUME D # {} PROVE FALSE
      OBVIOUS
    <2>2. D \in SUBSET Nat
      BY <1>1
    <2>3. PICK k \in D : \A j \in D : k <= j
      <3> HIDE DEF D
      <3> QED BY <2>1, <2>2, SmallestNumber
    <2>4. k \in 0..P /\ w[k] # Chunk(f, Y(k), X(k))
      OBVIOUS
    <2>5. k # 0 => k - 1 \in 0..P /\ k - 1 \notin D
      BY <1>1, <2>3, <2>4
    <2>6. k # 0 => w[k - 1] = Chunk(f, Y(k - 1), X(k - 1))
      BY <2>5
    <2>7. QED
      BY <1>3, <1>6, <2>4, <2>6
  <1>8. \A k \in 1..P : w[k].area = AreaOf(f, start + (k - 1) * step, X(k))
    <2>1. TAKE k \in 1..P
    <2>2. k \in 0..P
      BY <1>1
    <2>3. w[k] = Chunk(f, Y(k), X(k))
      BY <1>7, <2>2
    <2>4. w[k].area = AreaOf(f, Y(k), X(k))
      BY <2>3 DEF Chunk
    <2>5. Y(k) = start + (k - 1) * step
      BY <1>1, <1>y
    <2>6. QED
      BY <2>4, <2>5
  <1>9. integrals(f, start, stop, step) = [k \in 1..P |-> w[k].area]
    BY IntegralsChoice DEF w
  <1>10. QED
    BY <1>1, <1>8, <1>9 DEF X

-----------------------------------------------------------------------------
(* The merged breakpoints of two functions.                                 *)

MarksOf(u, side) == {<<b, u.breakpoints[b], side>> : b \in DOMAIN u.breakpoints}
Sooner(p, q) == \/ p[1] < q[1]
                \/ p[1] = q[1] /\ p[2] < q[2]
                \/ p[1] = q[1] /\ p[2] = q[2] /\ p[3] < q[3]
MergeOf(S) == [i \in 1..Cardinality(S) |-> CHOOSE x \in S : Cardinality({y \in S : Sooner(y, x)}) = i - 1]

\* These are the parts of the definition.
LEMMA MergedChoice ==
  ASSUME NEW f, NEW g
  PROVE  _merged_breakpoints(f, g) = MergeOf(MarksOf(f, 0) \cup MarksOf(g, 1))
  BY DEF _merged_breakpoints, SortedBy, MergeOf, MarksOf, Sooner

\* Times, values and sides, in the order of time.
InTime(q, M) ==
  /\ M \in Nat /\ DOMAIN q = 1..M
  /\ \A i \in 1..M : q[i][1] \in Int /\ q[i][2] \in Int /\ q[i][3] \in {0, 1}
  /\ \A i \in 1..M, j \in 1..M : i < j => q[i][1] <= q[j][1]

\* q has the breakpoints of u.
HasMarks(q, M, u, side) ==
  /\ \A i \in 1..M : q[i][3] = side => q[i][1] \in DOMAIN u.breakpoints /\ q[i][2] = u.breakpoints[q[i][1]]
  /\ \A b \in DOMAIN u.breakpoints : \E i \in 1..M : q[i][3] = side /\ q[i][1] = b

\* The breakpoints of a function, marked.
LEMMA MarksFinite ==
  ASSUME NEW u \in Pwf, NEW side \in {0, 1}
  PROVE  /\ IsFiniteSet(MarksOf(u, side))
         /\ \A p \in MarksOf(u, side) : /\ p \in Int \X Int \X {0, 1} /\ p[3] = side
                                        /\ p[1] \in DOMAIN u.breakpoints /\ p[2] = u.breakpoints[p[1]]
         /\ \A b \in DOMAIN u.breakpoints : <<b, u.breakpoints[b], side>> \in MarksOf(u, side)
  <1> DEFINE D == DOMAIN u.breakpoints
             e == [b \in D |-> <<b, u.breakpoints[b], side>>]
  <1>1. IsFiniteSet(D) /\ \A b \in D : b \in Int /\ u.breakpoints[b] \in Int
    BY PwfParts
  <1>2. MarksOf(u, side) = {e[b] : b \in D}
    BY DEF MarksOf
  <1>3. IsFiniteSet({e[b] : b \in D})
    <2> HIDE DEF e, D
    <2> QED BY <1>1, FiniteImage
  <1>4. ASSUME NEW p \in MarksOf(u, side)
        PROVE  /\ p \in Int \X Int \X {0, 1} /\ p[3] = side
               /\ p[1] \in DOMAIN u.breakpoints /\ p[2] = u.breakpoints[p[1]]
    <2>1. PICK b \in D : p = <<b, u.breakpoints[b], side>>
      BY DEF MarksOf
    <2>2. QED
      BY <1>1, <2>1
  <1>5. \A b \in D : <<b, u.breakpoints[b], side>> \in MarksOf(u, side)
    BY DEF MarksOf
  <1>6. QED
    BY <1>2, <1>3, <1>4, <1>5

\* Both, by time, value and function.
LEMMA MergedOK ==
  ASSUME NEW f \in Pwf, NEW g \in Pwf, NEW q, q = _merged_breakpoints(f, g)
  PROVE  \E M : InTime(q, M) /\ HasMarks(q, M, f, 0) /\ HasMarks(q, M, g, 1)
  <1> DEFINE A == MarksOf(f, 0)
             B == MarksOf(g, 1)
             S == A \cup B
             R == {p \in S \X S : Sooner(p[1], p[2])}
             M == Cardinality(S)
  <1>1. /\ IsFiniteSet(A)
        /\ \A p \in A : /\ p \in Int \X Int \X {0, 1} /\ p[3] = 0
                        /\ p[1] \in DOMAIN f.breakpoints /\ p[2] = f.breakpoints[p[1]]
        /\ \A b \in DOMAIN f.breakpoints : <<b, f.breakpoints[b], 0>> \in A
    BY MarksFinite
  <1>2. /\ IsFiniteSet(B)
        /\ \A p \in B : /\ p \in Int \X Int \X {0, 1} /\ p[3] = 1
                        /\ p[1] \in DOMAIN g.breakpoints /\ p[2] = g.breakpoints[p[1]]
        /\ \A b \in DOMAIN g.breakpoints : <<b, g.breakpoints[b], 1>> \in B
    BY MarksFinite
  <1> HIDE DEF A, B
  <1>3. IsFiniteSet(S) /\ M \in Nat /\ S \in SUBSET (Int \X Int \X {0, 1})
    BY <1>1, <1>2, FS_Union, FS_CardinalityType
  <1>4. \A p, r \in S : (<<p, r>> \in R <=> Sooner(p, r))
    OBVIOUS
  <1>5. q = MergeOf(S)
    BY MergedChoice DEF A, B
  <1>6. \A p \in S : /\ p[1] \in Int /\ p[2] \in Int /\ p[3] \in Int /\ p = <<p[1], p[2], p[3]>>
    BY <1>3
  <1> HIDE DEF R, S
  <1>7. Orders(R, S)
    <2>1. \A x \in S : <<x, x>> \notin R
      BY <1>4, <1>6 DEF Sooner
    <2>2. ASSUME NEW x \in S, NEW y \in S, x # y
          PROVE  <<x, y>> \in R \/ <<y, x>> \in R
      <3>1. x[1] # y[1] \/ x[2] # y[2] \/ x[3] # y[3]
        BY <1>6, <2>2
      <3>2. Sooner(x, y) \/ Sooner(y, x)
        BY <1>6, <3>1 DEF Sooner
      <3>3. QED
        BY <1>4, <3>2
    <2>3. ASSUME NEW x \in S, NEW y \in S, NEW z \in S, <<x, y>> \in R, <<y, z>> \in R
          PROVE  <<x, z>> \in R
      <3>1. Sooner(x, y) /\ Sooner(y, z)
        BY <1>4, <2>3
      <3>2. Sooner(x, z)
        BY <1>6, <3>1 DEF Sooner
      <3>3. QED
        BY <1>4, <3>2
    <2>4. QED
      BY <2>1, <2>2, <2>3 DEF Orders
  <1>8. \A x \in S : Below(R, S, x) = {y \in S : Sooner(y, x)}
    BY <1>4 DEF Below
  <1> HIDE DEF M
  <1>9. ASSUME NEW i \in 1..M
        PROVE  q[i] \in S /\ Cardinality(Below(R, S, q[i])) = i - 1
    <2>1. \E x \in S : Cardinality(Below(R, S, x)) = i - 1
      BY <1>3, <1>7, RankIsTaken DEF M
    <2>2. \E x \in S : Cardinality({y \in S : Sooner(y, x)}) = i - 1
      BY <1>8, <2>1
    <2>3. q[i] = CHOOSE x \in S : Cardinality({y \in S : Sooner(y, x)}) = i - 1
      BY <1>5 DEF MergeOf, M
    <2>4. q[i] \in S /\ Cardinality({y \in S : Sooner(y, q[i])}) = i - 1
      BY <2>2, <2>3
    <2>5. QED
      BY <1>8, <2>4
  <1>10. /\ \A i, j \in 1..M : i < j <=> <<q[i], q[j]>> \in R
         /\ \A x \in S : \E i \in 1..M : q[i] = x
    <2>1. Ranked(R, S, q)
      BY <1>9 DEF Ranked, M
    <2>2. QED
      BY <1>3, <1>7, <2>1, RankedOrder DEF M
  <1>11. DOMAIN q = 1..M
    BY <1>5 DEF MergeOf, M
  <1>12. InTime(q, M)
    <2>1. \A i \in 1..M : q[i][1] \in Int /\ q[i][2] \in Int /\ q[i][3] \in {0, 1}
      BY <1>3, <1>9
    <2>2. ASSUME NEW i \in 1..M, NEW j \in 1..M, i < j
          PROVE  q[i][1] <= q[j][1]
      <3>1. Sooner(q[i], q[j])
        BY <1>4, <1>9, <1>10, <2>2
      <3>2. QED
        BY <2>1, <3>1 DEF Sooner
    <2>3. QED
      BY <1>3, <1>11, <2>1, <2>2 DEF InTime
  <1>13. HasMarks(q, M, f, 0)
    <2>1. ASSUME NEW i \in 1..M, q[i][3] = 0
          PROVE  q[i][1] \in DOMAIN f.breakpoints /\ q[i][2] = f.breakpoints[q[i][1]]
      <3>1. q[i] \in A
        BY <1>2, <1>9, <2>1 DEF S
      <3>2. QED
        BY <1>1, <3>1
    <2>2. ASSUME NEW b \in DOMAIN f.breakpoints
          PROVE  \E i \in 1..M : q[i][3] = 0 /\ q[i][1] = b
      <3>1. <<b, f.breakpoints[b], 0>> \in S
        BY <1>1 DEF S
      <3>2. PICK i \in 1..M : q[i] = <<b, f.breakpoints[b], 0>>
        BY <1>10, <3>1
      <3>3. QED
        BY <3>2
    <2>3. QED
      BY <2>1, <2>2 DEF HasMarks
  <1>14. HasMarks(q, M, g, 1)
    <2>1. ASSUME NEW i \in 1..M, q[i][3] = 1
          PROVE  q[i][1] \in DOMAIN g.breakpoints /\ q[i][2] = g.breakpoints[q[i][1]]
      <3>1. q[i] \in B
        BY <1>1, <1>9, <2>1 DEF S
      <3>2. QED
        BY <1>2, <3>1
    <2>2. ASSUME NEW b \in DOMAIN g.breakpoints
          PROVE  \E i \in 1..M : q[i][3] = 1 /\ q[i][1] = b
      <3>1. <<b, g.breakpoints[b], 1>> \in S
        BY <1>2 DEF S
      <3>2. PICK i \in 1..M : q[i] = <<b, g.breakpoints[b], 1>>
        BY <1>10, <3>1
      <3>3. QED
        BY <3>2
    <2>3. QED
      BY <2>1, <2>2 DEF HasMarks
  <1>15. QED
    BY <1>12, <1>13, <1>14

\* y is the value of u after k marks.
LastOf(q, k, u, side, y) ==
  \/ y = u.initial /\ \A j \in 1..k : q[j][3] # side
  \/ \E i \in 1..k : q[i][3] = side /\ y = q[i][2] /\ \A j \in 1..k : q[j][3] = side => j <= i

\* The value of u between the marks so far and those to come.
LEMMA LastStands ==
  ASSUME NEW u \in Pwf, NEW side, NEW q, NEW M, InTime(q, M), HasMarks(q, M, u, side), NEW k \in 0..M,
         NEW y, LastOf(q, k, u, side, y), NEW t \in Int,
         \A i \in 1..k : q[i][1] <= t, \A i \in 1..M : k < i => t < q[i][1]
  PROVE  y = call(u, t)
  <1>1. M \in Nat /\ k \in Nat /\ (\A i \in 1..k : i \in 1..M) /\ \A i \in 1..M : i <= k \/ k < i
    BY DEF InTime
  <1>2. \A i \in 1..M : q[i][1] \in Int
    BY DEF InTime
  <1>3. ASSUME NEW c \in DOMAIN u.breakpoints, c <= t
        PROVE  \E j \in 1..k : q[j][3] = side /\ q[j][1] = c
    <2>1. PICK j \in 1..M : q[j][3] = side /\ q[j][1] = c
      BY DEF HasMarks
    <2>2. ~(k < j)
      BY <1>2, <1>3, <2>1
    <2>3. j \in 1..k
      BY <1>1, <2>2
    <2>4. QED
      BY <2>1, <2>3
  <1>4. CASE y = u.initial /\ \A j \in 1..k : q[j][3] # side
    BY <1>3, <1>4, CallNone
  <1>5. ASSUME NEW i \in 1..k, q[i][3] = side, y = q[i][2], \A j \in 1..k : q[j][3] = side => j <= i
        PROVE  y = call(u, t)
    <2> DEFINE b == q[i][1]
    <2>1. b \in DOMAIN u.breakpoints /\ y = u.breakpoints[b] /\ b <= t /\ b \in Int
      BY <1>1, <1>2, <1>5 DEF HasMarks
    <2>2. ASSUME NEW c \in DOMAIN u.breakpoints, c <= t
          PROVE  c <= b
      <3>1. PICK j \in 1..k : q[j][3] = side /\ q[j][1] = c
        BY <1>3, <2>2
      <3>2. j < i \/ j = i
        BY <1>1, <1>5, <3>1
      <3>3. CASE j < i
        BY <1>1, <3>1, <3>3 DEF InTime
      <3>4. CASE j = i
        BY <2>1, <3>1, <3>4
      <3>5. QED
        BY <3>2, <3>3, <3>4
    <2> HIDE DEF b
    <2>3. call(u, t) = u.breakpoints[b]
      BY <2>1, <2>2, CallIs
    <2>4. QED
      BY <2>1, <2>3
  <1>6. QED
    BY <1>4, <1>5 DEF LastOf

\* One mark more.
LEMMA LastNext ==
  ASSUME NEW u, NEW side, NEW q, NEW k \in Nat \ {0}, NEW y, LastOf(q, k - 1, u, side, y)
  PROVE  LastOf(q, k, u, side, IF q[k][3] = side THEN q[k][2] ELSE y)
  <1>1. k \in 1..k /\ (\A j \in 1..k : j <= k) /\ \A j \in 1..k : j = k \/ j \in 1..(k - 1)
    OBVIOUS
  <1>2. \A j \in 1..(k - 1) : j \in 1..k
    OBVIOUS
  <1>3. CASE q[k][3] = side
    BY <1>1, <1>3 DEF LastOf
  <1>4. CASE q[k][3] # side
    <2>1. CASE y = u.initial /\ \A j \in 1..(k - 1) : q[j][3] # side
      BY <1>1, <1>4, <2>1 DEF LastOf
    <2>2. ASSUME NEW i \in 1..(k - 1), q[i][3] = side, y = q[i][2],
                 \A j \in 1..(k - 1) : q[j][3] = side => j <= i
          PROVE  LastOf(q, k, u, side, y)
      <3>1. i \in 1..k /\ \A j \in 1..k : q[j][3] = side => j <= i
        BY <1>1, <1>2, <1>4, <2>2
      <3>2. QED
        BY <2>2, <3>1 DEF LastOf
    <2>3. QED
      BY <1>4, <2>1, <2>2 DEF LastOf
  <1>5. QED
    BY <1>3, <1>4

-----------------------------------------------------------------------------
(* The walk along the merged breakpoints.                                   *)

\* A breakpoint after all others.
LEMMA AddLast ==
  ASSUME NEW f \in Pwf, NEW x \in Int, NEW y \in Int, \A b \in DOMAIN f.breakpoints : b <= x
  PROVE  /\ add_breakpoint(f, x, y) \in Pwf
         /\ DOMAIN add_breakpoint(f, x, y).breakpoints \in SUBSET (DOMAIN f.breakpoints \cup {x})
         /\ \A t \in Int : call(add_breakpoint(f, x, y), t) = IF x <= t THEN y ELSE call(f, t)
  <1>1. \A b \in DOMAIN f.breakpoints : b \in Int
    BY PwfParts
  <1>2. \A t \in Int : \A b \in DOMAIN f.breakpoints : ~(x < b /\ b <= t)
    BY <1>1
  <1>3. /\ add_breakpoint(f, x, y) \in Pwf
        /\ DOMAIN add_breakpoint(f, x, y).breakpoints \in SUBSET (DOMAIN f.breakpoints \cup {x})
    BY AddBreakpoint
  <1>4. ASSUME NEW t \in Int
        PROVE  call(add_breakpoint(f, x, y), t) = IF x <= t THEN y ELSE call(f, t)
    <2>1. /\ HoldsFrom(f, x, t) => call(add_breakpoint(f, x, y), t) = y
          /\ ~HoldsFrom(f, x, t) => call(add_breakpoint(f, x, y), t) = call(f, t)
      BY BreakpointCall
    <2>2. HoldsFrom(f, x, t) <=> x <= t
      BY <1>2 DEF HoldsFrom
    <2>3. QED
      BY <2>1, <2>2
  <1>5. QED
    BY <1>3, <1>4

\* The operations of reports.
OpOf(o, a, b) ==
  IF o = "add" THEN a + b ELSE IF o = "sub" THEN a - b ELSE IF o = "mul" THEN a * b
  ELSE IF a >= b THEN a ELSE b

\* They give integers.
LEMMA OpType ==
  ASSUME NEW o, NEW a \in Int, NEW b \in Int
  PROVE  OpOf(o, a, b) \in Int
  BY DEF OpOf

AddMark(o, acc, p) ==
  [h  |-> add_breakpoint(acc.h, p[1], OpOf(o, IF p[3] = 0 THEN p[2] ELSE acc.y0, IF p[3] = 1 THEN p[2] ELSE acc.y1)),
   y0 |-> IF p[3] = 0 THEN p[2] ELSE acc.y0,
   y1 |-> IF p[3] = 1 THEN p[2] ELSE acc.y1]
NoMarks(o, f, g) ==
  [h |-> PiecewiseConstantFunction(OpOf(o, f.initial, g.initial)), y0 |-> f.initial, y1 |-> g.initial]
MergeBody(o, f, g, q, h, s) ==
  IF s = {} THEN NoMarks(o, f, g) ELSE AddMark(o, h[s \ {Max(s)}], q[Max(s)])
MergeRec(o, f, g, q, h) == h = [s \in SUBSET (DOMAIN q) |-> MergeBody(o, f, g, q, h, s)]

MergeAccs == [h : Pwf, y0 : Int, y1 : Int]

\* After each mark.
Merges(o, f, g, q, M, a) ==
  /\ a[0] = NoMarks(o, f, g)
  /\ \A k \in 1..M : a[k] = AddMark(o, a[k - 1], q[k])
  /\ \A k \in 0..M : a[k] \in MergeAccs

\* Types.
LEMMA AddMarkType ==
  ASSUME NEW o, NEW acc \in MergeAccs, NEW p, p[1] \in Int, p[2] \in Int
  PROVE  AddMark(o, acc, p) \in MergeAccs
  <1> DEFINE y0 == IF p[3] = 0 THEN p[2] ELSE acc.y0
             y1 == IF p[3] = 1 THEN p[2] ELSE acc.y1
  <1>1. acc.h \in Pwf /\ acc.y0 \in Int /\ acc.y1 \in Int
    BY DEF MergeAccs
  <1>2. y0 \in Int /\ y1 \in Int
    BY <1>1
  <1>3. AddMark(o, acc, p) = [h |-> add_breakpoint(acc.h, p[1], OpOf(o, y0, y1)), y0 |-> y0, y1 |-> y1]
    BY DEF AddMark
  <1> HIDE DEF y0, y1
  <1>4. OpOf(o, y0, y1) \in Int
    BY <1>2, OpType
  <1>5. add_breakpoint(acc.h, p[1], OpOf(o, y0, y1)) \in Pwf
    BY <1>1, <1>4, AddBreakpoint
  <1>6. QED
    BY <1>2, <1>3, <1>5 DEF MergeAccs

\* The first.
LEMMA NoMarksType ==
  ASSUME NEW o, NEW f \in Pwf, NEW g \in Pwf
  PROVE  NoMarks(o, f, g) \in MergeAccs
  <1>1. f.initial \in Int /\ g.initial \in Int
    BY PwfParts
  <1>2. OpOf(o, f.initial, g.initial) \in Int
    BY <1>1, OpType
  <1>3. PiecewiseConstantFunction(OpOf(o, f.initial, g.initial)) \in Pwf
    BY <1>2, PwfConstant
  <1>4. QED
    BY <1>1, <1>3 DEF NoMarks, MergeAccs

MergeArrives(o, f, g, q, M, end) == \E a : Merges(o, f, g, q, M, a) /\ a[M] = end

\* Combine takes the marks in turn.
LEMMA MergeWalk ==
  ASSUME NEW o, NEW f \in Pwf, NEW g \in Pwf, NEW q, NEW M, InTime(q, M)
  PROVE  /\ \E h : MergeRec(o, f, g, q, h)
         /\ \A h : MergeRec(o, f, g, q, h) => MergeArrives(o, f, g, q, M, h[DOMAIN q])
  <1> DEFINE V == MergeAccs
             F == [p \in V \X (1..M) |-> AddMark(o, p[1], q[p[2]])]
             base == NoMarks(o, f, g)
  <1>0. M \in Nat /\ DOMAIN q = 1..M /\ \A i \in 1..M : q[i][1] \in Int /\ q[i][2] \in Int
    BY DEF InTime
  <1>1. \A acc \in V, i \in 1..M : AddMark(o, acc, q[i]) \in V
    BY <1>0, AddMarkType
  <1>2. base \in V
    BY NoMarksType
  <1>3. /\ F \in [V \X (1..M) -> V]
        /\ \A acc \in V, i \in 1..M : F[<<acc, i>>] = AddMark(o, acc, q[i])
    BY <1>1
  <1> HIDE DEF F, V, base
  <1>4. PICK w : WalkOf(F, base, M, w) /\ \A s \in SUBSET (1..M) : w[s] \in V
    BY <1>0, <1>2, <1>3, WalkExists
  <1>5. \A s \in SUBSET (1..M) : s # {} => Max(s) \in 1..M /\ s \ {Max(s)} \in SUBSET (1..M)
    BY <1>0, IntervalMax
  <1>6. MergeRec(o, f, g, q, w)
    <2>1. \A s \in SUBSET (1..M) : w[s] = MergeBody(o, f, g, q, w, s)
      BY <1>3, <1>4, <1>5 DEF WalkOf, MergeBody, base
    <2>2. w = [s \in SUBSET (1..M) |-> w[s]]
      BY <1>4 DEF WalkOf
    <2>3. QED
      BY <1>0, <2>1, <2>2 DEF MergeRec
  <1>7. ASSUME NEW h, MergeRec(o, f, g, q, h)
        PROVE  MergeArrives(o, f, g, q, M, h[DOMAIN q])
    <2>1. \A s \in SUBSET (1..M) : h[s] = MergeBody(o, f, g, q, h, s)
      BY <1>0, <1>7 DEF MergeRec
    <2>2. Follows(F, base, V, M, h)
      <3>1. SUFFICES ASSUME NEW s \in SUBSET (1..M), s # {}, h[s \ {Max(s)}] \in V
                     PROVE  h[s] = F[<<h[s \ {Max(s)}], Max(s)>>]
        BY <2>1 DEF Follows, MergeBody, base
      <3>2. Max(s) \in 1..M
        BY <1>5, <3>1
      <3>3. QED
        BY <1>3, <2>1, <3>1, <3>2 DEF MergeBody
    <2>3. F \in [V \X (1..M) -> V]
      BY <1>3
    <2>4. Arrives(F, base, V, M, h[1..M])
      BY <1>0, <1>2, <2>2, <2>3, WalkSteps
    <2>5. PICK a : Steps(F, base, V, M, a) /\ a[M] = h[1..M]
      BY <2>4 DEF Arrives
    <2>6. Merges(o, f, g, q, M, a)
      BY <1>3, <2>5 DEF Merges, Steps, base, V
    <2>7. QED
      BY <1>0, <2>5, <2>6 DEF MergeArrives
  <1>8. QED
    BY <1>6, <1>7

\* What there is after k marks: up to the next mark the values are right.
MergedTo(o, f, g, q, M, k, acc) ==
  /\ LastOf(q, k, f, 0, acc.y0) /\ LastOf(q, k, g, 1, acc.y1)
  /\ \A b \in DOMAIN acc.h.breakpoints : \E i \in 1..k : q[i][1] = b
  /\ \A t \in Int : (\A i \in 1..M : k < i => t < q[i][1]) =>
       call(acc.h, t) = OpOf(o, call(f, t), call(g, t))

\* At first.
LEMMA MergedFirst ==
  ASSUME NEW o, NEW f \in Pwf, NEW g \in Pwf, NEW q, NEW M, InTime(q, M),
         HasMarks(q, M, f, 0), HasMarks(q, M, g, 1)
  PROVE  MergedTo(o, f, g, q, M, 0, NoMarks(o, f, g))
  <1> DEFINE acc == NoMarks(o, f, g)
             c == OpOf(o, f.initial, g.initial)
  <1>1. acc.h = PiecewiseConstantFunction(c) /\ acc.y0 = f.initial /\ acc.y1 = g.initial
    BY DEF NoMarks
  <1>2. c \in Int
    BY PwfParts, OpType
  <1> HIDE DEF c
  <1>3. LastOf(q, 0, f, 0, f.initial) /\ LastOf(q, 0, g, 1, g.initial)
    BY DEF LastOf
  <1>4. DOMAIN acc.h.breakpoints = {}
    BY <1>1 DEF PiecewiseConstantFunction
  <1>5. M \in Nat /\ 0 \in 0..M /\ \A i \in 1..M : 0 < i
    BY DEF InTime
  <1>6. ASSUME NEW t \in Int, \A i \in 1..M : 0 < i => t < q[i][1]
        PROVE  call(acc.h, t) = OpOf(o, call(f, t), call(g, t))
    <2>1. call(acc.h, t) = c
      BY <1>1, <1>2, PwfConstant
    <2>2. f.initial = call(f, t)
      BY <1>3, <1>5, <1>6, LastStands
    <2>3. g.initial = call(g, t)
      BY <1>3, <1>5, <1>6, LastStands
    <2>4. QED
      BY <2>1, <2>2, <2>3 DEF c
  <1>7. QED
    BY <1>1, <1>3, <1>4, <1>6 DEF MergedTo

\* One mark more.
LEMMA MergedNext ==
  ASSUME NEW o, NEW f \in Pwf, NEW g \in Pwf, NEW q, NEW M, InTime(q, M),
         HasMarks(q, M, f, 0), HasMarks(q, M, g, 1), NEW k \in 1..M,
         NEW acc \in MergeAccs, MergedTo(o, f, g, q, M, k - 1, acc)
  PROVE  MergedTo(o, f, g, q, M, k, AddMark(o, acc, q[k]))
  <1> DEFINE p == q[k]
             y0 == IF p[3] = 0 THEN p[2] ELSE acc.y0
             y1 == IF p[3] = 1 THEN p[2] ELSE acc.y1
             x == p[1]
             y == OpOf(o, y0, y1)
             h == add_breakpoint(acc.h, x, y)
             new == AddMark(o, acc, q[k])
  <1>1. M \in Nat /\ k \in Nat \ {0} /\ k \in 0..M /\ x \in Int /\ p[2] \in Int
    BY DEF InTime
  <1>2. acc.h \in Pwf /\ acc.y0 \in Int /\ acc.y1 \in Int
    BY DEF MergeAccs
  <1>3. new.h = h /\ new.y0 = y0 /\ new.y1 = y1
    BY DEF AddMark
  <1>4. y0 \in Int /\ y1 \in Int
    BY <1>1, <1>2
  <1>5. LastOf(q, k, f, 0, y0) /\ LastOf(q, k, g, 1, y1)
    <2>1. LastOf(q, k - 1, f, 0, acc.y0) /\ LastOf(q, k - 1, g, 1, acc.y1)
      BY DEF MergedTo
    <2>2. LastOf(q, k, f, 0, IF q[k][3] = 0 THEN q[k][2] ELSE acc.y0)
      BY <1>1, <2>1, LastNext
    <2>3. LastOf(q, k, g, 1, IF q[k][3] = 1 THEN q[k][2] ELSE acc.y1)
      BY <1>1, <2>1, LastNext
    <2>4. QED
      BY <2>2, <2>3
  <1> HIDE DEF y0, y1
  <1>6. y \in Int
    BY <1>4, OpType
  <1>x. x = q[k][1]
    OBVIOUS
  <1> HIDE DEF y, x, new
  <1>8. \A b \in DOMAIN acc.h.breakpoints : \E i \in 1..(k - 1) : q[i][1] = b
    BY DEF MergedTo
  <1>9. \A i \in 1..(k - 1) : i \in 1..k /\ i \in 1..M /\ i < k
    BY <1>1
  <1>11. \A i \in 1..(k - 1) : q[i][1] <= x /\ q[i][1] \in Int
    BY <1>x, <1>9 DEF InTime
  <1>7. /\ h \in Pwf /\ DOMAIN h.breakpoints \in SUBSET (DOMAIN acc.h.breakpoints \cup {x})
        /\ \A t \in Int : call(h, t) = IF x <= t THEN y ELSE call(acc.h, t)
    <2> DEFINE u == acc.h
    <2>1. u \in Pwf
      BY <1>2
    <2>2. \A b \in DOMAIN u.breakpoints : b <= x
      BY <1>8, <1>11
    <2> HIDE DEF u
    <2>3. /\ add_breakpoint(u, x, y) \in Pwf
          /\ DOMAIN add_breakpoint(u, x, y).breakpoints \in SUBSET (DOMAIN u.breakpoints \cup {x})
          /\ \A t \in Int : call(add_breakpoint(u, x, y), t) = IF x <= t THEN y ELSE call(u, t)
      BY <1>1, <1>6, <2>1, <2>2, AddLast
    <2>4. QED
      BY <2>3 DEF u
  <1> HIDE DEF h
  <1>10. \A b \in DOMAIN h.breakpoints : \E i \in 1..k : q[i][1] = b
    <2>1. k \in 1..k
      BY <1>1
    <2>2. QED
      BY <1>x, <1>7, <1>8, <1>9, <2>1
  <1>12. ASSUME NEW t \in Int, \A i \in 1..M : k < i => t < q[i][1]
         PROVE  call(h, t) = OpOf(o, call(f, t), call(g, t))
    <2>1. CASE x <= t
      <3>2. call(h, t) = y
        BY <1>7, <2>1
      <3>3. \A i \in 1..k : q[i][1] <= t
        <4>1. TAKE i \in 1..k
        <4>2. i = k \/ i \in 1..(k - 1)
          BY <1>1
        <4>3. CASE i = k
          BY <1>x, <2>1, <4>3
        <4>4. CASE i \in 1..(k - 1)
          BY <1>1, <1>11, <2>1, <4>4
        <4>5. QED
          BY <4>2, <4>3, <4>4
      <3>4. y0 = call(f, t)
        BY <1>1, <1>5, <1>12, <3>3, LastStands
      <3>5. y1 = call(g, t)
        BY <1>1, <1>5, <1>12, <3>3, LastStands
      <3>6. QED
        BY <3>2, <3>4, <3>5 DEF y
    <2>2. CASE ~(x <= t)
      <3>1. call(h, t) = call(acc.h, t)
        BY <1>7, <2>2
      <3>2. \A i \in 1..M : k - 1 < i => t < q[i][1]
        <4>1. TAKE i \in 1..M
        <4>2. k - 1 < i => k < i \/ i = k
          BY <1>1
        <4>3. i = k => t < q[i][1]
          BY <1>1, <1>x, <2>2
        <4>4. QED
          BY <1>12, <4>2, <4>3
      <3>3. QED
        BY <3>1, <3>2 DEF MergedTo
    <2>3. QED
      BY <2>1, <2>2
  <1>13. MergedTo(o, f, g, q, M, k, new)
    BY <1>3, <1>5, <1>10, <1>12 DEF MergedTo
  <1>14. QED
    BY <1>13 DEF new

\* At last.
LEMMA MergedAll ==
  ASSUME NEW o, NEW f \in Pwf, NEW g \in Pwf, NEW q, q = _merged_breakpoints(f, g)
  PROVE  /\ \E h : MergeRec(o, f, g, q, h)
         /\ \A h : MergeRec(o, f, g, q, h) =>
              /\ h[DOMAIN q].h \in Pwf
              /\ \A t \in Int : call(h[DOMAIN q].h, t) = OpOf(o, call(f, t), call(g, t))
  <1>1. PICK M : InTime(q, M) /\ HasMarks(q, M, f, 0) /\ HasMarks(q, M, g, 1)
    BY MergedOK
  <1>2. M \in Nat
    BY <1>1 DEF InTime
  <1> HIDE DEF _merged_breakpoints
  <1>3. /\ \E h : MergeRec(o, f, g, q, h)
        /\ \A h : MergeRec(o, f, g, q, h) => MergeArrives(o, f, g, q, M, h[DOMAIN q])
    BY <1>1, MergeWalk
  <1>4. ASSUME NEW h, MergeRec(o, f, g, q, h)
        PROVE  /\ h[DOMAIN q].h \in Pwf
               /\ \A t \in Int : call(h[DOMAIN q].h, t) = OpOf(o, call(f, t), call(g, t))
    <2>1. PICK a : Merges(o, f, g, q, M, a) /\ a[M] = h[DOMAIN q]
      BY <1>3, <1>4 DEF MergeArrives
    <2> DEFINE Good(k) == MergedTo(o, f, g, q, M, k, a[k])
               B == {k \in 0..M : ~Good(k)}
    <2>2. Good(0)
      BY <1>1, <2>1, MergedFirst DEF Merges
    <2>3. ASSUME NEW k \in 1..M, Good(k - 1) PROVE Good(k)
      <3> DEFINE acc == a[k - 1]
      <3>1. acc \in MergeAccs /\ a[k] = AddMark(o, acc, q[k])
        BY <1>2, <2>1 DEF Merges
      <3>2. MergedTo(o, f, g, q, M, k - 1, acc)
        BY <2>3
      <3> HIDE DEF acc
      <3>3. MergedTo(o, f, g, q, M, k, AddMark(o, acc, q[k]))
        BY <1>1, <3>1, <3>2, MergedNext
      <3>4. QED
        BY <3>1, <3>3
    <2> HIDE DEF Good
    <2>4. B = {}
      <3>1. SUFFICES ASSUME B # {} PROVE FALSE
        OBVIOUS
      <3>2. B \in SUBSET Nat
        BY <1>2
      <3>3. PICK k \in B : \A j \in B : k <= j
        <4> HIDE DEF B
        <4> QED BY <3>1, <3>2, SmallestNumber
      <3>4. k # 0 /\ k \in 1..M /\ k - 1 \in 0..M /\ k - 1 \notin B /\ ~Good(k)
        BY <1>2, <2>2, <3>2, <3>3
      <3>5. QED
        BY <2>3, <3>4
    <2>5. Good(M)
      BY <1>2, <2>4
    <2>6. \A i \in 1..M : ~(M < i)
      BY <1>2
    <2>7. a[M] \in MergeAccs
      BY <1>2, <2>1 DEF Merges
    <2>8. \A t \in Int : call(a[M].h, t) = OpOf(o, call(f, t), call(g, t))
      BY <2>5, <2>6 DEF Good, MergedTo
    <2>9. QED
      BY <2>1, <2>7, <2>8 DEF MergeAccs
  <1>5. QED
    BY <1>3, <1>4

-----------------------------------------------------------------------------
(* Sums, differences, products and maxima.                                  *)

\* Combine with an operation each.
AddBody(f, g, q, h, s) ==
  IF s = {} THEN [h |-> PiecewiseConstantFunction(f.initial + g.initial), y0 |-> f.initial, y1 |-> g.initial]
  ELSE LET y0 == IF q[Max(s)][3] = 0 THEN q[Max(s)][2] ELSE h[s \ {Max(s)}].y0
           y1 == IF q[Max(s)][3] = 1 THEN q[Max(s)][2] ELSE h[s \ {Max(s)}].y1
       IN  [h |-> add_breakpoint(h[s \ {Max(s)}].h, q[Max(s)][1], y0 + y1), y0 |-> y0, y1 |-> y1]
AddRec(f, g, q, h) == h = [s \in SUBSET (DOMAIN q) |-> AddBody(f, g, q, h, s)]

SubBody(f, g, q, h, s) ==
  IF s = {} THEN [h |-> PiecewiseConstantFunction(f.initial - g.initial), y0 |-> f.initial, y1 |-> g.initial]
  ELSE LET y0 == IF q[Max(s)][3] = 0 THEN q[Max(s)][2] ELSE h[s \ {Max(s)}].y0
           y1 == IF q[Max(s)][3] = 1 THEN q[Max(s)][2] ELSE h[s \ {Max(s)}].y1
       IN  [h |-> add_breakpoint(h[s \ {Max(s)}].h, q[Max(s)][1], y0 - y1), y0 |-> y0, y1 |-> y1]
SubRec(f, g, q, h) == h = [s \in SUBSET (DOMAIN q) |-> SubBody(f, g, q, h, s)]

MulBody(f, g, q, h, s) ==
  IF s = {} THEN [h |-> PiecewiseConstantFunction(f.initial * g.initial), y0 |-> f.initial, y1 |-> g.initial]
  ELSE LET y0 == IF q[Max(s)][3] = 0 THEN q[Max(s)][2] ELSE h[s \ {Max(s)}].y0
           y1 == IF q[Max(s)][3] = 1 THEN q[Max(s)][2] ELSE h[s \ {Max(s)}].y1
       IN  [h |-> add_breakpoint(h[s \ {Max(s)}].h, q[Max(s)][1], y0 * y1), y0 |-> y0, y1 |-> y1]
MulRec(f, g, q, h) == h = [s \in SUBSET (DOMAIN q) |-> MulBody(f, g, q, h, s)]

MaxBody(f, g, q, h, s) ==
  IF s = {} THEN [h |-> PiecewiseConstantFunction(IF f.initial >= g.initial THEN f.initial ELSE g.initial),
                  y0 |-> f.initial, y1 |-> g.initial]
  ELSE LET y0 == IF q[Max(s)][3] = 0 THEN q[Max(s)][2] ELSE h[s \ {Max(s)}].y0
           y1 == IF q[Max(s)][3] = 1 THEN q[Max(s)][2] ELSE h[s \ {Max(s)}].y1
       IN  [h |-> add_breakpoint(h[s \ {Max(s)}].h, q[Max(s)][1], IF y0 >= y1 THEN y0 ELSE y1),
            y0 |-> y0, y1 |-> y1]
MaxRec(f, g, q, h) == h = [s \in SUBSET (DOMAIN q) |-> MaxBody(f, g, q, h, s)]

\* These are the parts of the definitions.
LEMMA OperationChoice ==
  ASSUME NEW f, NEW g, NEW q, q = _merged_breakpoints(f, g)
  PROVE  /\ __add__(f, g) = (CHOOSE h : AddRec(f, g, q, h))[DOMAIN q].h
         /\ __sub__(f, g) = (CHOOSE h : SubRec(f, g, q, h))[DOMAIN q].h
         /\ __mul__(f, g) = (CHOOSE h : MulRec(f, g, q, h))[DOMAIN q].h
         /\ piecewise_max(f, g) = (CHOOSE h : MaxRec(f, g, q, h))[DOMAIN q].h
  <1>1. __add__(f, g) = (CHOOSE h : AddRec(f, g, q, h))[DOMAIN q].h
    BY DEF __add__, Combine, FoldLeft, MapThenFoldSet, AddRec, AddBody
  <1>2. __sub__(f, g) = (CHOOSE h : SubRec(f, g, q, h))[DOMAIN q].h
    BY DEF __sub__, Combine, FoldLeft, MapThenFoldSet, SubRec, SubBody
  <1>3. __mul__(f, g) = (CHOOSE h : MulRec(f, g, q, h))[DOMAIN q].h
    BY DEF __mul__, Combine, FoldLeft, MapThenFoldSet, MulRec, MulBody
  <1>4. piecewise_max(f, g) = (CHOOSE h : MaxRec(f, g, q, h))[DOMAIN q].h
    BY DEF piecewise_max, Combine, FoldLeft, MapThenFoldSet, MaxRec, MaxBody
  <1>5. QED
    BY <1>1, <1>2, <1>3, <1>4

\* Each is the one with its name.
LEMMA OperationNames ==
  ASSUME NEW f, NEW g, NEW q, NEW h
  PROVE  /\ AddRec(f, g, q, h) <=> MergeRec("add", f, g, q, h)
         /\ SubRec(f, g, q, h) <=> MergeRec("sub", f, g, q, h)
         /\ MulRec(f, g, q, h) <=> MergeRec("mul", f, g, q, h)
         /\ MaxRec(f, g, q, h) <=> MergeRec("max", f, g, q, h)
  <1>1. \A s : AddBody(f, g, q, h, s) = MergeBody("add", f, g, q, h, s)
    BY DEF AddBody, MergeBody, AddMark, NoMarks, OpOf
  <1>2. \A s : SubBody(f, g, q, h, s) = MergeBody("sub", f, g, q, h, s)
    BY DEF SubBody, MergeBody, AddMark, NoMarks, OpOf
  <1>3. \A s : MulBody(f, g, q, h, s) = MergeBody("mul", f, g, q, h, s)
    BY DEF MulBody, MergeBody, AddMark, NoMarks, OpOf
  <1>4. \A s : MaxBody(f, g, q, h, s) = MergeBody("max", f, g, q, h, s)
    BY DEF MaxBody, MergeBody, AddMark, NoMarks, OpOf
  <1>5. AddRec(f, g, q, h) <=> MergeRec("add", f, g, q, h)
    BY <1>1 DEF AddRec, MergeRec
  <1>6. SubRec(f, g, q, h) <=> MergeRec("sub", f, g, q, h)
    BY <1>2 DEF SubRec, MergeRec
  <1>7. MulRec(f, g, q, h) <=> MergeRec("mul", f, g, q, h)
    BY <1>3 DEF MulRec, MergeRec
  <1>8. MaxRec(f, g, q, h) <=> MergeRec("max", f, g, q, h)
    BY <1>4 DEF MaxRec, MergeRec
  <1>9. QED
    BY <1>5, <1>6, <1>7, <1>8

\* Sums, differences, products and maxima are those of the values.
LEMMA OperationsAreRight ==
  ASSUME NEW f \in Pwf, NEW g \in Pwf
  PROVE  /\ __add__(f, g) \in Pwf /\ \A t \in Int : call(__add__(f, g), t) = call(f, t) + call(g, t)
         /\ __sub__(f, g) \in Pwf /\ \A t \in Int : call(__sub__(f, g), t) = call(f, t) - call(g, t)
         /\ __mul__(f, g) \in Pwf /\ \A t \in Int : call(__mul__(f, g), t) = call(f, t) * call(g, t)
         /\ piecewise_max(f, g) \in Pwf
         /\ \A t \in Int : call(piecewise_max(f, g), t) = IF call(f, t) >= call(g, t) THEN call(f, t) ELSE call(g, t)
  <1> DEFINE q == _merged_breakpoints(f, g)
  <1>1. ASSUME NEW o
        PROVE  /\ \E h : MergeRec(o, f, g, q, h)
               /\ \A h : MergeRec(o, f, g, q, h) =>
                    /\ h[DOMAIN q].h \in Pwf
                    /\ \A t \in Int : call(h[DOMAIN q].h, t) = OpOf(o, call(f, t), call(g, t))
    BY MergedAll
  <1>2. /\ __add__(f, g) = (CHOOSE h : AddRec(f, g, q, h))[DOMAIN q].h
        /\ __sub__(f, g) = (CHOOSE h : SubRec(f, g, q, h))[DOMAIN q].h
        /\ __mul__(f, g) = (CHOOSE h : MulRec(f, g, q, h))[DOMAIN q].h
        /\ piecewise_max(f, g) = (CHOOSE h : MaxRec(f, g, q, h))[DOMAIN q].h
    BY OperationChoice
  <1> HIDE DEF q
  <1>3. __add__(f, g) \in Pwf /\ \A t \in Int : call(__add__(f, g), t) = call(f, t) + call(g, t)
    <2> DEFINE h == CHOOSE h : AddRec(f, g, q, h)
    <2>1. \E w : AddRec(f, g, q, w)
      BY <1>1, OperationNames
    <2>2. AddRec(f, g, q, h)
      BY <2>1
    <2>3. __add__(f, g) = h[DOMAIN q].h
      BY <1>2
    <2> HIDE DEF h
    <2>4. MergeRec("add", f, g, q, h)
      BY <2>2, OperationNames
    <2>5. QED
      BY <1>1, <2>3, <2>4 DEF OpOf
  <1>4. __sub__(f, g) \in Pwf /\ \A t \in Int : call(__sub__(f, g), t) = call(f, t) - call(g, t)
    <2> DEFINE h == CHOOSE h : SubRec(f, g, q, h)
    <2>1. \E w : SubRec(f, g, q, w)
      BY <1>1, OperationNames
    <2>2. SubRec(f, g, q, h)
      BY <2>1
    <2>3. __sub__(f, g) = h[DOMAIN q].h
      BY <1>2
    <2> HIDE DEF h
    <2>4. MergeRec("sub", f, g, q, h)
      BY <2>2, OperationNames
    <2>5. QED
      BY <1>1, <2>3, <2>4 DEF OpOf
  <1>5. __mul__(f, g) \in Pwf /\ \A t \in Int : call(__mul__(f, g), t) = call(f, t) * call(g, t)
    <2> DEFINE h == CHOOSE h : MulRec(f, g, q, h)
    <2>1. \E w : MulRec(f, g, q, w)
      BY <1>1, OperationNames
    <2>2. MulRec(f, g, q, h)
      BY <2>1
    <2>3. __mul__(f, g) = h[DOMAIN q].h
      BY <1>2
    <2> HIDE DEF h
    <2>4. MergeRec("mul", f, g, q, h)
      BY <2>2, OperationNames
    <2>5. QED
      BY <1>1, <2>3, <2>4 DEF OpOf
  <1>6. /\ piecewise_max(f, g) \in Pwf
        /\ \A t \in Int : call(piecewise_max(f, g), t) = IF call(f, t) >= call(g, t) THEN call(f, t) ELSE call(g, t)
    <2> DEFINE h == CHOOSE h : MaxRec(f, g, q, h)
    <2>1. \E w : MaxRec(f, g, q, w)
      BY <1>1, OperationNames
    <2>2. MaxRec(f, g, q, h)
      BY <2>1
    <2>3. piecewise_max(f, g) = h[DOMAIN q].h
      BY <1>2
    <2> HIDE DEF h
    <2>4. MergeRec("max", f, g, q, h)
      BY <2>2, OperationNames
    <2>5. QED
      BY <1>1, <2>3, <2>4 DEF OpOf
  <1>7. QED
    BY <1>3, <1>4, <1>5, <1>6

-----------------------------------------------------------------------------
(* _compute_instance_cost: the walk along the changes of the price.         *)

BillAccs == [cost : Pwf, curr : Int, last : Int, delta : Int]
FirstBill(cost, s, first) == [cost |-> add_delta(cost, s, first), curr |-> s, delta |-> 0, last |-> first]

BillBody(p, base, q, h, s) == IF s = {} THEN base ELSE Bill(h[s \ {Max(s)}], q[Max(s)], p)
BillRec(p, base, q, h) == h = [s \in SUBSET (DOMAIN q) |-> BillBody(p, base, q, h, s)]
BillWalk(p, base, q) == CHOOSE h : BillRec(p, base, q, h)
FinalBill(acc, charged) == add_delta(acc.cost, IF charged THEN acc.curr + Billing ELSE acc.curr, -acc.last)

\* The cost of an instance is what the walk along the price changes has when it arrives.
LEMMA CostChoice ==
  ASSUME NEW cost, NEW inst, NEW end, NEW p, p = instance_prices[inst.market],
         NEW q, q = piecewise_breakpoint_generator(p, inst.start, end)
  PROVE  _compute_instance_cost(cost, inst, end) =
           FinalBill(BillWalk(p, FirstBill(cost, inst.start, call(p, inst.start)), q)[DOMAIN q],
                     Charged(inst, end))
  BY DEF _compute_instance_cost, FoldLeft, MapThenFoldSet, BillRec, BillBody, BillWalk, FirstBill, FinalBill

\* billing_frequency is positive.
LEMMA BillingPositive == Billing \in Nat \ {0}
  BY ConstantsAssumption

\* How many periods Bill goes on.
Jumps(x) == IF x % Billing = 0 THEN x \div Billing - 1 ELSE x \div Billing

\* A step of the bill makes a bill.
LEMMA BillType ==
  ASSUME NEW p \in Pwf, NEW acc \in BillAccs, NEW bp \in Int
  PROVE  Bill(acc, bp, p) \in BillAccs
  <1>1. acc.cost \in Pwf /\ acc.curr \in Int /\ acc.last \in Int /\ acc.delta \in Int
    BY DEF BillAccs
  <1>2. Billing \in Nat \ {0} /\ acc.curr + Billing \in Int
    BY <1>1, BillingPositive
  <1>3. add_delta(acc.cost, acc.curr + Billing, acc.delta) \in Pwf
    BY <1>1, <1>2, AddDelta
  <1>4. Jumps(bp - acc.curr) \in Int
    BY <1>1, <1>2 DEF Jumps
  <1>5. acc.curr + Jumps(bp - acc.curr) * Billing \in Int
    BY <1>1, <1>2, <1>4
  <1>6. \A b \in DOMAIN p.breakpoints : p.breakpoints[b] \in Int
    BY PwfParts
  <1> DEFINE due == bp >= acc.curr + Billing
             last == IF due THEN acc.last + acc.delta ELSE acc.last
             cost == IF due THEN add_delta(acc.cost, acc.curr + Billing, acc.delta) ELSE acc.cost
             curr == IF due THEN acc.curr + Jumps(bp - acc.curr) * Billing ELSE acc.curr
             delta == IF bp \in DOMAIN p.breakpoints THEN p.breakpoints[bp] - last ELSE acc.delta
  <1>7. last \in Int /\ cost \in Pwf /\ curr \in Int
    BY <1>1, <1>3, <1>5
  <1>8. delta \in Int
    <2> HIDE DEF last
    <2> QED BY <1>1, <1>6, <1>7
  <1>9. Bill(acc, bp, p) = [cost |-> cost, curr |-> curr, last |-> last, delta |-> delta]
    BY DEF Bill, Jumps
  <1> HIDE DEF cost, curr, last, delta
  <1>10. QED
    BY <1>7, <1>8, <1>9 DEF BillAccs

\* One look at the price after the other.
Bills(p, base, q, n, a) ==
  a[0] = base /\ (\A k \in 1..n : a[k] = Bill(a[k - 1], q[k], p)) /\ \A k \in 0..n : a[k] \in BillAccs

\* They are the parts of a bill.
LEMMA BillsWalk ==
  ASSUME NEW p \in Pwf, NEW base \in BillAccs, NEW n \in Nat, NEW q, DOMAIN q = 1..n,
         \A i \in 1..n : q[i] \in Int
  PROVE  \E a : Bills(p, base, q, n, a) /\ a[n] = BillWalk(p, base, q)[DOMAIN q]
  <1> DEFINE F == [z \in BillAccs \X (1..n) |-> Bill(z[1], q[z[2]], p)]
             h == BillWalk(p, base, q)
  <1>1. \A acc \in BillAccs, i \in 1..n : Bill(acc, q[i], p) \in BillAccs
    BY BillType
  <1>2. /\ F \in [BillAccs \X (1..n) -> BillAccs]
        /\ \A acc \in BillAccs, i \in 1..n : F[<<acc, i>>] = Bill(acc, q[i], p)
    BY <1>1
  <1> HIDE DEF F
  <1>3. PICK g : WalkOf(F, base, n, g) /\ \A s \in SUBSET (1..n) : g[s] \in BillAccs
    BY <1>2, WalkExists
  <1>4. \A s \in SUBSET (1..n) : s # {} => Max(s) \in 1..n /\ s \ {Max(s)} \in SUBSET (1..n)
    BY IntervalMax
  <1>5. BillRec(p, base, q, g)
    <2>1. \A s \in SUBSET (1..n) : g[s] = BillBody(p, base, q, g, s)
      BY <1>2, <1>3, <1>4 DEF WalkOf, BillBody
    <2>2. g = [s \in SUBSET (1..n) |-> g[s]]
      BY <1>3 DEF WalkOf
    <2>3. QED
      BY <2>1, <2>2 DEF BillRec
  <1>6. BillRec(p, base, q, h)
    BY <1>5 DEF BillWalk
  <1> HIDE DEF h
  <1>7. Follows(F, base, BillAccs, n, h)
    <2>1. \A s \in SUBSET (1..n) : h[s] = BillBody(p, base, q, h, s)
      BY <1>6 DEF BillRec
    <2>2. SUFFICES ASSUME NEW s \in SUBSET (1..n), s # {}, h[s \ {Max(s)}] \in BillAccs
                   PROVE  h[s] = F[<<h[s \ {Max(s)}], Max(s)>>]
      BY <2>1 DEF Follows, BillBody
    <2>3. Max(s) \in 1..n
      BY <1>4, <2>2
    <2>4. QED
      BY <1>2, <2>1, <2>2, <2>3 DEF BillBody
  <1>8. PICK a : Steps(F, base, BillAccs, n, a) /\ a[n] = h[1..n]
    <2>1. F \in [BillAccs \X (1..n) -> BillAccs]
      BY <1>2
    <2>2. Arrives(F, base, BillAccs, n, h[1..n])
      BY <1>7, <2>1, WalkSteps
    <2>3. QED
      BY <2>2 DEF Arrives
  <1>9. Bills(p, base, q, n, a)
    BY <1>2, <1>8 DEF Bills, Steps
  <1>10. QED
    BY <1>8, <1>9 DEF h

\* Looks(q, n, p, s, e): the price changes between s and e in their order, then e.
Looks(q, n, p, s, e) ==
  /\ n \in Nat /\ DOMAIN q = 1..n /\ n # 0 /\ q[n] = e
  /\ \A i \in 1..n : q[i] \in Int /\ s <= q[i] /\ q[i] <= e
  /\ \A i \in 1..n : (i # 1 => q[i - 1] <= q[i]) /\ (i # n => q[i] \in DOMAIN p.breakpoints)
  /\ \A i \in 1..n, b \in DOMAIN p.breakpoints :
       /\ ~(b < q[i] /\ i = 1 /\ s <= b)
       /\ ~(b < q[i] /\ i # 1 /\ q[i - 1] < b)

\* What piecewise_breakpoint_generator yields.
LEMMA GeneratorLooks ==
  ASSUME NEW p \in Pwf, NEW s \in Int, NEW e \in Int, s <= e, NEW q, q = piecewise_breakpoint_generator(p, s, e)
  PROVE  \E n : Looks(q, n, p, s, e)
  <1> DEFINE D == {b \in DOMAIN p.breakpoints : s <= b /\ b <= e}
             K == Cardinality(D)
             r == Sorted(D)
  <1>1. D \in SUBSET Int /\ IsFiniteSet(D) /\ \A b \in DOMAIN p.breakpoints : b \in Int
    BY PwfParts, FS_Subset
  <1>2. Increasing(r, K, D)
    <2> HIDE DEF D
    <2> QED BY <1>1, SortedNumbers
  <1>3. r \in Seq(Int)
    <2> DEFINE E(i) == CHOOSE b \in D : Cardinality({c \in D : c < b}) = i - 1
    <2>0. r = [i \in 1..K |-> E(i)]
      BY DEF Sorted, SortedBy
    <2>1. r = [i \in 1..K |-> r[i]]
      <3> HIDE DEF E, r, K, D
      <3> QED BY <2>0
    <2> HIDE DEF r, K
    <2>3. K \in Nat /\ \A i \in 1..K : r[i] \in Int
      BY <1>2 DEF Increasing
    <2>4. QED
      BY <2>1, <2>3
  <1>4. q = Append(r, e)
    BY DEF piecewise_breakpoint_generator
  <1> DEFINE n == K + 1
  <1> HIDE DEF r, K
  <1>5. K \in Nat /\ Len(r) = K /\ n \in Nat /\ n # 0
    BY <1>2 DEF Increasing
  <1>6. DOMAIN q = 1..n /\ q[n] = e /\ \A i \in 1..K : q[i] = r[i]
    BY <1>3, <1>4, <1>5
  <1>7. \A i \in 1..K : q[i] \in D /\ q[i] \in Int
    BY <1>2, <1>6 DEF Increasing
  <1>8. \A i \in 1..n : i \in 1..K \/ i = n
    BY <1>5
  <1>9. \A i \in 1..n : q[i] \in Int /\ s <= q[i] /\ q[i] <= e
    BY <1>6, <1>7, <1>8
  <1>10. ASSUME NEW i \in 1..n, i # 1 PROVE q[i - 1] <= q[i]
    <2>1. i - 1 \in 1..K /\ i - 1 \in 1..n /\ i - 1 < i
      BY <1>5, <1>10
    <2>2. CASE i \in 1..K
      BY <1>2, <1>6, <1>7, <2>1, <2>2 DEF Increasing
    <2>3. CASE i = n
      BY <1>6, <1>9, <2>1, <2>3
    <2>4. QED
      BY <1>8, <2>2, <2>3
  <1>11. ASSUME NEW i \in 1..n, NEW b \in DOMAIN p.breakpoints, b < q[i]
         PROVE  ~(i = 1 /\ s <= b) /\ ~(i # 1 /\ q[i - 1] < b)
    <2>1. SUFFICES ASSUME s <= b, i # 1 => q[i - 1] < b PROVE FALSE
      <3>1. i # 1 => i - 1 \in 1..n
        BY <1>5
      <3>2. i # 1 => s <= q[i - 1] /\ q[i - 1] \in Int
        BY <1>9, <3>1
      <3>3. b \in Int
        BY <1>1
      <3>4. QED
        BY <3>2, <3>3
    <2>2. b \in D
      BY <1>1, <1>9, <1>11, <2>1
    <2>3. PICK j \in 1..K : r[j] = b
      BY <1>2, <2>2 DEF Increasing
    <2>4. q[j] = b
      BY <1>6, <2>3
    <2>5. j < i
      <3>1. CASE i \in 1..K
        <4>1. r[j] < r[i]
          BY <1>6, <1>11, <2>3, <3>1
        <4>2. QED
          BY <1>2, <3>1, <4>1 DEF Increasing
      <3>2. CASE i = n
        BY <1>5, <3>2
      <3>3. QED
        BY <1>8, <3>1, <3>2
    <2>6. i - 1 \in 1..K /\ i # 1
      BY <1>5, <2>5
    <2>7. i - 1 < j
      BY <1>2, <1>6, <2>1, <2>4, <2>6 DEF Increasing
    <2>8. QED
      BY <1>5, <2>5, <2>7
  <1>12. \A i \in 1..n : i # n => q[i] \in DOMAIN p.breakpoints
    BY <1>7, <1>8
  <1>13. QED
    <2> HIDE DEF n, D
    <2> QED BY <1>5, <1>6, <1>9, <1>10, <1>11, <1>12 DEF Looks

-----------------------------------------------------------------------------
(* What a look at the price bills.                                          *)

\* The beginning of the billing period of t, and c is the beginning of one.
Begin(s, t) == s + ((t - s) \div Billing) * Billing
OnGrid(s, c) == c \in Int /\ \E n \in Nat : c = s + n * Billing

\* A time is in the period that begins at c, or in one before or after it.
LEMMA PeriodOf ==
  ASSUME NEW s \in Int, NEW t \in Int, s <= t, NEW c \in Int, OnGrid(s, c)
  PROVE  /\ Begin(s, t) \in Int /\ s <= Begin(s, t) /\ Begin(s, t) <= t
         /\ c + Billing <= t => c + Billing <= Begin(s, t)
         /\ t < c + Billing => Begin(s, t) <= c
  <1> DEFINE m == (t - s) \div Billing
             B == Billing
             mB == m * B
  <1>0. B \in Nat \ {0}
    BY BillingPositive
  <1>1. m \in Nat /\ t - s = B * m + ((t - s) % B) /\ (t - s) % B \in 0..(B - 1)
    BY <1>0
  <1>2. PICK n \in Nat : c = s + n * B
    BY DEF OnGrid
  <1> DEFINE nB == n * B
  <1>3. Begin(s, t) = s + mB
    BY DEF Begin
  <1> HIDE DEF m, B
  <1>4. mB \in Nat /\ nB \in Nat /\ mB <= t - s /\ t - s < mB + B
    BY <1>0, <1>1
  <1>5. m < n + 1 \/ n + 1 <= m
    BY <1>1
  <1>6. ASSUME m < n + 1 PROVE mB <= nB
    <2>1. m <= n
      BY <1>1, <1>6
    <2>2. QED
      BY <1>0, <1>1, <2>1, Cancel
  <1>7. ASSUME n + 1 <= m PROVE nB + B <= mB
    <2>1. (n + 1) * B <= mB
      BY <1>0, <1>1, <1>7, Cancel
    <2>2. (n + 1) * B = nB + B
      BY <1>0
    <2>3. QED
      BY <2>1, <2>2
  <1>8. c = s + nB
    BY <1>2
  <1> HIDE DEF mB, nB
  <1>9. s + mB \in Int /\ s <= s + mB /\ s + mB <= t
    BY <1>4
  <1>10. c + B <= t => c + B <= s + mB
    BY <1>0, <1>4, <1>5, <1>6, <1>7, <1>8
  <1>11. t < c + B => s + mB <= c
    BY <1>0, <1>4, <1>5, <1>6, <1>7, <1>8
  <1>12. QED
    BY <1>3, <1>9, <1>10, <1>11 DEF B

\* The jump ends in the period that ends at or after x.
LEMMA JumpsTo ==
  ASSUME NEW x \in Int, x >= Billing
  PROVE  /\ Jumps(x) \in Nat /\ Jumps(x) * Billing \in Nat
         /\ Jumps(x) * Billing < x /\ x <= Jumps(x) * Billing + Billing
  <1> DEFINE d == x \div Billing
             r == x % Billing
             B == Billing
             dB == d * B
  <1>0. B \in Nat \ {0}
    BY BillingPositive
  <1>1. d \in Int /\ r \in Int /\ x = B * d + r /\ 0 <= r /\ r < B
    BY <1>0
  <1>2. Jumps(x) = IF r = 0 THEN d - 1 ELSE d
    BY DEF Jumps
  <1> HIDE DEF d, r, B
  <1>3. x = dB + r /\ dB \in Int
    BY <1>0, <1>1
  <1>4. d \in Nat \ {0}
    <2>1. SUFFICES ASSUME d <= 0 PROVE FALSE
      BY <1>1
    <2>2. dB <= 0 * B /\ 0 * B = 0
      BY <1>0, <1>1, <2>1, Cancel
    <2>3. QED
      BY <1>0, <1>1, <1>3, <2>2 DEF B
  <1>5. dB \in Nat /\ (d - 1) * B = dB - B /\ (d - 1) * B \in Nat
    <2>1. d - 1 \in Nat /\ dB \in Nat
      BY <1>0, <1>4
    <2>2. (d - 1) * B = dB - B
      BY <1>0, <1>4
    <2>3. (d - 1) * B \in Nat
      BY <1>0, <2>1
    <2>4. QED
      BY <2>1, <2>2, <2>3
  <1>6. CASE r = 0
    <2>1. Jumps(x) = d - 1 /\ Jumps(x) \in Nat
      BY <1>2, <1>4, <1>6
    <2>2. Jumps(x) * B = dB - B
      BY <1>5, <2>1
    <2> HIDE DEF dB
    <2>3. dB - B \in Nat /\ dB - B < x /\ x <= dB - B + B
      BY <1>0, <1>3, <1>5, <1>6
    <2>4. QED
      BY <2>1, <2>2, <2>3 DEF B
  <1>7. CASE r # 0
    <2>1. Jumps(x) = d /\ Jumps(x) \in Nat
      BY <1>2, <1>4, <1>7
    <2>2. Jumps(x) * B = dB
      BY <2>1
    <2> HIDE DEF dB
    <2>3. dB \in Nat /\ dB < x /\ x <= dB + B
      BY <1>0, <1>1, <1>3, <1>5, <1>7
    <2>4. QED
      BY <2>1, <2>2, <2>3 DEF B
  <1>8. QED
    BY <1>6, <1>7

\* What is billed when every period before u has its price and the rest is last.
Spent(p, s, u, last, t) == IF t < s THEN 0 ELSE IF t < u THEN call(p, Begin(s, t)) ELSE last

\* Where the bill of an instance that starts at s stands at x.
BillStands(p, cost, s, x, acc) ==
  /\ acc \in BillAccs /\ OnGrid(s, acc.curr) /\ s <= acc.curr /\ acc.curr <= x
  /\ x <= acc.curr + Billing /\ (s < x => acc.curr < x)
  /\ \A t \in Int : call(acc.cost, t) = call(cost, t) + Spent(p, s, acc.curr + Billing, acc.last, t)

\* It knows the price at x.
Knows(p, acc, x) == acc.last + acc.delta = call(p, x)

\* No price change between two looks.
Quiet(p, x, y) == \A b \in DOMAIN p.breakpoints : ~(x < b /\ b < y)

\* The value at a breakpoint.
LEMMA CallAtBreak ==
  ASSUME NEW p \in Pwf, NEW y \in DOMAIN p.breakpoints
  PROVE  p.breakpoints[y] \in Int /\ call(p, y) = p.breakpoints[y]
  <1>1. y \in Int /\ p.breakpoints[y] \in Int
    BY PwfParts
  <1>2. y <= y /\ \A b \in DOMAIN p.breakpoints : b <= y => b <= y
    BY <1>1
  <1>3. QED
    BY <1>1, <1>2, CallIs

\* A look before the next period only notes the price.
LEMMA LookEarly ==
  ASSUME NEW p \in Pwf, NEW cost \in Pwf, NEW s \in Int, NEW x \in Int, NEW y \in Int, s <= x, x <= y,
         NEW acc, BillStands(p, cost, s, x, acc), Knows(p, acc, x), Quiet(p, x, y), ~(y >= acc.curr + Billing)
  PROVE  BillStands(p, cost, s, y, Bill(acc, y, p)) /\ (y \in DOMAIN p.breakpoints => Knows(p, Bill(acc, y, p), y))
  <1> DEFINE new == Bill(acc, y, p)
  <1>1. new \in BillAccs
    BY BillType DEF BillStands
  <1>2. /\ new.cost = acc.cost /\ new.curr = acc.curr /\ new.last = acc.last
        /\ y \in DOMAIN p.breakpoints => new.delta = p.breakpoints[y] - acc.last
    BY DEF Bill
  <1> HIDE DEF new
  <1>3. acc.curr \in Int /\ acc.last \in Int /\ Billing \in Nat
    BY BillingPositive DEF BillStands, BillAccs
  <1>4. BillStands(p, cost, s, y, new)
    <2>1. s <= acc.curr /\ acc.curr <= y /\ y <= acc.curr + Billing /\ (s < y => acc.curr < y)
      BY <1>3 DEF BillStands
    <2>2. \A t \in Int : call(new.cost, t) = call(cost, t) + Spent(p, s, new.curr + Billing, new.last, t)
      BY <1>2 DEF BillStands
    <2>3. QED
      BY <1>1, <1>2, <2>1, <2>2 DEF BillStands
  <1>5. ASSUME y \in DOMAIN p.breakpoints PROVE Knows(p, new, y)
    <2>1. p.breakpoints[y] \in Int
      BY <1>5, CallAtBreak
    <2>2. call(p, y) = p.breakpoints[y]
      BY <1>5, CallAtBreak
    <2>3. QED
      BY <1>2, <1>3, <1>5, <2>1, <2>2 DEF Knows
  <1>6. QED
    BY <1>4, <1>5 DEF new

\* A look in a later period bills what it has noted for the periods since.
LEMMA LookLate ==
  ASSUME NEW p \in Pwf, NEW cost \in Pwf, NEW s \in Int, NEW x \in Int, NEW y \in Int, s <= x, x <= y,
         NEW acc, BillStands(p, cost, s, x, acc), Knows(p, acc, x), Quiet(p, x, y), y >= acc.curr + Billing
  PROVE  BillStands(p, cost, s, y, Bill(acc, y, p)) /\ (y \in DOMAIN p.breakpoints => Knows(p, Bill(acc, y, p), y))
  <1> DEFINE new == Bill(acc, y, p)
             B == Billing
             c == acc.curr
             u == c + B
             j == Jumps(y - c)
             jB == j * B
             v == acc.last + acc.delta
  <1>1. new \in BillAccs
    BY BillType DEF BillStands
  <1>2. /\ new.cost = add_delta(acc.cost, u, acc.delta) /\ new.curr = c + jB /\ new.last = v
        /\ y \in DOMAIN p.breakpoints => new.delta = p.breakpoints[y] - v
    BY DEF Bill, Jumps
  <1> HIDE DEF new
  <1>3. c \in Int /\ acc.last \in Int /\ acc.delta \in Int /\ B \in Nat \ {0} /\ acc.cost \in Pwf /\ u \in Int /\ v \in Int
    BY BillingPositive DEF BillStands, BillAccs
  <1>4. s <= c /\ c <= x /\ x <= u /\ y >= u /\ v = call(p, x) /\ OnGrid(s, c)
    BY DEF BillStands, Knows
  <1>5. j \in Nat /\ jB \in Nat /\ jB < y - c /\ y - c <= jB + B
    <2>1. y - c \in Int /\ y - c >= B
      BY <1>3, <1>4
    <2>2. QED
      BY <2>1, JumpsTo
  <1>6. OnGrid(s, c + jB)
    <2>1. PICK n \in Nat : c = s + n * B
      BY <1>4 DEF OnGrid
    <2>2. n + j \in Nat /\ (n + j) * B = n * B + jB /\ n * B \in Int
      BY <1>3, <1>5
    <2>3. c + jB = s + (n + j) * B /\ c + jB \in Int
      BY <1>3, <1>5, <2>1, <2>2
    <2>4. QED
      BY <2>2, <2>3 DEF OnGrid
  <1>7. \A t \in Int : call(new.cost, t) = call(acc.cost, t) + (IF t >= u THEN acc.delta ELSE 0)
    <2> HIDE DEF u
    <2> QED BY <1>2, <1>3, AddDelta
  <1>8. ASSUME NEW t \in Int
        PROVE  call(new.cost, t) = call(cost, t) + Spent(p, s, (c + jB) + B, v, t)
    <2>1. call(acc.cost, t) = call(cost, t) + Spent(p, s, u, acc.last, t)
      BY DEF BillStands
    <2>2. call(cost, t) \in Int /\ call(acc.cost, t) \in Int
      BY <1>3, CallType
    <2>3. CASE t < u
      <3>1. t < (c + jB) + B
        BY <1>3, <1>5, <2>3
      <3>2. Spent(p, s, u, acc.last, t) = Spent(p, s, (c + jB) + B, v, t)
        BY <2>3, <3>1 DEF Spent
      <3>3. call(new.cost, t) = call(acc.cost, t)
        BY <1>3, <1>7, <2>2, <2>3
      <3>4. QED
        BY <2>1, <3>2, <3>3
    <2>4. CASE ~(t < u)
      <3>1. ~(t < s) /\ t >= u /\ s <= t
        BY <1>3, <1>4, <2>4
      <3>2. Spent(p, s, u, acc.last, t) = acc.last
        BY <2>4, <3>1 DEF Spent
      <3>3. call(new.cost, t) = call(acc.cost, t) + acc.delta
        BY <1>7, <3>1
      <3>4. call(new.cost, t) = call(cost, t) + v
        BY <1>3, <2>1, <2>2, <3>2, <3>3
      <3>5. ASSUME t < (c + jB) + B PROVE call(p, Begin(s, t)) = v
        <4> DEFINE z == Begin(s, t)
                   w == c + jB
        <4>1. z \in Int /\ u <= z
          BY <1>3, <1>4, <3>1, PeriodOf
        <4>2. z <= w
          <5>1. w \in Int /\ OnGrid(s, w) /\ t < w + Billing
            BY <1>3, <1>5, <1>6, <3>5
          <5> HIDE DEF w
          <5>2. QED
            BY <3>1, <5>1, PeriodOf
        <4>3. x <= z /\ z < y
          BY <1>3, <1>4, <1>5, <4>1, <4>2
        <4> HIDE DEF z
        <4>4. \A b \in DOMAIN p.breakpoints : b \in Int /\ ~(x < b /\ b <= z)
          BY <4>1, <4>3, PwfParts DEF Quiet
        <4>5. call(p, z) = call(p, x)
          BY <4>1, <4>3, <4>4, CallSame
        <4>6. QED
          BY <1>4, <4>5 DEF z
      <3>6. Spent(p, s, (c + jB) + B, v, t) = v
        BY <3>1, <3>5 DEF Spent
      <3>7. QED
        BY <3>4, <3>6
    <2>5. QED
      BY <2>3, <2>4
  <1>9. BillStands(p, cost, s, y, new)
    <2> DEFINE w == c + jB
    <2>1. w \in Int /\ s <= w /\ w <= y /\ y <= w + Billing /\ w < y
      BY <1>3, <1>4, <1>5
    <2>2. \A t \in Int : call(new.cost, t) = call(cost, t) + Spent(p, s, w + Billing, v, t)
      BY <1>8
    <2>3. new.curr = w /\ new.last = v /\ OnGrid(s, w)
      BY <1>2, <1>6
    <2> HIDE DEF w, v
    <2>4. QED
      BY <1>1, <2>1, <2>2, <2>3 DEF BillStands
  <1>10. ASSUME y \in DOMAIN p.breakpoints PROVE Knows(p, new, y)
    <2>1. p.breakpoints[y] \in Int
      BY <1>10, CallAtBreak
    <2>2. call(p, y) = p.breakpoints[y]
      BY <1>10, CallAtBreak
    <2> HIDE DEF v
    <2>3. new.last + new.delta = v + (p.breakpoints[y] - v)
      BY <1>2, <1>10
    <2>4. QED
      BY <1>3, <2>1, <2>2, <2>3 DEF Knows
  <1>11. QED
    BY <1>9, <1>10 DEF new

-----------------------------------------------------------------------------
(* The bill of an instance.                                                 *)

\* The first bill stands at the start.
LEMMA FirstBillStands ==
  ASSUME NEW p \in Pwf, NEW cost \in Pwf, NEW s \in Int, NEW acc, acc = FirstBill(cost, s, call(p, s))
  PROVE  BillStands(p, cost, s, s, acc) /\ Knows(p, acc, s)
  <1> DEFINE v == call(p, s)
             B == Billing
  <1>1. v \in Int /\ B \in Nat \ {0}
    BY CallType, BillingPositive
  <1>2. acc.cost = add_delta(cost, s, v) /\ acc.curr = s /\ acc.last = v /\ acc.delta = 0
    BY DEF FirstBill
  <1>3. acc \in BillAccs
    <2> HIDE DEF v
    <2>1. add_delta(cost, s, v) \in Pwf
      BY <1>1, AddDelta
    <2>2. acc = [cost |-> add_delta(cost, s, v), curr |-> s, delta |-> 0, last |-> v]
      BY DEF FirstBill, v
    <2>3. QED
      BY <1>1, <2>1, <2>2 DEF BillAccs
  <1>4. OnGrid(s, s)
    <2>1. 0 \in Nat /\ s = s + 0 * B
      BY <1>1
    <2>2. QED
      BY <2>1 DEF OnGrid
  <1>5. ASSUME NEW t \in Int PROVE call(acc.cost, t) = call(cost, t) + Spent(p, s, s + B, v, t)
    <2>1. call(acc.cost, t) = call(cost, t) + (IF t >= s THEN v ELSE 0)
      <3> HIDE DEF v
      <3> QED BY <1>1, <1>2, AddDelta
    <2>2. ASSUME ~(t < s) PROVE Spent(p, s, s + B, v, t) = v
      <3>1. s <= t
        BY <2>2
      <3>2. ASSUME t < s + B PROVE Begin(s, t) = s
        <4>1. Begin(s, t) \in Int /\ s <= Begin(s, t) /\ Begin(s, t) <= s
          BY <1>4, <3>1, <3>2, PeriodOf
        <4>2. QED
          BY <4>1
      <3>3. QED
        BY <2>2, <3>2 DEF Spent
    <2>3. t < s => Spent(p, s, s + B, v, t) = 0
      BY DEF Spent
    <2>4. QED
      BY <2>1, <2>2, <2>3
  <1>6. BillStands(p, cost, s, s, acc)
    <2>1. s <= acc.curr /\ acc.curr <= s /\ s <= acc.curr + Billing /\ ~(s < s)
      BY <1>1, <1>2
    <2>2. \A t \in Int : call(acc.cost, t) = call(cost, t) + Spent(p, s, acc.curr + Billing, acc.last, t)
      BY <1>2, <1>5
    <2>3. QED
      BY <1>2, <1>3, <1>4, <2>1, <2>2 DEF BillStands
  <1>7. Knows(p, acc, s)
    BY <1>1, <1>2 DEF Knows
  <1>8. QED
    BY <1>6, <1>7

\* A look.
LEMMA LookStands ==
  ASSUME NEW p \in Pwf, NEW cost \in Pwf, NEW s \in Int, NEW x \in Int, NEW y \in Int, s <= x, x <= y,
         NEW acc, BillStands(p, cost, s, x, acc), Knows(p, acc, x), Quiet(p, x, y)
  PROVE  BillStands(p, cost, s, y, Bill(acc, y, p)) /\ (y \in DOMAIN p.breakpoints => Knows(p, Bill(acc, y, p), y))
  BY LookEarly, LookLate

\* The bill at the end of the walk.
LEMMA BillArrives ==
  ASSUME NEW p \in Pwf, NEW cost \in Pwf, NEW s \in Int, NEW e \in Int, s <= e,
         NEW q, NEW n, Looks(q, n, p, s, e), NEW a, Bills(p, FirstBill(cost, s, call(p, s)), q, n, a)
  PROVE  BillStands(p, cost, s, e, a[n])
  <1> DEFINE X(k) == IF k = 0 THEN s ELSE q[k]
             Good(k) == BillStands(p, cost, s, X(k), a[k]) /\ (k # n => Knows(p, a[k], X(k)))
             bad == {k \in 0..n : ~Good(k)}
  <1>1. n \in Nat /\ n # 0 /\ q[n] = e /\ DOMAIN q = 1..n
    BY DEF Looks
  <1>2. \A k \in 1..n : q[k] \in Int /\ s <= q[k]
    BY DEF Looks
  <1>3. \A k \in 0..n : X(k) \in Int /\ s <= X(k)
    BY <1>1, <1>2
  <1>4. Good(0)
    <2>1. a[0] = FirstBill(cost, s, call(p, s)) /\ X(0) = s
      BY DEF Bills
    <2>2. BillStands(p, cost, s, s, a[0]) /\ Knows(p, a[0], s)
      BY <2>1, FirstBillStands
    <2>3. QED
      BY <2>1, <2>2
  <1>5. ASSUME NEW k \in 1..n, Good(k - 1) PROVE Good(k)
    <2> DEFINE i == k - 1
               x == X(i)
               y == q[k]
    <2>1. i \in 0..n /\ i # n /\ X(k) = y
      BY <1>1
    <2>2. BillStands(p, cost, s, x, a[i]) /\ Knows(p, a[i], x)
      BY <1>5, <2>1
    <2>3. a[k] = Bill(a[i], y, p)
      BY DEF Bills
    <2>4. x \in Int /\ s <= x /\ y \in Int
      BY <1>2, <1>3, <2>1
    <2>5. x <= y /\ Quiet(p, x, y)
      <3>1. CASE k = 1
        <4>1. x = s
          BY <3>1
        <4>2. \A b \in DOMAIN p.breakpoints : ~(b < y /\ s <= b) /\ b \in Int
          BY <3>1, PwfParts DEF Looks
        <4> HIDE DEF x, y
        <4>3. \A b \in DOMAIN p.breakpoints : ~(x < b /\ b < y)
          BY <2>4, <4>1, <4>2
        <4>4. x <= y
          BY <1>2, <4>1 DEF y
        <4>5. QED
          BY <4>3, <4>4 DEF Quiet
      <3>2. CASE k # 1
        <4>1. i # 0 /\ x = q[i]
          BY <3>2
        <4>2. q[k - 1] <= q[k] /\ \A b \in DOMAIN p.breakpoints : ~(b < q[k] /\ q[k - 1] < b)
          BY <3>2 DEF Looks
        <4>3. QED
          BY <4>1, <4>2 DEF Quiet
      <3>3. QED
        BY <3>1, <3>2
    <2>6. k # n => y \in DOMAIN p.breakpoints
      BY DEF Looks
    <2>7. BillStands(p, cost, s, y, a[k]) /\ (y \in DOMAIN p.breakpoints => Knows(p, a[k], y))
      <3> HIDE DEF x, y, i
      <3> QED BY <2>2, <2>3, <2>4, <2>5, LookStands
    <2>8. QED
      BY <2>1, <2>6, <2>7
  <1> HIDE DEF Good
  <1>6. bad = {}
    <2>1. SUFFICES ASSUME bad # {} PROVE FALSE
      OBVIOUS
    <2>2. bad \in SUBSET Nat
      BY <1>1
    <2>3. PICK k \in bad : \A j \in bad : k <= j
      <3> HIDE DEF bad
      <3> QED BY <2>1, <2>2, SmallestNumber
    <2>4. k \in 1..n /\ k - 1 \in 0..n
      BY <1>1, <1>4, <2>3
    <2>5. k - 1 \notin bad
      BY <2>3, <2>4
    <2>6. QED
      BY <1>5, <2>3, <2>4, <2>5
  <1>7. Good(n)
    <2>1. n \in 0..n
      BY <1>1
    <2>2. QED
      BY <1>6, <2>1
  <1>8. X(n) = e
    BY <1>1
  <1>9. QED
    BY <1>7, <1>8 DEF Good

\* What an instance that starts at s and ends at e costs at t.
PriceTo(p, s, e, t) ==
  IF t < s \/ (Begin(s, t) >= e /\ Begin(s, t) > s) THEN 0 ELSE call(p, Begin(s, t))

\* _compute_instance_cost adds the cost of the instance to the function.
LEMMA InstanceCost ==
  ASSUME NEW cost \in Pwf, NEW inst, NEW p \in Pwf, p = instance_prices[inst.market], NEW s \in Int, s = inst.start,
         NEW e \in Int, s <= e
  PROVE  /\ _compute_instance_cost(cost, inst, e) \in Pwf
         /\ Charged(inst, e) /\ s < e =>
              \A t \in Int : call(_compute_instance_cost(cost, inst, e), t) = call(cost, t) + PriceTo(p, s, e, t)
  <1> DEFINE q == piecewise_breakpoint_generator(p, s, e)
             base == FirstBill(cost, s, call(p, s))
             B == Billing
             total == _compute_instance_cost(cost, inst, e)
  <1>1. PICK n : Looks(q, n, p, s, e)
    <2> HIDE DEF q
    <2> QED BY GeneratorLooks DEF q
  <1>2. base \in BillAccs
    BY FirstBillStands DEF BillStands
  <1>3. PICK a : Bills(p, base, q, n, a) /\ a[n] = BillWalk(p, base, q)[DOMAIN q]
    <2>1. n \in Nat /\ DOMAIN q = 1..n /\ \A i \in 1..n : q[i] \in Int
      BY <1>1 DEF Looks
    <2> HIDE DEF q, base
    <2>2. QED
      BY <1>2, <2>1, BillsWalk
  <1>4. total = FinalBill(a[n], Charged(inst, e))
    <2>1. total = FinalBill(BillWalk(p, base, q)[DOMAIN q], Charged(inst, e))
      BY CostChoice
    <2> HIDE DEF q, base, total
    <2>2. QED
      BY <1>3, <2>1
  <1>5. BillStands(p, cost, s, e, a[n])
    <2> HIDE DEF q
    <2> QED BY <1>1, <1>3, BillArrives
  <1> DEFINE acc == a[n]
             at == IF Charged(inst, e) THEN acc.curr + B ELSE acc.curr
  <1>6. total = add_delta(acc.cost, at, -acc.last)
    BY <1>4 DEF FinalBill
  <1> HIDE DEF acc, total
  <1>7. acc \in BillAccs /\ BillStands(p, cost, s, e, acc)
    BY <1>5 DEF acc, BillStands
  <1>8. acc.cost \in Pwf /\ acc.curr \in Int /\ acc.last \in Int /\ B \in Nat \ {0}
    BY <1>7, BillingPositive DEF BillAccs
  <1>9. at \in Int
    BY <1>8
  <1>10. total \in Pwf /\ \A t \in Int : call(total, t) = call(acc.cost, t) + (IF t >= at THEN -acc.last ELSE 0)
    <2>1. -acc.last \in Int
      BY <1>8
    <2> HIDE DEF at
    <2>2. QED
      BY <1>6, <1>8, <1>9, <2>1, AddDelta
  <1>11. ASSUME Charged(inst, e), s < e, NEW t \in Int
         PROVE  call(total, t) = call(cost, t) + PriceTo(p, s, e, t)
    <2> DEFINE c == acc.curr
               z == Begin(s, t)
    <2>1. at = c + B
      BY <1>11
    <2>2. call(total, t) = call(acc.cost, t) + (IF t >= c + B THEN -acc.last ELSE 0)
      BY <1>10, <2>1
    <2>3. call(acc.cost, t) = call(cost, t) + Spent(p, s, c + B, acc.last, t)
      BY <1>7 DEF BillStands
    <2>4. s <= c /\ c < e /\ e <= c + B /\ OnGrid(s, c) /\ c \in Int
      BY <1>7, <1>8, <1>11 DEF BillStands
    <2>5. call(cost, t) \in Int
      BY CallType
    <2>6. ASSUME s <= t
          PROVE  /\ z \in Int /\ s <= z
                 /\ c + B <= t => c + B <= z
                 /\ t < c + B => z <= c
      BY <2>4, <2>6, PeriodOf
    <2> HIDE DEF c, z
    <2>7. CASE t < s
      <3>1. Spent(p, s, c + B, acc.last, t) = 0 /\ PriceTo(p, s, e, t) = 0 /\ ~(t >= c + B)
        BY <1>8, <2>4, <2>7 DEF Spent, PriceTo
      <3>2. QED
        BY <2>2, <2>3, <2>5, <3>1
    <2>8. CASE s <= t /\ t < c + B
      <3>1. ~(t < s) /\ ~(z >= e) /\ ~(t >= c + B)
        BY <1>8, <2>4, <2>6, <2>8
      <3>2. z \in Int
        BY <2>6, <2>8
      <3>3. Spent(p, s, c + B, acc.last, t) = call(p, z) /\ PriceTo(p, s, e, t) = call(p, z)
        BY <2>8, <3>1 DEF Spent, PriceTo, z
      <3>4. call(p, z) \in Int
        BY <3>2, CallType
      <3>5. QED
        BY <2>2, <2>3, <2>5, <3>1, <3>3, <3>4
    <2>9. CASE s <= t /\ c + B <= t
      <3>1. ~(t < s) /\ z >= e /\ z > s /\ t >= c + B /\ ~(t < c + B)
        BY <1>8, <2>4, <2>6, <2>9
      <3>2. Spent(p, s, c + B, acc.last, t) = acc.last /\ PriceTo(p, s, e, t) = 0
        BY <3>1 DEF Spent, PriceTo, z
      <3>3. QED
        BY <1>8, <2>2, <2>3, <2>5, <3>1, <3>2
    <2>10. QED
      BY <1>8, <2>4, <2>7, <2>8, <2>9
  <1>12. QED
    BY <1>10, <1>11 DEF total

-----------------------------------------------------------------------------
(* The bills of instances that end together.                                *)

CostBody(h, f, insts, e, s) ==
  IF s = {} THEN f ELSE _compute_instance_cost(h[s \ {Pick(s)}], insts[Pick(s)], e)
CostRec(h, f, insts, S, e) == h = [s \in SUBSET S |-> CostBody(h, f, insts, e, s)]
CostFold(f, insts, S, e) == CHOOSE h : CostRec(h, f, insts, S, e)

\* These are the parts of the definition.
LEMMA CostsChoice ==
  ASSUME NEW f, NEW insts, NEW S, NEW e
  PROVE  Costs(f, insts, S, e) = CostFold(f, insts, S, e)[S]
  BY DEF Costs, CostFold, CostRec, CostBody, FoldSet, MapThenFoldSet, Pick

\* Instances that can be billed up to e, and will be without a refund.
Billable(insts, S, e) ==
  \A i \in S : insts[i].market \in Markets /\ insts[i].start \in Int /\ insts[i].start <= e
AllCharged(insts, S, e) == \A i \in S : Charged(insts[i], e) /\ insts[i].start < e
BillsTo(prices, insts, S, e, t) ==
  [i \in S |-> PriceTo(prices[insts[i].market], insts[i].start, e, t)]

\* The recursion has a solution.
LEMMA CostExists ==
  ASSUME PricesOK, NEW f \in Pwf, NEW S, IsFiniteSet(S), NEW insts, NEW e \in Int, Billable(insts, S, e)
  PROVE  \E h : CostRec(h, f, insts, S, e)
  <1> DEFINE F == [z \in Pwf \X S |-> _compute_instance_cost(z[1], insts[z[2]], e)]
             c == [s \in SUBSET S |-> Pick(s)]
  <1>1. \A s \in SUBSET S : c[s] = Pick(s) /\ (s # {} => c[s] \in s)
    BY DEF Pick
  <1>2. ASSUME NEW g \in Pwf, NEW i \in S PROVE _compute_instance_cost(g, insts[i], e) \in Pwf
    <2> DEFINE inst == insts[i]
    <2>1. inst.start \in Int /\ inst.start <= e /\ instance_prices[inst.market] \in Pwf
      BY DEF Billable, PricesOK
    <2> HIDE DEF inst
    <2>2. _compute_instance_cost(g, inst, e) \in Pwf
      BY <2>1, InstanceCost
    <2>3. QED
      BY <2>2 DEF inst
  <1>3. F \in [Pwf \X S -> Pwf] /\ \A g \in Pwf, i \in S : F[<<g, i>>] = _compute_instance_cost(g, insts[i], e)
    BY <1>2
  <1> HIDE DEF F, c
  <1>4. PICK h : FoldRec(F, f, c, h, S)
    BY <1>1, FoldExists
  <1>5. \A s \in SUBSET S : h[s] \in Pwf
    BY <1>1, <1>3, <1>4, FoldType
  <1>6. \A s \in SUBSET S : FoldBody(F, f, c, h, s) = CostBody(h, f, insts, e, s)
    <2>1. SUFFICES ASSUME NEW s \in SUBSET S, s # {}
                   PROVE  F[<<h[s \ {c[s]}], c[s]>>] = _compute_instance_cost(h[s \ {Pick(s)}], insts[Pick(s)], e)
      BY DEF FoldBody, CostBody
    <2>2. s \ {c[s]} \in SUBSET S /\ c[s] \in S /\ c[s] = Pick(s)
      BY <1>1, <2>1
    <2>3. h[s \ {c[s]}] \in Pwf
      BY <1>5, <2>2
    <2>4. QED
      BY <1>3, <2>2, <2>3
  <1>7. QED
    BY <1>4, <1>6 DEF FoldRec, CostRec

\* Adds(g, f, insts, S, e, R): g is f and the cost of the instances in R, which are some of S.
Adds(g, f, insts, S, e, R) ==
  /\ g \in Pwf
  /\ AllCharged(insts, S, e) =>
       \A t \in Int : call(g, t) = call(f, t) + SumOf(BillsTo(instance_prices, insts, S, e, t), R)

\* What a price is at any time.
LEMMA PriceToType ==
  ASSUME NEW p \in Pwf, NEW s \in Int, NEW e \in Int, NEW t \in Int
  PROVE  PriceTo(p, s, e, t) \in Int
  <1>1. t - s \in Int /\ Billing \in Nat \ {0}
    BY BillingPositive
  <1>2. Begin(s, t) \in Int
    BY <1>1 DEF Begin
  <1>3. QED
    BY <1>2, CallType DEF PriceTo

\* The costs of all of them are added.
LEMMA CostsAdd ==
  ASSUME PricesOK, NEW f \in Pwf, NEW S, IsFiniteSet(S), NEW insts, NEW e \in Int, Billable(insts, S, e)
  PROVE  Adds(Costs(f, insts, S, e), f, insts, S, e, S)
  <1> DEFINE h == CostFold(f, insts, S, e)
             B == {s \in SUBSET S : ~Adds(h[s], f, insts, S, e, s)}
             N(t) == BillsTo(instance_prices, insts, S, e, t)
  <1>1. CostRec(h, f, insts, S, e)
    BY CostExists DEF CostFold
  <1>2. Costs(f, insts, S, e) = h[S]
    BY CostsChoice
  <1> HIDE DEF h
  <1>3. SUFFICES ASSUME B # {} PROVE FALSE
    BY <1>2
  <1>4. \A s \in SUBSET S : IsFiniteSet(s) /\ h[s] = CostBody(h, f, insts, e, s)
    BY <1>1, FS_Subset DEF CostRec
  <1>5. PICK s \in B : \A u \in B : ~(Cardinality(u) < Cardinality(s))
    <2>1. \A s \in B : IsFiniteSet(s)
      BY <1>4
    <2> HIDE DEF B
    <2>2. QED
      BY <1>3, <2>1, SmallestSet
  <1>6. s \in SUBSET S /\ IsFiniteSet(s) /\ ~Adds(h[s], f, insts, S, e, s)
    BY <1>4, <1>5
  <1>7. s # {}
    <2>1. SUFFICES ASSUME s = {} PROVE FALSE
      OBVIOUS
    <2>2. h[s] = f
      BY <1>4, <1>6, <2>1 DEF CostBody
    <2>3. \A t \in Int : call(f, t) \in Int /\ SumOf(N(t), s) = 0
      BY <2>1, CallType, SumEmpty
    <2>4. \A t \in Int : call(f, t) = call(f, t) + SumOf(N(t), s)
      BY <2>3
    <2>5. QED
      BY <1>6, <2>2, <2>4 DEF Adds
  <1> DEFINE x == Pick(s)
             r == s \ {Pick(s)}
  <1>8. x \in s /\ r \in SUBSET s /\ IsFiniteSet(r) /\ Cardinality(r) < Cardinality(s)
    <2> HIDE DEF B
    <2> QED BY <1>6, <1>7, PickOne
  <1>9. Adds(h[r], f, insts, S, e, r) /\ x \in S
    BY <1>5, <1>6, <1>8
  <1>10. h[s] = _compute_instance_cost(h[r], insts[x], e)
    BY <1>4, <1>6, <1>7 DEF CostBody
  <1>11. \A t \in Int : SumOf(N(t), s) = N(t)[x] + SumOf(N(t), r)
    BY <1>6, <1>7, SumStep
  <1> DEFINE inst == insts[x]
             p == instance_prices[inst.market]
  <1>12. inst.start \in Int /\ inst.start <= e /\ p \in Pwf
    BY <1>9 DEF Billable, PricesOK
  <1> HIDE DEF x, r, B, inst
  <1>13. h[r] \in Pwf
    BY <1>9 DEF Adds
  <1>14. /\ h[s] \in Pwf
         /\ Charged(inst, e) /\ inst.start < e =>
              \A t \in Int : call(h[s], t) = call(h[r], t) + PriceTo(p, inst.start, e, t)
    <2>1. h[s] = _compute_instance_cost(h[r], inst, e)
      BY <1>10 DEF inst
    <2>2. QED
      BY <1>12, <1>13, <2>1, InstanceCost
  <1>15. ASSUME AllCharged(insts, S, e), NEW t \in Int
         PROVE  call(h[s], t) = call(f, t) + SumOf(N(t), s)
    <2>1. \A i \in S : N(t)[i] \in Int
      <3>1. SUFFICES ASSUME NEW i \in S PROVE PriceTo(instance_prices[insts[i].market], insts[i].start, e, t) \in Int
        BY DEF BillsTo
      <3>2. insts[i].start \in Int /\ instance_prices[insts[i].market] \in Pwf
        BY DEF Billable, PricesOK
      <3>3. QED
        BY <3>2, PriceToType
    <2> DEFINE n == N(t)
    <2> HIDE DEF n
    <2>2. SumOf(n, r) \in Int
      <3>1. \A i \in r : n[i] \in Int
        BY <1>6, <1>8, <2>1 DEF n
      <3>2. QED
        BY <1>8, <3>1, SumType
    <2>3. n[x] = PriceTo(p, inst.start, e, t) /\ n[x] \in Int
      BY <1>9, <2>1 DEF BillsTo, inst, n
    <2>4. call(f, t) \in Int
      BY CallType
    <2>5. call(h[r], t) = call(f, t) + SumOf(n, r)
      BY <1>9, <1>15 DEF Adds, n
    <2>6. call(h[s], t) = call(h[r], t) + n[x]
      BY <1>9, <1>14, <1>15, <2>3 DEF AllCharged, inst
    <2>7. SumOf(n, s) = n[x] + SumOf(n, r)
      BY <1>11 DEF n
    <2>8. call(h[s], t) = call(f, t) + SumOf(n, s)
      BY <2>2, <2>3, <2>4, <2>5, <2>6, <2>7
    <2>9. QED
      BY <2>8 DEF n
  <1>16. Adds(h[s], f, insts, S, e, s)
    BY <1>14, <1>15 DEF Adds
  <1>17. QED
    BY <1>6, <1>16

-----------------------------------------------------------------------------
(* cost_per_hour is the sum of the bills.                                   *)

Past(insts) == DOMAIN insts \ Live(insts)
NoRefunds(insts) == \A i \in Past(insts) : ~insts[i].refunded /\ insts[i].start < insts[i].end
PastBills(prices, insts, t) ==
  [i \in Past(insts) |-> PriceTo(prices[insts[i].market], insts[i].start, insts[i].end, t)]

\* cost_per_hour is the sum of the bills of the instances that have ended.
CostsAre(cost, prices, insts) ==
  NoRefunds(insts) => \A t \in Int : call(cost, t) = SumOf(PastBills(prices, insts, t), Past(insts))

CostInv == cost_per_hour \in Pwf /\ CostsAre(cost_per_hour, instance_prices, instances)

\* A breakpoint changes nothing before it.
LEMMA EarlierKept ==
  ASSUME NEW f \in Pwf, NEW x \in Int, NEW y \in Int, NEW t \in Int, ~(x <= t)
  PROVE  call(add_breakpoint(f, x, y), t) = call(f, t)
  <1>1. ~HoldsFrom(f, x, t)
    BY DEF HoldsFrom
  <1>2. QED
    BY <1>1, BreakpointCall

\* A change of the price now is none of the past.
LEMMA PastPrice ==
  ASSUME NEW p \in Pwf, NEW s \in Int, NEW e \in Int, s < e, NEW x \in Int, e <= x, NEW y \in Int, NEW t \in Int
  PROVE  PriceTo(add_breakpoint(p, x, y), s, e, t) = PriceTo(p, s, e, t)
  <1>1. SUFFICES ASSUME ~(t < s), ~(Begin(s, t) >= e /\ Begin(s, t) > s)
                 PROVE  call(add_breakpoint(p, x, y), Begin(s, t)) = call(p, Begin(s, t))
    BY DEF PriceTo
  <1>2. OnGrid(s, s)
    <2>1. 0 \in Nat /\ s = s + 0 * Billing
      BY BillingPositive
    <2>2. QED
      BY <2>1 DEF OnGrid
  <1> DEFINE z == Begin(s, t)
  <1>3. z \in Int
    BY <1>1, <1>2, PeriodOf
  <1> HIDE DEF z
  <1>4. ~(x <= z)
    BY <1>1, <1>3 DEF z
  <1>5. call(add_breakpoint(p, x, y), z) = call(p, z)
    BY <1>3, <1>4, EarlierKept
  <1>6. QED
    BY <1>5 DEF z

\* A change of a price keeps the bills.
LEMMA PriceChangeKeeps ==
  ASSUME NEW cost, NEW prices \in [Markets -> Pwf], NEW insts, NEW t0 \in Nat, InstsOK(insts, t0), CostsAre(cost, prices, insts),
         NEW m \in Markets, NEW x \in Int, t0 <= x, NEW y \in Int,
         NEW after, after = [prices EXCEPT ![m] = add_breakpoint(@, x, y)]
  PROVE  CostsAre(cost, after, insts)
  <1>1. SUFFICES ASSUME NoRefunds(insts), NEW t \in Int
                 PROVE  PastBills(after, insts, t) = PastBills(prices, insts, t)
    <2>1. ASSUME NoRefunds(insts) PROVE \A t \in Int : call(cost, t) = SumOf(PastBills(prices, insts, t), Past(insts))
      BY <2>1 DEF CostsAre
    <2>2. QED
      BY <2>1 DEF CostsAre
  <1>2. ASSUME NEW i \in Past(insts)
        PROVE  PriceTo(after[insts[i].market], insts[i].start, insts[i].end, t)
                 = PriceTo(prices[insts[i].market], insts[i].start, insts[i].end, t)
    <2> DEFINE inst == insts[i]
               p == prices[inst.market]
    <2>1. InstOK(inst, t0)
      BY DEF Past, InstsOK
    <2>2. inst.market \in Markets /\ inst.start \in Int /\ inst.end \in Int /\ inst.end <= x
      BY <2>1 DEF InstOK, InstSet
    <2>3. inst.start < inst.end
      BY <1>1 DEF NoRefunds
    <2> HIDE DEF inst
    <2>4. p \in Pwf
      BY <2>2
    <2>5. CASE inst.market = m
      <3>1. after[inst.market] = add_breakpoint(p, x, y)
        BY <2>5
      <3> HIDE DEF p
      <3>2. PriceTo(add_breakpoint(p, x, y), inst.start, inst.end, t) = PriceTo(p, inst.start, inst.end, t)
        BY <2>2, <2>3, <2>4, PastPrice
      <3>3. QED
        BY <3>1, <3>2 DEF inst, p
    <2>6. CASE inst.market # m
      <3>1. after[inst.market] = p
        BY <2>2, <2>6
      <3>2. QED
        BY <3>1 DEF inst
    <2>7. QED
      BY <2>5, <2>6
  <1>3. QED
    BY <1>2 DEF PastBills

\* Instances end and others start, and the bills of those that end are added.
LEMMA EndingKeeps ==
  ASSUME PricesOK, NEW t0 \in Nat, NEW t1 \in Nat, t0 <= t1, NEW insts, InstsOK(insts, t0),
         NEW S \in SUBSET Live(insts), NEW new, NewOK(new, insts, t1), NEW after, Replaced(after, insts, S, new, t1),
         Refunds(after, insts, S, t1),
         NEW cost \in Pwf, CostsAre(cost, instance_prices, insts), NEW total, total = Costs(cost, insts, S, t1)
  PROVE  total \in Pwf /\ CostsAre(total, instance_prices, after)
  <1> DEFINE P == Past(insts)
             Q == Past(after)
             D == DOMAIN insts
             N == DOMAIN new
  <1>1. D \cap N = {} /\ IsFiniteSet(D) /\ S \in SUBSET D /\ IsFiniteSet(S) /\ P \in SUBSET D /\ IsFiniteSet(P)
    <2>1. D \cap N = {} /\ IsFiniteSet(D)
      BY NewApart
    <2>2. S \in SUBSET D /\ P \in SUBSET D
      BY DEF Live, Past
    <2> HIDE DEF D, P
    <2>3. QED
      BY <2>1, <2>2, FS_Subset
  <1>2. /\ DOMAIN after = D \cup N /\ \A i \in N : after[i] = new[i] /\ new[i].end = -1
        /\ \A i \in D \ S : after[i] = insts[i]
        /\ \A i \in S : /\ after[i].market = insts[i].market /\ after[i].start = insts[i].start
                        /\ after[i].end = t1
    BY DEF Replaced, NewOK
  <1>3. \A i \in D : insts[i] \in InstSet /\ insts[i].market \in Markets /\ insts[i].start \in Int
                     /\ insts[i].start <= t0 /\ insts[i].end \in Int
    BY DEF InstsOK, InstOK, InstSet
  <1>4. \A i \in S : insts[i].end < 0
    BY DEF Live
  <1>5. /\ \A i \in Q : i \in P \/ i \in S
        /\ \A i \in P : i \in Q /\ i \notin S /\ after[i] = insts[i]
        /\ \A i \in S : i \in Q /\ i \notin P
    <2>1. ASSUME NEW i \in Q PROVE i \in P \/ i \in S
      <3>1. i \in D \cup N /\ ~(after[i].end < 0)
        BY <1>2 DEF Past, Live
      <3>2. i \notin N
        BY <1>2, <3>1
      <3>3. i \in D /\ (i \notin S => ~(insts[i].end < 0))
        BY <1>2, <3>1, <3>2
      <3>4. QED
        BY <3>3 DEF Past, Live
    <2>2. ASSUME NEW i \in P PROVE i \in Q /\ i \notin S /\ after[i] = insts[i]
      <3>1. i \in D /\ ~(insts[i].end < 0)
        BY DEF Past, Live
      <3>2. i \notin S
        BY <1>4, <3>1
      <3>3. after[i] = insts[i] /\ i \in DOMAIN after
        BY <1>2, <3>1, <3>2
      <3>4. QED
        BY <3>1, <3>2, <3>3 DEF Past, Live
    <2>3. ASSUME NEW i \in S PROVE i \in Q /\ i \notin P
      <3>1. i \in DOMAIN after /\ ~(after[i].end < 0)
        BY <1>1, <1>2
      <3>2. i \in Q
        BY <3>1 DEF Past, Live
      <3>3. i \notin P
        BY <1>1, <1>4 DEF Past, Live
      <3>4. QED
        BY <3>2, <3>3
    <2>4. QED
      BY <2>1, <2>2, <2>3
  <1>6. Billable(insts, S, t1)
    BY <1>1, <1>3 DEF Billable
  <1>7. Adds(total, cost, insts, S, t1, S)
    BY <1>1, <1>6, CostsAdd
  <1>8. total \in Pwf
    BY <1>7 DEF Adds
  <1>9. ASSUME NoRefunds(after), NEW t \in Int
        PROVE  call(total, t) = SumOf(PastBills(instance_prices, after, t), Q)
    <2> DEFINE f == PastBills(instance_prices, after, t)
               g == PastBills(instance_prices, insts, t)
               h == BillsTo(instance_prices, insts, S, t1, t)
    <2>1. NoRefunds(insts)
      <3>1. \A i \in P : ~after[i].refunded /\ after[i].start < after[i].end
        BY <1>5, <1>9 DEF NoRefunds
      <3>2. QED
        BY <1>5, <3>1 DEF NoRefunds
    <2>2. AllCharged(insts, S, t1)
      <3>1. \A i \in S : ~after[i].refunded /\ after[i].start < after[i].end
        BY <1>5, <1>9 DEF NoRefunds
      <3>2. QED
        BY <1>2, <3>1 DEF AllCharged, Refunds
    <2>3. call(cost, t) = SumOf(g, P)
      BY <2>1 DEF CostsAre
    <2>4. call(total, t) = call(cost, t) + SumOf(h, S)
      BY <1>7, <2>2 DEF Adds
    <2>5. \A i \in P : f[i] = g[i] /\ f[i] \in Int
      <3>1. SUFFICES ASSUME NEW i \in P PROVE f[i] = g[i] /\ f[i] \in Int
        OBVIOUS
      <3>2. i \in D /\ i \in Q /\ after[i] = insts[i]
        BY <1>1, <1>5
      <3>3. insts[i].start \in Int /\ insts[i].end \in Int /\ instance_prices[insts[i].market] \in Pwf
        BY <1>3, <3>2 DEF PricesOK
      <3>4. PriceTo(instance_prices[insts[i].market], insts[i].start, insts[i].end, t) \in Int
        BY <3>3, PriceToType
      <3>5. QED
        BY <3>1, <3>2, <3>4 DEF PastBills
    <2>6. \A i \in S : f[i] = h[i] /\ f[i] \in Int
      <3>1. SUFFICES ASSUME NEW i \in S PROVE f[i] = h[i] /\ f[i] \in Int
        OBVIOUS
      <3>2. i \in D /\ i \in Q
        BY <1>1, <1>5
      <3>3. insts[i].start \in Int /\ instance_prices[insts[i].market] \in Pwf
        BY <1>3, <3>2 DEF PricesOK
      <3>4. PriceTo(instance_prices[insts[i].market], insts[i].start, t1, t) \in Int
        BY <3>3, PriceToType
      <3>5. f[i] = PriceTo(instance_prices[insts[i].market], insts[i].start, t1, t)
        BY <1>2, <3>1, <3>2 DEF PastBills
      <3>6. h[i] = PriceTo(instance_prices[insts[i].market], insts[i].start, t1, t)
        BY <3>1 DEF BillsTo
      <3>7. QED
        BY <3>4, <3>5, <3>6
    <2> HIDE DEF f, g, h, P, Q
    <2>7. Q = P \cup S /\ Q \ S = P /\ S \in SUBSET Q /\ IsFiniteSet(Q)
      <3>1. Q = P \cup S /\ Q \ S = P
        BY <1>5
      <3>2. QED
        BY <1>1, <3>1, FS_Union
    <2>8. SumOf(f, Q) = SumOf(f, P) + SumOf(f, S)
      <3>1. \A i \in Q : f[i] \in Int
        BY <2>5, <2>6, <2>7
      <3>2. SumOf(f, Q) = SumOf(f, Q \ S) + SumOf(f, S)
        BY <2>7, <3>1, SumSplit
      <3>3. QED
        BY <2>7, <3>2
    <2>9. SumOf(f, P) = SumOf(g, P) /\ SumOf(f, S) = SumOf(h, S)
      BY <1>1, <2>5, <2>6, SumSame
    <2>10. QED
      BY <2>3, <2>4, <2>8, <2>9 DEF f
  <1>10. QED
    BY <1>8, <1>9 DEF CostsAre

-----------------------------------------------------------------------------
(* Every step keeps the bills.                                              *)

\* Replace bills those that end.
LEMMA ReplaceBills ==
  ASSUME SimTypes, CostInv, now' \in now..EndTime, UNCHANGED instance_prices, NEW S \in SUBSET Live(instances),
         NEW new, NewOK(new, instances, now'), Replace(S, new)
  PROVE  CostInv'
  <1>1. now \in Nat /\ now' \in Nat /\ now <= now' /\ InstsOK(instances, now) /\ PricesOK
    BY ConstantsAssumption DEF SimTypes
  <1>2. instances' = [i \in DOMAIN instances \cup DOMAIN new |->
                        IF i \in DOMAIN new THEN new[i]
                        ELSE IF i \in S THEN EndAt(instances[i], now') ELSE instances[i]]
    BY DEF Replace, Ids
  <1>3. cost_per_hour' = Costs(cost_per_hour, instances, S, now')
    BY DEF Replace
  <1>4. cost_per_hour \in Pwf /\ CostsAre(cost_per_hour, instance_prices, instances)
    BY DEF CostInv
  <1> DEFINE t == now'
             after == instances'
             total == cost_per_hour'
  <1> HIDE DEF t, after, total
  <1>5. t \in Nat /\ now <= t /\ NewOK(new, instances, t)
    BY <1>1 DEF t
  <1>6. Replaced(after, instances, S, new, t) /\ Refunds(after, instances, S, t)
    <2>1. after = [i \in DOMAIN instances \cup DOMAIN new |->
                     IF i \in DOMAIN new THEN new[i]
                     ELSE IF i \in S THEN EndAt(instances[i], t) ELSE instances[i]]
      BY <1>2 DEF t, after
    <2>2. QED
      BY <1>1, <1>5, <2>1, EndedAndNew
  <1>7. total \in Pwf /\ CostsAre(total, instance_prices, after)
    BY <1>1, <1>3, <1>4, <1>5, <1>6, EndingKeeps DEF t, total
  <1>8. QED
    BY <1>7 DEF CostInv, total, after

\* terminate_instances_by_id does, too.
LEMMA TerminateBills ==
  ASSUME SimTypes, CostInv, UNCHANGED <<now, instance_prices>>, NEW S \in SUBSET Live(instances),
         terminate_instances_by_id(S)
  PROVE  CostInv'
  <1>0. CASE S = {}
    BY <1>0 DEF terminate_instances_by_id, functions, CostInv
  <1>a. SUFFICES ASSUME S # {} PROVE CostInv'
    BY <1>0
  <1>1. PICK new \in Increase(Ended(S), target, Delays) : Replace(S, new)
    BY <1>a DEF terminate_instances_by_id
  <1>2. PICK n \in Nat : DOMAIN instances = 1..n
    BY DEF SimTypes, InstsOK
  <1>3. DOMAIN Ended(S) = 1..n
    BY <1>2 DEF Ended, Ids
  <1>4. now' \in Int /\ now' \in now..EndTime /\ PricesOK /\ target \in Nat /\ Delays \in SUBSET Int
    BY ConstantsAssumption DEF SimTypes
  <1> DEFINE left == Ended(S)
  <1>5. NewOK(new, left, now')
    <2> HIDE DEF left
    <2> QED BY <1>1, <1>3, <1>4, IncreaseOK DEF left
  <1>6. NewOK(new, instances, now')
    BY <1>2, <1>3, <1>5 DEF NewOK
  <1>7. QED
    BY <1>1, <1>4, <1>6, ReplaceBills

\* Capacity that is added costs nothing before it ends.
LEMMA IncreaseBills ==
  ASSUME SimTypes, CostInv, UNCHANGED <<now, instance_prices>>, NEW wanted \in Nat, NEW delays \in SUBSET Int,
         NEW new \in Increase(instances, wanted, delays), Replace({}, new)
  PROVE  CostInv'
  <1>1. PICK n \in Nat : DOMAIN instances = 1..n
    BY DEF SimTypes, InstsOK
  <1>2. now' \in Int /\ now' \in now..EndTime /\ PricesOK
    BY ConstantsAssumption DEF SimTypes
  <1>3. NewOK(new, instances, now')
    BY <1>1, <1>2, IncreaseOK
  <1>4. {} \in SUBSET Live(instances)
    OBVIOUS
  <1>5. QED
    BY <1>2, <1>3, <1>4, ReplaceBills

\* Nothing is billed at first.
LEMMA CostInit ==
  ASSUME Init PROVE CostInv
  <1>1. Zero \in Pwf /\ \A t \in Int : call(Zero, t) = 0
    BY PwfConstant DEF Zero
  <1>2. Past(instances) = {} /\ cost_per_hour = Zero
    BY DEF Init, Past
  <1>3. QED
    BY <1>1, <1>2, SumEmpty DEF CostInv, CostsAre

\* Every step keeps the bills.
LEMMA CostStep ==
  ASSUME CpuInv, CostInv, [Next]_vars
  PROVE  CostInv'
  <1>0. SimTypes /\ EndTime \in Nat /\ now \in 0..EndTime /\ now \in Nat /\ InstsOK(instances, now) /\ PricesOK
    BY ConstantsAssumption DEF CpuInv, SimTypes
  <1>1. ASSUME UNCHANGED <<instances, instance_prices, cost_per_hour>> PROVE CostInv'
    BY <1>1 DEF CostInv
  <1>2. CASE UNCHANGED vars
    BY <1>1, <1>2 DEF vars, functions
  <1>3. CASE _make_autoscaler
    <2>1. UNCHANGED <<now, instance_prices>> /\ target' \in Targets
      BY <1>3 DEF _make_autoscaler
    <2>2. target' \in Nat /\ {0} \in SUBSET Nat
      BY <2>1, ConstantsAssumption
    <2>3. PICK new \in Increase(instances, target', {0}) : Replace({}, new)
      BY <1>3 DEF _make_autoscaler
    <2>4. QED
      BY <1>0, <2>1, <2>2, <2>3, IncreaseBills
  <1>4. CASE _populate_cluster_size_events \/ _populate_autoscaling_events \/ _populate_price_changes \/ StartRun
    <2>1. UNCHANGED <<instances, instance_prices, functions>>
      BY <1>4 DEF _populate_cluster_size_events, _populate_autoscaling_events, _populate_price_changes, Populate, StartRun
    <2>2. QED
      BY <1>1, <2>1 DEF functions
  <1>5. ASSUME NEW e \in First, HandleEvent(e) \/ HandleAutoscaling(e)
        PROVE  CostInv'
    <2>1. UNCHANGED <<instances, instance_prices, functions>>
      BY <1>5 DEF HandleEvent, HandleAutoscaling
    <2>2. QED
      BY <1>1, <2>1 DEF functions
  <1>6. ASSUME NEW e \in First, HandlePriceChange(e)
        PROVE  CostInv'
    <2>1. now' \in now..EndTime /\ EventOK(e, now) /\ now' = e.time
      BY <1>0, <1>6, PopTypes DEF HandlePriceChange
    <2>2. /\ UNCHANGED <<instances, cost_per_hour>> /\ e.kind = "price"
          /\ instance_prices' = [instance_prices EXCEPT ![e.market] = add_breakpoint(@, e.time, e.price)]
      BY <1>6 DEF HandlePriceChange, functions
    <2> DEFINE m == e.market
               x == e.time
               y == e.price
               after == instance_prices'
    <2>3. m \in Markets /\ x \in Int /\ y \in Int /\ now <= x
      BY <1>0, <2>1, <2>2 DEF EventOK
    <2>4. after = [instance_prices EXCEPT ![m] = add_breakpoint(@, x, y)]
      BY <2>2
    <2>5. instance_prices \in [Markets -> Pwf] /\ CostsAre(cost_per_hour, instance_prices, instances)
      BY <1>0 DEF PricesOK, CostInv
    <2> HIDE DEF m, x, y, after
    <2>6. CostsAre(cost_per_hour, after, instances)
      BY <1>0, <2>3, <2>4, <2>5, PriceChangeKeeps
    <2>7. QED
      BY <2>2, <2>6 DEF CostInv, after
  <1>7. ASSUME NEW e \in First, HandleModifyClusterSize(e)
        PROVE  CostInv'
    <2>1. now' \in now..EndTime /\ now' \in 0..EndTime /\ EventOK(e, now)
      BY <1>0, <1>7, PopTypes DEF HandleModifyClusterSize
    <2>2. UNCHANGED instance_prices /\ e.kind = "size"
      BY <1>7 DEF HandleModifyClusterSize
    <2> DEFINE delays == IF e.delay THEN Delays ELSE {0}
               S == Excess(instances, e.sizes)
    <2>3. PICK new \in Started(instances, e.sizes, delays, NoBid) : Replace(S, new)
      BY <1>7 DEF HandleModifyClusterSize
    <2>4. S \in SUBSET Live(instances)
      BY DEF Excess, Oldest, In
    <2>5. delays \in SUBSET Int
      BY ConstantsAssumption
    <2>6. PICK n \in Nat : DOMAIN instances = 1..n
      BY <1>0 DEF InstsOK
    <2>7. /\ \A m \in Markets : e.sizes[m] \in Int /\ NoBid[m] \in Int
          /\ now' \in Int
      BY <2>1, <2>2 DEF EventOK, NoBid
    <2> HIDE DEF delays, S
    <2>8. NewOK(new, instances, now')
      BY <2>3, <2>5, <2>6, <2>7, StartedOK
    <2>9. QED
      BY <1>0, <2>1, <2>2, <2>3, <2>4, <2>8, ReplaceBills
  <1>8. CASE terminate_expired_orphan_instances
    <2>1. UNCHANGED <<now, instance_prices>>
      BY <1>8 DEF terminate_expired_orphan_instances, Step
    <2>2. PICK S \in SUBSET Orphans : terminate_instances_by_id(S)
      BY <1>8 DEF terminate_expired_orphan_instances
    <2>3. S \in SUBSET Live(instances)
      BY <2>2 DEF Orphans
    <2>4. QED
      BY <1>0, <2>1, <2>2, <2>3, TerminateBills
  <1>9. CASE modify_target_capacity
    <2>1. UNCHANGED <<now, instance_prices>> /\ target' \in Targets
      BY <1>9 DEF modify_target_capacity, Step
    <2>2. \/ UNCHANGED <<instances, cost_per_hour>>
          \/ \E new \in Increase(instances, target', Delays) : Replace({}, new)
      BY <1>9 DEF modify_target_capacity, functions
    <2>3. target' \in Nat /\ Delays \in SUBSET Int
      BY <2>1, ConstantsAssumption
    <2>4. CASE UNCHANGED <<instances, cost_per_hour>>
      BY <2>1, <2>4 DEF CostInv
    <2>5. CASE \E new \in Increase(instances, target', Delays) : Replace({}, new)
      BY <1>0, <2>1, <2>3, <2>5, IncreaseBills
    <2>6. QED
      BY <2>2, <2>4, <2>5
  <1>10. CASE Prune
    <2>1. UNCHANGED <<now, instance_prices>>
      BY <1>10 DEF Prune, Step
    <2>2. PICK S \in SUBSET Live(instances) : terminate_instances_by_id(S)
      BY <1>10 DEF Prune
    <2>3. QED
      BY <1>0, <2>1, <2>2, TerminateBills
  <1>11. CASE EndRun
    <2> DEFINE S == Live(instances)
               none == <<>>
               after == instances'
               total == cost_per_hour'
    <2>1. /\ instance_prices' = instance_prices /\ total = Costs(cost_per_hour, instances, S, now)
          /\ after = [i \in DOMAIN instances |-> IF i \in S THEN EndAt(instances[i], now) ELSE instances[i]]
      BY <1>11 DEF EndRun, Ids
    <2>2. DOMAIN none = {}
      OBVIOUS
    <2>3. NewOK(none, instances, now)
      <3>1. PICK n \in Nat : DOMAIN instances = 1..n
        BY <1>0 DEF InstsOK
      <3>2. n <= n /\ DOMAIN none = (n + 1)..n
        BY <2>2
      <3>3. QED
        BY <2>2, <3>1, <3>2 DEF NewOK
    <2> HIDE DEF none, after, total
    <2>4. after = [i \in DOMAIN instances \cup DOMAIN none |->
                     IF i \in DOMAIN none THEN none[i]
                     ELSE IF i \in S THEN EndAt(instances[i], now) ELSE instances[i]]
      BY <2>1, <2>2
    <2>5. Replaced(after, instances, S, none, now) /\ Refunds(after, instances, S, now)
      BY <1>0, <2>3, <2>4, EndedAndNew
    <2>6. cost_per_hour \in Pwf /\ CostsAre(cost_per_hour, instance_prices, instances)
      BY DEF CostInv
    <2>7. total \in Pwf /\ CostsAre(total, instance_prices, after)
      <3>1. now <= now /\ S \in SUBSET Live(instances)
        BY <1>0
      <3> HIDE DEF S
      <3>2. QED
        BY <1>0, <2>1, <2>3, <2>5, <2>6, <3>1, EndingKeeps
    <2>8. QED
      BY <2>1, <2>7 DEF CostInv, total, after
  <1>12. QED
    BY <1>2, <1>3, <1>4, <1>5, <1>6, <1>7, <1>8, <1>9, <1>10, <1>11 DEF Next

\* The bills are kept throughout.
THEOREM BillsAreKept ==
  Spec => []CostInv
  <1>1. CpuInv /\ CostInv /\ [Next]_vars => CostInv'
    BY CostStep
  <1>2. Init => CostInv
    BY CostInit
  <1>3. QED
    BY <1>1, <1>2, CpusAreKept, PTL DEF Spec

\* Every period of an instance is billed at the price of its beginning.
THEOREM BilledByPeriodHolds ==
  Spec => []BilledByPeriod
  <1>1. ASSUME CpuInv, CostInv PROVE BilledByPeriod
    <2> DEFINE D == Ids \ Live(instances)
    <2>1. SUFFICES ASSUME \A i \in D : ~instances[i].refunded /\ instances[i].start < instances[i].end,
                          NEW t \in ReportTimes
                   PROVE  call(cost_per_hour, t) = SumFunction([i \in D |-> Price(instances[i], t)])
      BY DEF BilledByPeriod
    <2>2. t \in Int
      BY DEF ReportTimes
    <2>3. D = Past(instances) /\ NoRefunds(instances)
      BY <2>1 DEF Past, Ids, NoRefunds
    <2>4. call(cost_per_hour, t) = SumOf(PastBills(instance_prices, instances, t), Past(instances))
      BY <1>1, <2>2, <2>3 DEF CostInv, CostsAre
    <2>5. [i \in D |-> Price(instances[i], t)] = PastBills(instance_prices, instances, t)
      BY <2>3 DEF PastBills, Price, PriceTo, Begin
    <2> DEFINE f == PastBills(instance_prices, instances, t)
    <2>6. DOMAIN f = Past(instances)
      BY DEF PastBills
    <2>7. SumFunction(f) = SumOf(f, DOMAIN f)
      BY SumOnSet DEF SumFunction
    <2> HIDE DEF f
    <2>8. QED
      BY <2>4, <2>5, <2>6, <2>7 DEF f
  <1>2. QED
    BY <1>1, CpusAreKept, BillsAreKept, PTL

-----------------------------------------------------------------------------
(* The reports.                                                             *)

\* The values and the areas of a report with any step.
LEMMA ReportSteps ==
  ASSUME NEW f \in Pwf, NEW g \in Pwf, NEW step \in 1..EndTime, NEW P, P = Points(0, EndTime, step)
  PROVE  /\ values(f, 0, EndTime, step) = [k \in 1..P |-> call(f, (k - 1) * step)]
         /\ integrals(g, 0, EndTime, step) =
              [k \in 1..P |-> SumFunction([t \in ((k - 1) * step)..(Min({EndTime, k * step}) - 1) |-> call(g, t)])]
  <1>1. EndTime \in Nat \ {0}
    BY ConstantsAssumption
  <1>2. step \in Nat \ {0} /\ 0 \in Int /\ EndTime \in Int /\ 0 < EndTime
    BY <1>1
  <1>3. P \in Nat /\ values(f, 0, EndTime, step) = [k \in 1..P |-> call(f, 0 + (k - 1) * step)]
    BY <1>2, ValuesAreRight
  <1>4. integrals(g, 0, EndTime, step) = [k \in 1..P |-> AreaOf(g, 0 + (k - 1) * step, Stop(0, EndTime, step, k))]
    BY <1>2, IntegralsAreRight
  <1>5. ASSUME NEW k \in 1..P
        PROVE  /\ 0 + (k - 1) * step = (k - 1) * step
               /\ Stop(0, EndTime, step, k) = Min({EndTime, k * step})
    <2>1. k \in Int /\ (k - 1) * step \in Int /\ k * step \in Int
      BY <1>2, <1>3
    <2>2. 0 + k * step = k * step /\ 0 + (k - 1) * step = (k - 1) * step
      BY <2>1
    <2>3. QED
      BY <2>2 DEF Stop
  <1>6. ASSUME NEW a, NEW b
        PROVE  AreaOf(g, a, b) = SumFunction([t \in a..(b - 1) |-> call(g, t)])
    <2> DEFINE h == [t \in a..(b - 1) |-> call(g, t)]
    <2>1. AreaOf(g, a, b) = SumOf(h, a..(b - 1)) /\ DOMAIN h = a..(b - 1)
      BY DEF AreaOf
    <2> HIDE DEF h
    <2>2. SumFunction(h) = SumOf(h, DOMAIN h)
      BY SumOnSet DEF SumFunction
    <2>3. QED
      BY <2>1, <2>2 DEF h
  <1>7. ASSUME NEW k \in 1..P
        PROVE  AreaOf(g, 0 + (k - 1) * step, Stop(0, EndTime, step, k))
                 = SumFunction([t \in ((k - 1) * step)..(Min({EndTime, k * step}) - 1) |-> call(g, t)])
    <2> DEFINE a == (k - 1) * step
               b == Min({EndTime, k * step})
    <2>1. 0 + (k - 1) * step = a /\ Stop(0, EndTime, step, k) = b
      BY <1>5
    <2>2. AreaOf(g, a, b) = SumFunction([t \in a..(b - 1) |-> call(g, t)])
      <3> HIDE DEF a, b
      <3> QED BY <1>6
    <2>3. QED
      BY <2>1, <2>2
  <1>8. QED
    BY <1>3, <1>4, <1>5, <1>7

\* The functions that the reports make of others, at a time.
LEMMA ReportFunctions ==
  ASSUME NEW a \in Pwf, NEW m \in Pwf, NEW c \in Pwf, NEW t \in Int
  PROVE  /\ call(__sub__(a, m), t) = call(a, t) - call(m, t)
         /\ call(__add__(__sub__(a, m), c), t) = call(__sub__(a, m), t) + call(c, t)
         /\ call(piecewise_max(__sub__(c, a), Zero), t) = Max({call(c, t) - call(a, t), 0})
         /\ call(__mul__(m, c), t) = call(m, t) * call(c, t)
  <1>1. __sub__(a, m) \in Pwf /\ call(__sub__(a, m), t) = call(a, t) - call(m, t)
    BY OperationsAreRight
  <1>2. __sub__(c, a) \in Pwf /\ call(__sub__(c, a), t) = call(c, t) - call(a, t)
    BY OperationsAreRight
  <1>3. call(__mul__(m, c), t) = call(m, t) * call(c, t)
    BY OperationsAreRight
  <1> DEFINE f == __sub__(a, m)
             g == __sub__(c, a)
             x == call(c, t) - call(a, t)
  <1>4. call(__add__(f, c), t) = call(f, t) + call(c, t)
    <2> HIDE DEF f
    <2> QED BY <1>1, OperationsAreRight DEF f
  <1>5. Zero \in Pwf /\ call(Zero, t) = 0
    BY PwfConstant DEF Zero
  <1>6. call(piecewise_max(g, Zero), t) = IF call(g, t) >= call(Zero, t) THEN call(g, t) ELSE call(Zero, t)
    <2>1. g \in Pwf
      BY <1>2
    <2> HIDE DEF g
    <2>2. QED
      BY <1>5, <2>1, OperationsAreRight
  <1>7. x \in Int
    BY CallType
  <1>8. call(piecewise_max(g, Zero), t) = IF x >= 0 THEN x ELSE 0
    BY <1>2, <1>5, <1>6
  <1>9. Max({x, 0}) = IF x >= 0 THEN x ELSE 0
    <2> HIDE DEF x
    <2> DEFINE larger == IF x >= 0 THEN x ELSE 0
    <2>1. larger \in {x, 0} /\ \A y \in {x, 0} : larger >= y
      BY <1>7
    <2>2. \A z \in {x, 0} : (\A y \in {x, 0} : z >= y) => z = larger
      BY <1>7
    <2> HIDE DEF larger
    <2>3. Max({x, 0}) = larger
      BY <2>1, <2>2 DEF Max
    <2>4. QED
      BY <2>3 DEF larger
  <1>10. QED
    BY <1>1, <1>3, <1>4, <1>8, <1>9

\* values, integrals and the operations on functions are right for the
\* functions of every run of the simulator, whatever its instances and prices.
THEOREM ReportsAreAlwaysRight ==
  Spec => []ReportsAreRight
  <1>1. ASSUME CpuInv, CostInv PROVE ReportsAreRight
    <2>1. aws_cpus \in Pwf /\ mesos_cpus \in Pwf /\ cost_per_hour \in Pwf
      BY <1>1 DEF CpuInv, SimTypes, CostInv
    <2> DEFINE a == aws_cpus
               m == mesos_cpus
               c == cost_per_hour
    <2>2. ASSUME NEW step \in 1..EndTime
          PROVE  /\ values(m, 0, EndTime, step) = [k \in 1..Points(0, EndTime, step) |-> call(m, (k - 1) * step)]
                 /\ integrals(c, 0, EndTime, step) =
                      [k \in 1..Points(0, EndTime, step) |->
                         SumFunction([t \in ((k - 1) * step)..(Min({EndTime, k * step}) - 1) |-> call(c, t)])]
      BY <2>1, ReportSteps
    <2>3. ASSUME NEW t \in ReportTimes
          PROVE  /\ call(__sub__(a, m), t) = call(a, t) - call(m, t)
                 /\ call(__add__(__sub__(a, m), c), t) = call(__sub__(a, m), t) + call(c, t)
                 /\ call(piecewise_max(__sub__(c, a), Zero), t) = Max({call(c, t) - call(a, t), 0})
                 /\ call(__mul__(m, c), t) = call(m, t) * call(c, t)
      <3>1. t \in Int
        BY DEF ReportTimes
      <3>2. QED
        BY <2>1, <3>1, ReportFunctions
    <2>4. QED
      BY <2>2, <2>3 DEF ReportsAreRight
  <1>2. QED
    BY <1>1, CpusAreKept, BillsAreKept, PTL
=============================================================================
