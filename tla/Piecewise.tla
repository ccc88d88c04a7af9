------------------------------- MODULE Piecewise -------------------------------
(***************************************************************************)
(* clusterman/math/piecewise.py: functions of time that are constant       *)
(* between breakpoints.  A function is [initial, breakpoints], where       *)
(* breakpoints maps finitely many times to values.  Times and values are   *)
(* integers; quotients are left to the caller.                             *)
(***************************************************************************)
EXTENDS Integers, FiniteSets, FiniteSetsExt, Sequences, SequencesExt

PiecewiseConstantFunction(value) == [initial |-> value, breakpoints |-> <<>>]

\* S in the order of Before, which is total and strict.
SortedBy(Before(_, _), S) ==
  [i \in 1..Cardinality(S) |->
     CHOOSE x \in S : Cardinality({y \in S : Before(y, x)}) = i - 1]
Sorted(S) == SortedBy(<, S)
Breaks(f) == Sorted(DOMAIN f.breakpoints)
bisect(f, x) == Cardinality({b \in DOMAIN f.breakpoints : b <= x})

call(f, x) ==
  LET below == {b \in DOMAIN f.breakpoints : b <= x}
  IN  IF below = {} THEN f.initial ELSE f.breakpoints[Max(below)]

Set(f, x, y) ==
  [f EXCEPT !.breakpoints = [b \in DOMAIN @ \cup {x} |-> IF b = x THEN y ELSE @[b]]]

\* squash is always TRUE.
add_breakpoint(f, x, y) == IF call(f, x) = y THEN f ELSE Set(f, x, y)

add_delta(f, x, delta) ==
  IF delta = 0 THEN f
  ELSE LET g == Set(f, x, call(f, x))
       IN  [g EXCEPT !.breakpoints =
              [b \in DOMAIN @ |-> IF b >= x THEN @[b] + delta ELSE @[b]]]

piecewise_breakpoint_generator(f, start, end) ==
  Append(Sorted({b \in DOMAIN f.breakpoints : start <= b /\ b <= end}), end)

-----------------------------------------------------------------------------
(* values and integrals walk along the breakpoints once: next is the index *)
(* of the first one that is still ahead.                                   *)

Passed(b, x) == b < x
Reached(b, x) == b <= x

Points(start, stop, step) == (stop - start + step - 1) \div step

Behind(bps, next, x) == Cardinality({i \in next..Len(bps) : Reached(bps[i], x)})

NextValue(f, bps, last, x) ==
  LET n == Behind(bps, last.next, x)
  IN  [next  |-> last.next + n,
       value |-> IF n = 0 THEN last.value ELSE f.breakpoints[bps[last.next + n - 1]]]

\* The value of each point of start, start + step, ... below stop.
values(f, start, stop, step) ==
  LET bps == Breaks(f)
      walk[k \in 0..Points(start, stop, step)] ==
        IF k = 0 THEN [next |-> bisect(f, start) + 1, value |-> call(f, start)]
        ELSE NextValue(f, bps, walk[k - 1], Min({stop, start + k * step}))
  IN  [k \in 1..Points(start, stop, step) |-> walk[k - 1].value]

Piece(f, acc, b) ==
  [area |-> acc.area + (b - acc.x) * acc.value, x |-> b, value |-> f.breakpoints[b]]

NextChunk(f, bps, last, end) ==
  LET n == Behind(bps, last.next, end)
      acc == FoldLeft(LAMBDA a, b : Piece(f, a, b),
                      [area |-> 0, x |-> last.x, value |-> last.value],
                      SubSeq(bps, last.next, last.next + n - 1))
  IN  [x |-> end, value |-> acc.value, next |-> last.next + n,
       area |-> acc.area + (end - acc.x) * acc.value]

\* The integral of each chunk.
integrals(f, start, stop, step) ==
  LET bps == Breaks(f)
      walk[k \in 0..Points(start, stop, step)] ==
        IF k = 0 THEN [x |-> start, value |-> call(f, start), area |-> 0,
                       next |-> bisect(f, start) + 1]
        ELSE NextChunk(f, bps, walk[k - 1], Min({stop, start + k * step}))
  IN  [k \in 1..Points(start, stop, step) |-> walk[k].area]

-----------------------------------------------------------------------------
(* f Op g.  The breakpoints of both are merged by time, value and function, *)
(* so that a time in both comes twice, and the second time counts.          *)

_merged_breakpoints(f, g) ==
  LET all == {<<b, f.breakpoints[b], 0>> : b \in DOMAIN f.breakpoints} \cup
             {<<b, g.breakpoints[b], 1>> : b \in DOMAIN g.breakpoints}
      Before(p, q) == \/ p[1] < q[1]
                      \/ p[1] = q[1] /\ p[2] < q[2]
                      \/ p[1] = q[1] /\ p[2] = q[2] /\ p[3] < q[3]
  IN  SortedBy(Before, all)

Combine(Op(_, _), f, g) ==
  LET Add(acc, p) ==
        LET y0 == IF p[3] = 0 THEN p[2] ELSE acc.y0
            y1 == IF p[3] = 1 THEN p[2] ELSE acc.y1
        IN  [h |-> add_breakpoint(acc.h, p[1], Op(y0, y1)), y0 |-> y0, y1 |-> y1]
  IN  FoldLeft(Add,
               [h |-> PiecewiseConstantFunction(Op(f.initial, g.initial)),
                y0 |-> f.initial, y1 |-> g.initial],
               _merged_breakpoints(f, g)).h

__add__(f, g) == Combine(LAMBDA a, b : a + b, f, g)
__sub__(f, g) == Combine(LAMBDA a, b : a - b, f, g)
__mul__(f, g) == Combine(LAMBDA a, b : a * b, f, g)
piecewise_max(f, g) == Combine(LAMBDA a, b : IF a >= b THEN a ELSE b, f, g)
=============================================================================
