-------------------------------- MODULE Interpol8 --------------------------------
(***************************************************************************)
(* interpol8.Raw: evenly spaced averages, minima and maxima of a time      *)
(* series, for valid arguments.  Values are integers that leave no         *)
(* remainder in the divisions of the interpolation; NaN is no value.       *)
(***************************************************************************)
EXTENDS Integers, Sequences, SequencesExt, FiniteSetsExt

CONSTANT NaN   \* not a number: no value is known

\* The value at time t on the line from p to q, which may be any two points.
At(p, q, t) == p.v + ((t - p.t) * (q.v - p.v)) \div (q.t - p.t)

-----------------------------------------------------------------------------
(* Helpers.                                                                *)

\* adjustEnd: the number of intervals.
Count(start, end, step) == (end - 1 - start) \div step + 1

\* A slice of the series is the range lo .. hi of its points.  lTrim keeps one point
\* before the first one after start.
LTrim(raw, start) ==
  LET after == {x \in 2 .. Len(raw) : raw[x].t > start} IN
  IF after = {} THEN 1 ELSE Min(after) - 1

\* rTrim keeps one point after the last one before end + step.
BugRTrim(raw, lo, end, step) ==
  LET before == {x \in lo + 1 .. Len(raw) - 1 : raw[x].t < end + step} IN
  IF before = {} THEN Len(raw) ELSE Max(before)
RTrim(raw, lo, end, step) ==
  LET before == {x \in lo + 1 .. Len(raw) - 1 : raw[x].t < end + step} IN
  IF before = {} THEN Len(raw) ELSE Max(before) + 1

\* f[a] + ... + f[b], as a loop adds it up.
Total(f, a, b) ==
  LET sum[x \in a - 1 .. b] == IF x < a THEN 0 ELSE sum[x - 1] + f[x] IN sum[b]

-----------------------------------------------------------------------------
(* The contribution of two consecutive points p, q to the interval from ts  *)
(* to te: dx of its time, num (for Absolute twice the integral), and the     *)
(* values that count for minimum and maximum.                               *)

Nothing == [dx |-> 0, num |-> 0, vals |-> {}]

\* A line from value a to value b.
Line(dx, a, b, vals) == [dx |-> dx, num |-> dx * (a + b), vals |-> vals]

\* A counter that went from a to b; if it went back the rate is unknown.
Counted(dx, a, b, p, q) ==
  IF b >= a THEN [dx |-> dx, num |-> b - a, vals |-> {(q.v - p.v) \div (q.t - p.t)}]
  ELSE [dx |-> dx, num |-> 0, vals |-> {}]

\* Both points in the interval.
Inside(kind, p, q) ==
  IF kind = "absolute" THEN Line(q.t - p.t, p.v, q.v, {})
  ELSE Counted(q.t - p.t, p.v, q.v, p, q)

\* p before it.
Entering(kind, p, q, ts) ==
  LET iy == At(p, q, ts) IN
  IF kind = "absolute" THEN Line(q.t - ts, iy, q.v, {iy})
  ELSE Counted(q.t - ts, iy, q.v, p, q)

\* q beyond it.
Leaving(kind, p, q, te) ==
  LET iy == At(p, q, te) IN
  IF kind = "absolute" THEN Line(te - p.t, p.v, iy, {iy})
  ELSE Counted(te - p.t, p.v, iy, p, q)

\* Both: no other pair contributes then.  The code takes the rate of the whole
\* pair, and nothing of a counter that went back.
Across(kind, p, q, ts, te) ==
  IF kind = "absolute"
  THEN Line(te - ts, At(p, q, ts), At(p, q, te), {At(p, q, ts), At(p, q, te)})
  ELSE IF q.v >= p.v THEN Counted(q.t - p.t, p.v, q.v, p, q) ELSE Nothing

\* The cases in the order of the code, the last one being its internal error.
Piece(kind, p, q, ts, te, maxFill) ==
  IF q.t = ts \/ p.t = te \/ p.t = q.t THEN Nothing
  ELSE IF p.t >= ts /\ q.t <= te THEN Inside(kind, p, q)
  ELSE IF q.t - p.t > maxFill THEN Nothing
  ELSE IF p.t < ts /\ q.t <= te THEN Entering(kind, p, q, ts)
  ELSE IF p.t >= ts /\ q.t > te THEN Leaving(kind, p, q, te)
  ELSE IF p.t < ts /\ q.t > te THEN Across(kind, p, q, ts, te)
  ELSE [dx |-> 0, num |-> 0, vals |-> "internal error"]

-----------------------------------------------------------------------------
\* One interval: from the last point before ts to the last one up to te.
Interval(raw, lo, hi, kind, ts, te, maxFill) ==
  LET i == Max({lo - 1} \cup {x \in lo .. hi : raw[x].t < ts})
      j == Max({i} \cup {x \in lo .. hi : raw[x].t <= te})
      from == Max({lo, i})
      pieces == [x \in from .. j |->
                   IF x < hi THEN Piece(kind, raw[x], raw[x + 1], ts, te, maxFill) ELSE Nothing]
      dx == Total([x \in from .. j |-> pieces[x].dx], from, j)
      num == Total([x \in from .. j |-> pieces[x].num], from, j)
      points == IF kind = "absolute" THEN {raw[x].v : x \in {y \in from .. j : raw[y].t >= ts}}
                ELSE {}
      vals == points \cup UNION {pieces[x].vals : x \in from .. j}
  IN IF dx > 0
     THEN [num |-> num,
           denom |-> IF kind = "absolute" THEN 2 * dx ELSE dx,
           min |-> IF vals = {} THEN NaN ELSE Min(vals),
           max |-> IF vals = {} THEN NaN ELSE Max(vals)]
     ELSE IF kind = "absolute" /\ i < hi /\ raw[i + 1].t \in ts .. te - 1
     THEN \* a single point without a neighbour near enough
          [num |-> raw[i + 1].v, denom |-> 1, min |-> raw[i + 1].v, max |-> raw[i + 1].v]
     ELSE [num |-> NaN, denom |-> 0, min |-> NaN, max |-> NaN]

Raw(raw, kind, start, end0, step, maxFill) ==
  LET count == Count(start, end0, step)
      lo == LTrim(raw, start)
      hi == RTrim(raw, lo, start + count * step, step)
  IN [r \in 1 .. count |->
        Interval(raw, lo, hi, kind, start + (r - 1) * step, start + r * step, maxFill)]
=================================================================================
