-------------------------------- MODULE Cuts --------------------------------
(***************************************************************************)
(* The separators of src/mip (cuts.cpp, mir_cuts.cpp,                      *)
(* combinatorial_cuts.cpp) and the objective step of branch_and_bound.cpp, *)
(* in exact arithmetic.                                                    *)
(*                                                                         *)
(* A row of the working model is [coef, rl, ru, den] and stands for        *)
(*      rl <= sum coef[c] x[c] <= ru,                                      *)
(* its coefficients and sides multiplied by den, so that a cut with        *)
(* fractional coefficients stays in integers.  A cut is such a row without *)
(* lower side.  Each operator returns every cut its code may return at     *)
(* the point x: where the code takes the most violated of several or stops *)
(* at a cap, all of them are here.                                         *)
(***************************************************************************)
EXTENDS LinearModel, SequencesExt

CONSTANTS MaxDet,         \* bound on the determinant of a basis of the instances
          MaxAggregation  \* kMaxAggregation

ASSUME CutsAssumption == MaxDet \in Nat \ {0} /\ MaxAggregation \in Nat

ModelRow(m, r) == [coef |-> m.coef[r], rl |-> m.rl[r], ru |-> m.ru[r], den |-> 1]

Activity(row, x) == Dot(row.coef, x, DOMAIN row.coef)
Holds(row, x) ==
  /\ Finite(row.rl) => row.rl <= Activity(row, x)
  /\ Finite(row.ru) => Activity(row, x) <= row.ru

\* The greatest common divisor of n > 0 and some other numbers.
CommonDivisor(n, others) == Max({d \in 1 .. n : n % d = 0 /\ \A v \in others : v % d = 0})
AbsValue(v) == IF v < 0 THEN -v ELSE v

\* The same row over the smallest den.
Cut(coef, rhs, den) ==
  LET g == CommonDivisor(den, {rhs} \cup {coef[c] : c \in DOMAIN coef})
  IN  [coef |-> [c \in DOMAIN coef |-> coef[c] \div g], rl |-> -Inf, ru |-> rhs \div g,
       den |-> den \div g]

NonZero(cut) == \E c \in DOMAIN cut.coef : cut.coef[c] # 0

\* The rows of the working model, each finite side as sum coef x <= rhs.
Side(row, i, s) ==
  [coef |-> [c \in DOMAIN row.coef |-> s * row.coef[c]],
   rhs |-> IF s = 1 THEN row.ru ELSE -row.rl, den |-> row.den, row |-> i]

Sides(rows) ==
  {side \in {Side(rows[i], i, s) : i \in DOMAIN rows, s \in {1, -1}} : Finite(side.rhs)}

Support(side) == {c \in DOMAIN side.coef : side.coef[c] # 0}

Whole(v) == v % Unit = 0

-----------------------------------------------------------------------------
\* tighten_integral_rows

TightenIntegralRows(m) ==
  LET eligible(r) == Support(ModelRow(m, r)) # {} /\ Support(ModelRow(m, r)) \subseteq m.int
  IN  [m EXCEPT !.rl = [r \in DOMAIN @ |-> IF eligible(r) THEN RoundUp(@[r]) ELSE @[r]],
                !.ru = [r \in DOMAIN @ |-> IF eligible(r) THEN RoundDown(@[r]) ELSE @[r]]]

-----------------------------------------------------------------------------
\* Lifted cover cuts

\* classify_row: a <= row of binaries with positive integer weights.
IsKnapsack(row, lo, up, ints) ==
  LET cols == Support(row)
  IN  /\ ~Finite(row.rl) /\ Finite(row.ru) /\ row.ru > 0 /\ row.ru % (row.den * Unit) = 0
      /\ cols # {}
      /\ \A c \in cols : /\ c \in ints /\ lo[c] = 0 /\ up[c] = Unit
                         /\ row.coef[c] > 0 /\ row.coef[c] % row.den = 0

\* exact_01_knapsack, by what it computes.
Knapsack(weight, profit, items, capacity) ==
  Max({SumFunctionOnSet(profit, S) :
         S \in {T \in SUBSET items : SumFunctionOnSet(weight, T) <= capacity}})

\* The order of classify_row: heaviest first, then by index.
HeaviestFirst(weight) ==
  CHOOSE order \in [1 .. Cardinality(DOMAIN weight) -> DOMAIN weight] :
    \A i, j \in DOMAIN order : i < j =>
      \/ weight[order[i]] > weight[order[j]]
      \/ weight[order[i]] = weight[order[j]] /\ order[i] < order[j]

\* find_minimal_cover: heaviest first until the capacity is exceeded.  The trim that follows
\* drops nothing, since what was there before the last fits.
MinimalCover(order, weight, b) ==
  LET prefix(n) == {order[k] : k \in 1 .. n}
      exceeding == {n \in DOMAIN order : SumFunctionOnSet(weight, prefix(n)) > b}
  IN  IF exceeding = {} THEN {} ELSE prefix(Min(exceeding))

\* One lifting step: what x_k = 1 leaves for the lifted part of the cut.
LiftedAlpha(weight, alpha, size, b, k) ==
  IF b < weight[k] THEN 0
  ELSE size - 1 - Knapsack(weight, alpha, DOMAIN alpha, b - weight[k])

\* The coefficients of the cover and of the columns lifted after it, in their order.
Lifted(weight, b, order, cover) ==
  LET alpha[n \in 0 .. Len(order)] ==
        IF n = 0 THEN [c \in cover |-> 1]
        ELSE IF order[n] \in cover THEN alpha[n - 1]
        ELSE [c \in DOMAIN alpha[n - 1] \cup {order[n]} |->
                IF c = order[n]
                THEN LiftedAlpha(weight, alpha[n - 1], Cardinality(cover), b, c)
                ELSE alpha[n - 1][c]]
  IN  alpha[Len(order)]

CoverCuts(rows, lo, up, ints) ==
  UNION {LET row == rows[i]
             weight == [c \in Support(row) |-> row.coef[c] \div row.den]
             b == row.ru \div (row.den * Unit)
             order == HeaviestFirst(weight)
             cover == MinimalCover(order, weight, b)
             alpha == Lifted(weight, b, order, cover)
         IN  IF cover = {} \/ \E c \in DOMAIN alpha : alpha[c] < 0 THEN {}
             ELSE {Cut([c \in DOMAIN row.coef |-> IF c \in DOMAIN alpha THEN alpha[c] ELSE 0],
                       (Cardinality(cover) - 1) * Unit, 1)} :
         i \in {k \in DOMAIN rows : IsKnapsack(rows[k], lo, up, ints)}}

-----------------------------------------------------------------------------
\* Mixed-integer rounding

\* The bound the point is nearer to; a free column has none.
UseUpper(lo, up, v) == Finite(up) /\ (~Finite(lo) \/ up - v < v - lo)

\* mir_inequality over y, times the denominator d * Unit - r of 1 / (1 - f0).
MirCoefficient(a, isInt, d, r) ==
  IF isInt THEN (a \div d) * (d * Unit - r) + Max({0, (a % d) * Unit - r})
  ELSE IF a < 0 THEN a * Unit ELSE 0

\* separate_from_base: substitute the nearest bounds, round, substitute back.
MirFrom(base, x, lo, up, ints) ==
  LET cols == Support(base)
      upper == {c \in cols : UseUpper(lo[c], up[c], x[c])}
      bound == [c \in cols |-> IF c \in upper THEN up[c] ELSE lo[c]]
      a == [c \in cols |-> IF c \in upper THEN -base.coef[c] ELSE base.coef[c]]
      b == base.rhs - SumFunction([c \in cols |-> base.coef[c] * bound[c]])
      divisors == {base.den} \cup {AbsValue(a[c]) : c \in {k \in cols \cap ints : ~Whole(x[k] - bound[k])}}
      inX(d) ==
        LET r == b % (d * Unit)
            y == [c \in cols |-> MirCoefficient(a[c], c \in ints, d, r)]
            sign == [c \in cols |-> IF c \in upper THEN -1 ELSE 1]
        IN  Cut([c \in DOMAIN base.coef |-> IF c \in cols THEN sign[c] * y[c] ELSE 0],
                (b \div (d * Unit)) * Unit * (d * Unit - r)
                  + SumFunction([c \in cols |-> sign[c] * y[c] * bound[c]]),
                d * Unit - r)
  IN  IF (\A c \in cols : Finite(bound[c]) /\ (c \in ints => Whole(bound[c])))
           /\ \E c \in cols \cap ints : ~Whole(x[c])
      THEN {inX(d) : d \in {k \in divisors : b % (k * Unit) # 0}}
      ELSE {}

\* A continuous column inside its bounds is worth eliminating.
Inside(base, x, lo, up, ints) ==
  {c \in Support(base) \ ints : /\ x[c] > lo[c] /\ x[c] < up[c]
                                /\ Finite(lo[c]) \/ Finite(up[c])}

\* aggregate_row: base + lambda * row with the side of the row lambda's sign permits.
Aggregated(base, rows, i, c) ==
  LET row == rows[i]
      s == IF row.coef[c] > 0 THEN 1 ELSE -1
      lambda == -s * base.coef[c]        \* the multiplier's sign, times |row.coef[c]|
      bound == IF lambda > 0 THEN row.ru ELSE row.rl
  IN  [coef |-> [k \in DOMAIN base.coef |-> s * row.coef[c] * base.coef[k] + lambda * row.coef[k]],
       rhs |-> s * row.coef[c] * base.rhs + lambda * bound,
       den |-> base.den * s * row.coef[c], used |-> base.used \cup {i}, ok |-> Finite(bound)]

\* The aggregates of depth at most n of every side of a row with a fractional column.
Aggregates(rows, x, lo, up, ints) ==
  LET start == {[coef |-> s.coef, rhs |-> s.rhs, den |-> s.den, used |-> {s.row}, ok |-> TRUE] :
                  s \in {t \in Sides(rows) : \E c \in Support(t) \cap ints : ~Whole(x[c])}}
      extended(b) == {Aggregated(b, rows, p[1], p[2]) :
                        p \in {q \in (DOMAIN rows \ b.used) \X Inside(b, x, lo, up, ints) :
                                 rows[q[1]].coef[q[2]] # 0}}
      upTo[n \in 0 .. MaxAggregation] ==
        IF n = 0 THEN start
        ELSE upTo[n - 1] \cup {b \in UNION {extended(a) : a \in upTo[n - 1]} : b.ok}
  IN  upTo[MaxAggregation]

MirCuts(rows, x, lo, up, ints) ==
  UNION {MirFrom(b, x, lo, up, ints) : b \in Aggregates(rows, x, lo, up, ints)}

-----------------------------------------------------------------------------
\* Clique and {0,1/2} cuts

Binary(c, lo, up, ints) == c \in ints /\ lo[c] = 0 /\ up[c] = Unit

\* Two binaries conflict when a side forbids both at 1, everything else at its best.
InConflict(p, q, side, lo, up, ints) ==
  LET positive == {c \in Support(side) : side.coef[c] > 0 /\ Binary(c, lo, up, ints)}
      best == [c \in Support(side) \ positive |-> IF side.coef[c] > 0 THEN lo[c] ELSE up[c]]
  IN  /\ p \in positive /\ q \in positive
      /\ \A c \in DOMAIN best : Finite(best[c])
      /\ (side.coef[p] + side.coef[q]) * Unit
           + SumFunction([c \in DOMAIN best |-> side.coef[c] * best[c]]) > side.rhs

CliqueCuts(rows, x, lo, up, ints) ==
  LET cols == {c \in DOMAIN x : Binary(c, lo, up, ints)}
      edges == {p \in cols \X cols : p[1] # p[2] /\
                  \E side \in Sides(rows) : InConflict(p[1], p[2], side, lo, up, ints)}
      cliques == {S \in SUBSET cols : Cardinality(S) > 1 /\
                    \A p \in S, q \in S : p = q \/ <<p, q>> \in edges}
  IN  {Cut([c \in DOMAIN x |-> IF c \in S THEN 1 ELSE 0], Unit, 1) : S \in cliques}

\* Every column as an integer at least 0: from its lower bound, or down from its upper.
Anchor(lo, up) == IF Finite(lo) THEN RoundUp(lo) ELSE RoundDown(up)

\* Sums of sides with integer data, halved and rounded down.
ZeroHalfCuts(rows, x, lo, up, ints) ==
  LET usable(c) == c \in ints /\ (Finite(lo[c]) \/ Finite(up[c]))
      eligible == {s \in Sides(rows) : Support(s) # {} /\
                     \A c \in Support(s) : usable(c) /\ s.coef[c] % s.den = 0}
      down == {c \in DOMAIN x : ~Finite(lo[c])}
      anchor == [c \in {k \in DOMAIN x : usable(k)} |-> Anchor(lo[c], up[c])]
      whole(s) == [c \in DOMAIN x |-> s.coef[c] \div s.den]
      shifted(s) == s.rhs - SumFunction([c \in Support(s) |-> s.coef[c] * anchor[c]])
      cutOf(S) ==
        LET sum == [c \in DOMAIN x |-> SumFunction(
                       [s \in S |-> IF c \in down THEN -whole(s)[c] ELSE whole(s)[c]])]
            half == [c \in DOMAIN x |-> sum[c] \div 2]
            inX == [c \in DOMAIN x |-> IF c \in down THEN -half[c] ELSE half[c]]
            den == FoldSet(LAMBDA s, acc : s.den * acc, 1, S)
            rhs == SumFunction([s \in S |-> shifted(s) * (den \div s.den)])
            kept == {c \in DOMAIN x : inX[c] # 0}
        IN  Cut(inX, (rhs \div (2 * Unit * den)) * Unit
                       + SumFunction([c \in kept |-> inX[c] * anchor[c]]), 1)
  IN  {cutOf(S) : S \in (SUBSET eligible) \ {{}}}

-----------------------------------------------------------------------------
\* Gomory mixed-integer cuts

\* Row multipliers z / det that leave basic column k alone among the basic columns: the row
\* of the tableau k is basic in.  Basic rows get no multiplier.
Multipliers(rows, basicCols, basicRows, k) ==
  LET column(z, c) == SumFunction([i \in DOMAIN z |-> z[i] * rows[i].coef[c]])
      found == {t \in (1 .. MaxDet) \X [DOMAIN rows \ basicRows -> -MaxDet .. MaxDet] :
                  \A c \in basicCols : column(t[2], c) = IF c = k THEN t[1] ELSE 0}
  IN  {[det |-> t[1], z |-> [i \in DOMAIN rows |-> IF i \in basicRows THEN 0 ELSE t[2][i]]] :
         t \in found}

\* pi of a nonbasic variable a / det away from its bound, times r (det Unit - r).
GomoryPi(a, asInt, det, r) ==
  LET g == (a % det) * Unit
      one == det * Unit
  IN  IF asInt THEN Min({g * (one - r), (one - g) * r})
      ELSE IF a > 0 THEN a * Unit * (one - r) ELSE -a * Unit * r

\* compute_gmi_from_tableau: x stands at a vertex, its nonbasic columns and rows at bounds.
GomoryFrom(rows, x, lo, up, ints, basicCols, basicRows, k, det, z) ==
  LET n == DOMAIN x
      nonbasic == n \ basicCols
      logical == DOMAIN rows \ basicRows
      alpha == [c \in n |-> SumFunction([i \in DOMAIN rows |-> z[i] * rows[i].coef[c]])]
      r == (x[k] * det) % (det * Unit)
      sign == [c \in nonbasic |-> IF x[c] = lo[c] THEN 1 ELSE -1]
      rowSign == [i \in logical |-> IF Activity(rows[i], x) = rows[i].rl THEN 1 ELSE -1]
      pi == [c \in nonbasic |-> IF lo[c] = up[c] THEN 0
                                ELSE GomoryPi(sign[c] * alpha[c], c \in ints /\ Whole(x[c]), det, r)]
      rowPi == [i \in logical |-> IF rows[i].rl = rows[i].ru THEN 0
                                  ELSE GomoryPi(-rowSign[i] * z[i], FALSE, det, r)]
      gamma == [c \in n |-> (IF c \in nonbasic THEN sign[c] * pi[c] ELSE 0)
                            + SumFunction([i \in logical |-> rowSign[i] * rowPi[i] * rows[i].coef[c]])]
      beta == r * (det * Unit - r) * Unit
              + SumFunction([c \in nonbasic |-> sign[c] * pi[c] * x[c]])
              + SumFunction([i \in logical |-> rowSign[i] * rowPi[i] * Activity(rows[i], x)])
  IN  Cut([c \in n |-> -gamma[c]], -beta, r * (det * Unit - r))

\* generate_gmi_cuts: one for every integer column basic at a fractional value, in every
\* basis x is the vertex of.
GomoryCuts(rows, x, lo, up, ints) ==
  LET atBound == {c \in DOMAIN x : x[c] \in {lo[c], up[c]}}
      tight == {i \in DOMAIN rows : \E side \in {rows[i].rl, rows[i].ru} :
                                      Finite(side) /\ Activity(rows[i], x) = side}
      bases == {b \in (SUBSET DOMAIN x) \X (SUBSET DOMAIN rows) :
                  /\ Cardinality(b[1]) + Cardinality(b[2]) = Cardinality(DOMAIN rows)
                  /\ DOMAIN x \ b[1] \subseteq atBound /\ DOMAIN rows \ b[2] \subseteq tight}
  IN  UNION {UNION {LET found == Multipliers(rows, b[1], b[2], k)
                        t == CHOOSE q \in found : \A p \in found : q.det <= p.det
                    IN  IF found = {} THEN {}
                        ELSE {GomoryFrom(rows, x, lo, up, ints, b[1], b[2], k, t.det, t.z)} :
                    k \in {c \in b[1] \cap ints : ~Whole(x[c])}} : b \in bases}

-----------------------------------------------------------------------------
\* filter_and_deduplicate_cuts: what is violated at x and no multiple of what is there.

Proportional(p, q) ==
  /\ \A c \in DOMAIN p.coef : p.coef[c] * q.den = q.coef[c] * p.den
  /\ p.ru * q.den = q.ru * p.den

Violated(cuts, x) == {cut \in cuts : NonZero(cut) /\ Activity(cut, x) > cut.ru}

-----------------------------------------------------------------------------
\* Mutant: the side that bounds the column from where the objective does not push it.
DefiningSideOther(positive, down, rl, ru) == IF positive = down THEN ru ELSE rl

\* The side of a row that stops the costed column: its lower one when the objective pushes
\* the column down and the coefficient is positive.
DefiningSide(positive, down, rl, ru) == IF positive = down THEN rl ELSE ru

\* detect_objective_integrality: the step every objective value of an integer point is a
\* multiple of, 0 when none is known.

ObjectiveStep(m) ==
  LET costed == {c \in Cols(m) : m.cost[c] # 0}
      loose == costed \ m.int
      step == IF costed = {} THEN 0
              ELSE CommonDivisor(AbsValue(m.cost[CHOOSE c \in costed : TRUE]),
                                 {m.cost[c] : c \in costed})
      one == CHOOSE c \in loose : TRUE
      down == m.sense * m.cost[one] > 0
      side(r) == DefiningSide(m.coef[r][one] > 0, down, m.rl[r], m.ru[r])
      used == {r \in Rows(m) : m.coef[r][one] # 0}
      defines(r) ==
        /\ side(r) % (m.coef[r][one] * (IF m.coef[r][one] > 0 THEN Unit ELSE -Unit)) = 0
        /\ \A c \in Cols(m) \ {one} : m.coef[r][c] # 0 =>
             c \in m.int /\ AbsValue(m.coef[r][c]) % AbsValue(m.coef[r][one]) = 0
      defining == {r \in used : Finite(side(r))}
  IN  CASE loose = {} -> step
        [] Cardinality(loose) = 1 /\ costed = loose ->
             IF /\ used # {}
                /\ \A b \in {m.lo[one], m.up[one]} : Finite(b) => Whole(b)
                /\ \A r \in defining : defines(r)
                /\ defining # {} \/ Finite(IF down THEN m.lo[one] ELSE m.up[one])
             THEN AbsValue(m.cost[one]) ELSE 0
        [] OTHER -> 0
=============================================================================
