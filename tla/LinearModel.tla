---------------------------- MODULE LinearModel ----------------------------
(***************************************************************************)
(* A model of include/sankhya/model.hpp as exact arithmetic: columns with  *)
(* bounds, costs and an integrality mark, rows with two-sided bounds, a    *)
(* sparse matrix.  Values, bounds, costs and prices are integers that      *)
(* count 1/Unit; coefficients are plain integers.                          *)
(***************************************************************************)
EXTENDS Integers, FiniteSetsExt

CONSTANTS Unit,  \* parts a whole number is divided into, so that halves are exact
          Inf    \* kInfinity

ASSUME LinearAssumption == Unit \in Nat \ {0} /\ Inf \in Nat \ {0}

Finite(v) == -Inf < v /\ v < Inf

Cols(m) == DOMAIN m.cost
Rows(m) == DOMAIN m.rl

\* Exact quotient; the instances keep every division without remainder.
Quotient(a, b) == IF b > 0 THEN a \div b ELSE (-a) \div (-b)

Dot(coefs, x, cols) == MapThenSumSet(LAMBDA c : coefs[c] * x[c], cols)

\* round_integer_lower, round_integer_upper
RoundUp(v) == IF Finite(v) THEN -((-v) \div Unit) * Unit ELSE v
RoundDown(v) == IF Finite(v) THEN (v \div Unit) * Unit ELSE v

\* Model::evaluate_objective and the feasibility recompute_quality() measures.
Objective(m, x) == m.offset + Dot([c \in Cols(m) |-> m.cost[c]], x, Cols(m))

Feasible(m, x) ==
  /\ \A c \in Cols(m) : m.lo[c] <= x[c] /\ x[c] <= m.up[c] /\ (c \in m.int => x[c] % Unit = 0)
  /\ \A r \in Rows(m) : m.rl[r] <= Dot(m.coef[r], x, Cols(m)) /\ Dot(m.coef[r], x, Cols(m)) <= m.ru[r]

\* d = c - A'y, the definition of the reduced costs.
ReducedCost(m, y, c) == m.cost[c] - MapThenSumSet(LAMBDA r : m.coef[r][c] * y[r], Rows(m))

\* A price is admissible for a quantity that sits at value v between two bounds: any sign
\* when it is fixed, none when it is strictly inside.
Admissible(m, price, v, lo, up) ==
  /\ v # lo /\ v # up => price = 0
  /\ v = lo /\ v # up => m.sense * price >= 0
  /\ v = up /\ v # lo => m.sense * price <= 0

\* The optimality conditions.
Optimal(m, x, y, d) ==
  /\ Feasible(m, x)
  /\ \A c \in Cols(m) : d[c] = ReducedCost(m, y, c) /\ Admissible(m, d[c], x[c], m.lo[c], m.up[c])
  /\ \A r \in Rows(m) : Admissible(m, y[r], Dot(m.coef[r], x, Cols(m)), m.rl[r], m.ru[r])
=============================================================================
