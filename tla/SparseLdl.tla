----------------------------- MODULE SparseLdl -----------------------------
(***************************************************************************)
(* The symmetric factorization of the interior point and of the convexity  *)
(* test (la/ldl.cpp): the approximate minimum degree ordering on a         *)
(* quotient graph with its budget, the elimination tree, the symbolic      *)
(* pattern with its budget, the up-looking numeric pass that fills that    *)
(* pattern slot by slot, the decision procedure for semidefiniteness, the  *)
(* solve, and the normal equations the interior point rebuilds each        *)
(* iteration and factorizes with the analysis of the first.                *)
(*                                                                         *)
(* Numbers are exact rationals, so a tolerance is its exact limit: a pivot *)
(* is zero or it is not.  Ties of the ordering are a choice.               *)
(***************************************************************************)
EXTENDS Rationals

CONSTANTS
  Order,             \* rows of the symmetric matrix
  ConstraintMatrices,\* A of the normal equations, as sequences of integer columns
  Thetas,            \* scalings an iteration may have, 0 on fixed columns only
  Quadratics,        \* symmetric integer matrices whose convexity is asked
  OrderingBudgets,   \* set_ordering_budget()
  FactorBudgets      \* set_factor_budget()

Nodes == 1..Order

ASSUME LdlAssumption ==
  /\ Order \in Nat \ {0}
  /\ \A q \in Quadratics : q \in [Nodes -> [Nodes -> Int]]
  /\ OrderingBudgets \subseteq Nat /\ FactorBudgets \subseteq Nat

VARIABLES
  problem,    \* what is factorized: the constraint matrix or the quadratic, and its use
  lower,      \* the lower triangle handed over: its pattern and its values
  ldlPhase,   \* "ordering", "symbolic", "numeric", "ready", or why it ended
  budget,     \* the two budgets of this analysis
  quotient,   \* the quotient graph of the ordering
  perm,       \* perm_: the nodes in elimination order
  symbolic,   \* the permuted pattern, the tree and the pattern of L
  numeric     \* L by column in slots, D, and the verdict

ldlVars == <<problem, lower, ldlPhase, budget, quotient, perm, symbolic, numeric>>

-----------------------------------------------------------------------------
(* The matrices.                                                           *)

Delta == 1   \* dual_regularization_, on the diagonal and the floor of a pivot

\* Mutant: a sum that cancels leaves the pattern.
NormalEquationsDropped(a, theta) ==
  LET Sum(r, i) == FoldLeft(LAMBDA s, j : s + theta[j] * a[j][i] * a[j][r],
                            0, [j \in DOMAIN a |-> j])
  IN [pattern |-> {e \in Nodes \X Nodes : e[1] >= e[2] /\ (e[1] = e[2] \/ Sum(e[1], e[2]) # 0)},
      value |-> [r \in Nodes |-> [i \in Nodes |->
                   Sum(r, i) + (IF r = i THEN Delta ELSE 0)]]]

\* normal_equations_lower(): a row of A Theta A^T reaches the rows that share a column of
\* nonzero scaling with it; the diagonal is always there, and a sum that cancels to zero
\* is kept.
NormalEquations(a, theta) ==
  LET Shares(r, i, j) == theta[j] * a[j][i] # 0 /\ a[j][r] # 0
      Sum(r, i) == FoldLeft(LAMBDA s, j : s + theta[j] * a[j][i] * a[j][r],
                            0, [j \in DOMAIN a |-> j])
  IN [pattern |-> {e \in Nodes \X Nodes :
                     \/ e[1] = e[2]
                     \/ e[1] > e[2] /\ \E j \in DOMAIN a : Shares(e[1], e[2], j)},
      value |-> [r \in Nodes |-> [i \in Nodes |->
                   Sum(r, i) + (IF r = i THEN Delta ELSE 0)]]]

LowerOf(q) ==
  [pattern |-> {e \in Nodes \X Nodes : e[1] >= e[2] /\ q[e[1]][e[2]] # 0}, value |-> q]

-----------------------------------------------------------------------------
(* minimum_degree(): the quotient graph.                                   *)

Total(f, S) == FoldLeft(LAMBDA n, i : n + Cardinality(f[i]), 0, SetToSeq(S))

StartGraph(low) ==
  LET adjacent == [i \in Nodes |-> {j \in Nodes : i # j /\
                     (<<i, j>> \in low.pattern \/ <<j, i>> \in low.pattern)}]
  IN [adjacent |-> adjacent,
      elements |-> [i \in Nodes |-> {}], members |-> [i \in Nodes |-> {}],
      status |-> [i \in Nodes |-> "variable"],
      degree |-> [i \in Nodes |-> Cardinality(adjacent[i])],
      live |-> Total(adjacent, Nodes)]

Variables(g) == {i \in Nodes : g.status[i] = "variable"}
Elements(g) == {e \in Nodes : g.status[e] = "element"}

\* |L_e \ L_p| of an element, by counting down for each member of L_p that lists it.
Outside(g, lp, e) ==
  Cardinality(g.members[e]) - Cardinality({i \in lp : e \in g.elements[i]})

\* Mutant: an element with one member left outside is absorbed too.
SwallowedAlmost(g, lp, candidates) == {e \in candidates : Outside(g, lp, e) <= 1}

\* Aggressive absorption: the elements with no member outside L_p.
Swallowed(g, lp, candidates) == {e \in candidates : Outside(g, lp, e) <= 0}

\* Eliminating p: its neighbourhood L_p becomes an element, the elements it touched are
\* absorbed, an element wholly inside L_p is absorbed at once, and every member of L_p
\* drops what p now stands for and takes the least of three bounds as its degree.
Eliminate(g, p) ==
  LET touched == g.elements[p] \cap Elements(g)
      lp == (g.adjacent[p] \cup UNION {g.members[e] : e \in touched})
              \cap (Variables(g) \ {p})
      wasLive == (Elements(g) \ touched) \cap UNION {g.elements[i] : i \in lp}
      inside == Swallowed(g, lp, wasLive)
      gone == touched \cup inside
      status == [i \in Nodes |-> IF i = p THEN "element"
                                 ELSE IF i \in gone THEN "absorbed" ELSE g.status[i]]
      adjacent == [i \in Nodes |-> IF i = p THEN {}
                     ELSE IF i \in lp THEN g.adjacent[i] \cap (Variables(g) \ (lp \cup {p}))
                     ELSE g.adjacent[i]]
      elements == [i \in Nodes |-> IF i = p THEN {}
                     ELSE IF i \in lp THEN (g.elements[i] \cap (wasLive \ inside)) \cup {p}
                     ELSE g.elements[i]]
      members == [e \in Nodes |-> IF e = p THEN lp
                     ELSE IF e \in gone THEN {} ELSE g.members[e]]
      External(i) == FoldLeft(LAMBDA n, e : n + Outside(g, lp, e), 0, SetToSeq(elements[i] \ {p}))
      Bound(i) == Min({Order - Len(perm) - 1,
                       g.degree[i] + Cardinality(lp) - 1,
                       Cardinality(adjacent[i]) + Cardinality(lp) - 1 + External(i)})
  IN [adjacent |-> adjacent, elements |-> elements, members |-> members, status |-> status,
      degree |-> [i \in Nodes |-> IF i \in lp
                    THEN (IF Bound(i) < 0 THEN 0 ELSE Bound(i)) ELSE g.degree[i]],
      live |-> g.live - Total(g.members, gone) + Cardinality(lp)
                 - Total(g.adjacent, lp \cup {p}) + Total(adjacent, lp)
                 - Total(g.elements, lp \cup {p}) + Total(elements, lp)]

-----------------------------------------------------------------------------
(* build_permuted_pattern(), elimination_tree(), symbolic_pattern().       *)

\* The entries of permuted column k at or above its diagonal, and their values.
Entries(low, k) ==
  {i \in 1..k : <<perm[i], perm[k]>> \in low.pattern \/ <<perm[k], perm[i]>> \in low.pattern}
PermutedValue(low, i, k) == Whole(low.value[perm[i]][perm[k]])

\* The walk up the tree from i to the nodes below k.
Climb(next, i, k) ==
  LET path[x \in 0..Order] ==
        IF x = 0 \/ x >= k THEN {} ELSE {x} \cup path[next[x]]
  IN path[i]

\* elimination_tree(): every walk shortens the paths it took, and a walk that ends at a
\* root makes that root a child of k.
EliminationTree(columns) ==
  LET Walk(t, i, k) ==
        LET seen == Climb(t.ancestor, i, k)
        IN [ancestor |-> [v \in Nodes |-> IF v \in seen THEN k ELSE t.ancestor[v]],
            parent |-> [v \in Nodes |-> IF v \in seen /\ t.ancestor[v] = 0
                                        THEN k ELSE t.parent[v]]]
      Column(t, k) == FoldLeft(LAMBDA u, i : Walk(u, i, k), t,
                               SetToSortSeq(columns[k] \ {k}, <))
      none == [v \in Nodes |-> 0]
  IN FoldLeft(Column, [ancestor |-> none, parent |-> none], [k \in Nodes |-> k]).parent

\* The nodes row k of L reaches.
Reach(columns, parent, k) == UNION {Climb(parent, i, k) : i \in columns[k] \ {k}}

Symbolic(low) ==
  LET columns == [k \in Nodes |-> Entries(low, k)]
      parent == EliminationTree(columns)
  IN [columns |-> columns, parent |-> parent,
      rows |-> [j \in Nodes |->
                 SetToSortSeq({k \in Nodes : j \in Reach(columns, parent, k)}, <)]]

FactorNonzeros(sym) == FoldLeft(LAMBDA n, j : n + Len(sym.rows[j]), 0, [j \in Nodes |-> j])

-----------------------------------------------------------------------------
(* The numeric pass: row k of L by a forward substitution over its reach.  *)

NoNumeric == [l |-> [j \in Nodes |-> <<>>], d |-> <<>>, verdict |-> "undecided"]
NoSymbolic == [columns |-> <<>>, parent |-> <<>>, rows |-> <<>>]

\* One column j of the reach: its stored rows are subtracted, and its next slot takes the
\* new entry.  A zero pivot divides nothing, and must find nothing to divide.
Substitute(s, j) ==
  LET y == s.x[j]
      stored == numeric.l[j]
      pushed == FoldLeft(LAMBDA x, t :
                           [x EXCEPT ![symbolic.rows[j][t]] = MinusProduct(@, stored[t], y)],
                         s.x, [t \in DOMAIN stored |-> t])
      zero == numeric.d[j] = Whole(0)
      entry == IF zero THEN Whole(0) ELSE Over(y, numeric.d[j])
  IN [x |-> [pushed EXCEPT ![j] = Whole(0)],
      entries |-> Append(s.entries, <<j, entry>>),
      diagonal |-> MinusProduct(s.diagonal, entry, y),
      indefinite |-> s.indefinite \/ (zero /\ y # Whole(0))]

RowOf(k) ==
  FoldLeft(Substitute,
    [x |-> [i \in Nodes |-> IF i \in symbolic.columns[k] \ {k}
                            THEN PermutedValue(lower, i, k) ELSE Whole(0)],
     entries |-> <<>>, indefinite |-> FALSE,
     diagonal |-> IF k \in symbolic.columns[k]
                    THEN PermutedValue(lower, k, k) ELSE Whole(0)],
    SetToSortSeq(Reach(symbolic.columns, symbolic.parent, k), <))

Stored(row) ==
  [j \in Nodes |->
     LET own == SelectSeq(row.entries, LAMBDA e : e[1] = j)
     IN IF own = <<>> THEN numeric.l[j] ELSE Append(numeric.l[j], own[1][2])]

-----------------------------------------------------------------------------
(* The calls.                                                              *)

LdlInit ==
  /\ \/ \E a \in ConstraintMatrices, theta \in Thetas :
          /\ problem = [use |-> "factorize", a |-> a,
                        fixed |-> {j \in DOMAIN a : theta[j] = 0}]
          /\ lower = NormalEquations(a, theta)
     \/ \E q \in Quadratics :
          /\ problem = [use |-> "semidefinite"]
          /\ lower = LowerOf(q)
  /\ ldlPhase = "ordering"
  /\ budget \in [ordering : OrderingBudgets, factor : FactorBudgets]
  /\ quotient = StartGraph(lower)
  /\ perm = <<>>
  /\ symbolic = NoSymbolic
  /\ numeric = NoNumeric

\* One step of the ordering: a variable of least approximate degree is eliminated.
OrderNext(p) ==
  /\ ldlPhase = "ordering" /\ Len(perm) < Order
  /\ quotient.live <= budget.ordering
  /\ p \in Variables(quotient)
  /\ \A i \in Variables(quotient) : quotient.degree[p] <= quotient.degree[i]
  /\ quotient' = Eliminate(quotient, p)
  /\ perm' = Append(perm, p)
  /\ UNCHANGED <<problem, lower, ldlPhase, budget, symbolic, numeric>>

\* The storage of the graph passed its budget.
OrderingTooLarge ==
  /\ ldlPhase = "ordering" /\ Len(perm) < Order
  /\ quotient.live > budget.ordering
  /\ ldlPhase' = "ordering too large"
  /\ UNCHANGED <<problem, lower, budget, quotient, perm, symbolic, numeric>>

\* The rest of analyze(): the pattern is counted before it is stored, and a factor past its
\* budget is refused with nothing stored.
Analyze ==
  /\ ldlPhase = "ordering" /\ Len(perm) = Order
  /\ LET sym == Symbolic(lower)
     IN IF FactorNonzeros(sym) > budget.factor
          THEN ldlPhase' = "factor too large" /\ symbolic' = NoSymbolic
          ELSE ldlPhase' = "numeric" /\ symbolic' = sym
  /\ UNCHANGED <<problem, lower, budget, quotient, perm, numeric>>

\* Mutant: a negative pivot is lifted in the convexity test as well.
PivotOfLifted(diagonal) ==
  IF problem.use = "factorize"
    THEN [d |-> IF Less(Whole(Delta), diagonal) THEN diagonal ELSE Whole(Delta), ok |-> TRUE]
    ELSE [d |-> IF Less(Whole(0), diagonal) THEN diagonal ELSE Whole(0), ok |-> TRUE]

\* A pivot: lifted to the regularization when factorizing; kept at zero when deciding
\* semidefiniteness, and below zero the verdict.
PivotOf(diagonal) ==
  IF problem.use = "factorize"
    THEN [d |-> IF Less(Whole(Delta), diagonal) THEN diagonal ELSE Whole(Delta), ok |-> TRUE]
    ELSE [d |-> IF Less(Whole(0), diagonal) THEN diagonal ELSE Whole(0),
          ok |-> ~Less(diagonal, Whole(0))]

\* Row k of factorize() and of check_semidefinite().
FactorRow ==
  /\ ldlPhase = "numeric" /\ Len(numeric.d) < Order
  /\ LET row == RowOf(Len(numeric.d) + 1)
         pivot == PivotOf(row.diagonal)
         indefinite == problem.use = "semidefinite" /\ (row.indefinite \/ ~pivot.ok)
     IN /\ numeric' = IF indefinite THEN [numeric EXCEPT !.verdict = "indefinite"]
                      ELSE [numeric EXCEPT !.l = Stored(row), !.d = Append(@, pivot.d)]
        /\ ldlPhase' = IF indefinite THEN "decided" ELSE "numeric"
  /\ UNCHANGED <<problem, lower, budget, quotient, perm, symbolic>>

\* The last row is done: usable factors, or a semidefinite verdict whose factors nothing
\* may solve with.
RowsDone ==
  /\ ldlPhase = "numeric" /\ Len(numeric.d) = Order
  /\ IF problem.use = "factorize"
       THEN ldlPhase' = "ready" /\ numeric' = numeric
       ELSE ldlPhase' = "decided" /\ numeric' = [numeric EXCEPT !.verdict = "semidefinite"]
  /\ UNCHANGED <<problem, lower, budget, quotient, perm, symbolic>>

\* The deadline, asked before every step of the ordering, in the count, before every row.
LdlStopped ==
  /\ ldlPhase \in {"ordering", "numeric"}
  /\ ldlPhase' = "stopped early"
  /\ UNCHANGED <<problem, lower, budget, quotient, perm, symbolic, numeric>>

\* The next iteration of the interior point: new scalings, the old analysis.  An entry
\* outside the analysed pattern is refused.
Refactorize(theta) ==
  /\ ldlPhase = "ready"
  /\ {j \in DOMAIN problem.a : theta[j] = 0} = problem.fixed
  /\ lower' = NormalEquations(problem.a, theta)
  /\ ldlPhase' = IF \A k \in Nodes : Entries(lower', k) \subseteq symbolic.columns[k]
                   THEN "numeric" ELSE "pattern mismatch"
  /\ numeric' = NoNumeric
  /\ UNCHANGED <<problem, budget, quotient, perm, symbolic>>

LdlNext ==
  \/ \E p \in Nodes : OrderNext(p)
  \/ OrderingTooLarge
  \/ Analyze
  \/ FactorRow
  \/ RowsDone
  \/ LdlStopped
  \/ \E theta \in Thetas : Refactorize(theta)

LdlSpec == LdlInit /\ [][LdlNext]_ldlVars

-----------------------------------------------------------------------------
(* solve() and the properties.                                             *)

\* solve(): L, then D, then the transpose of L, in the pivot order.
LdlSolve(b) ==
  LET Row(j, t) == symbolic.rows[j][t]
      slots(j) == [t \in DOMAIN numeric.l[j] |-> t]
      Forward(v, j) == FoldLeft(LAMBDA u, t :
        [u EXCEPT ![Row(j, t)] = MinusProduct(@, numeric.l[j][t], u[j])], v, slots(j))
      Backward(v, j) == [v EXCEPT ![j] = FoldLeft(LAMBDA s, t :
        MinusProduct(s, numeric.l[j][t], v[Row(j, t)]), @, slots(j))]
      z == FoldLeft(Forward, [k \in Nodes |-> b[perm[k]]], [j \in Nodes |-> j])
      x == FoldLeft(Backward, [k \in Nodes |-> Over(z[k], numeric.d[k])],
                    [j \in Nodes |-> Order + 1 - j])
  IN [i \in Nodes |-> x[CHOOSE k \in Nodes : perm[k] = i]]

\* check_convexity_dense(): the factors by columns in their own order, until a pivot is
\* negative or an entry is left beside a zero one.
DenseVerdict(q) ==
  LET Left(s, i, j) ==
        FoldLeft(LAMBDA rest, k : MinusProduct(rest, Mul(s.l[k][i], s.l[k][j]), s.d[k]),
                 Whole(q[i][j]), [k \in 1 .. j - 1 |-> k])
      Column(s, j) ==
        LET pivot == Left(s, j, j)
            left == [i \in Nodes |-> IF i > j THEN Left(s, i, j) ELSE Whole(0)]
            flat == \A i \in Nodes : left[i] = Whole(0)
        IN IF ~s.convex \/ Less(pivot, Whole(0)) \/ (pivot = Whole(0) /\ ~flat)
           THEN [s EXCEPT !.convex = FALSE]
           ELSE [s EXCEPT !.d = Append(@, pivot),
                          !.l = Append(@, [i \in Nodes |-> IF flat THEN Whole(0) ELSE Over(left[i], pivot)])]
      start == [convex |-> \A i \in Nodes : q[i][i] >= 0, l |-> <<>>, d |-> <<>>]
  IN IF FoldLeft(Column, start, [j \in Nodes |-> j]).convex THEN "semidefinite" ELSE "indefinite"

\* The neighbours of i in the elimination graph nobody stores: those that a path through
\* eliminated nodes reaches.
Neighbours(i) ==
  LET Adjacent(v, w) == v # w /\ (<<v, w>> \in lower.pattern \/ <<w, v>> \in lower.pattern)
      gone == {perm[k] : k \in DOMAIN perm}
      reach[n \in 0..Order] == IF n = 0 THEN {i}
        ELSE reach[n - 1] \cup {w \in Nodes : \E v \in reach[n - 1] :
               Adjacent(v, w) /\ (v = i \/ v \in gone)}
  IN (reach[Order] \ gone) \ {i}

\* The quotient graph still means the elimination graph - every variable sees through its
\* lists exactly the neighbours elimination gave it, its approximate degree is never below
\* the true one - and the storage counted against the budget is the storage held, so the
\* unsigned count cannot wrap (minimum_degree()).
QuotientGraphFaithful ==
  ldlPhase = "ordering" =>
    LET g == quotient
        Seen(i) == (g.adjacent[i] \cup UNION {g.members[e] : e \in g.elements[i]})
                     \cap (Variables(g) \ {i})
    IN /\ \A i \in Variables(g) : /\ Seen(i) = Neighbours(i)
                                  /\ g.degree[i] >= Cardinality(Neighbours(i))
       /\ g.live = Total(g.adjacent, Nodes) + Total(g.elements, Nodes)
                     + Total(g.members, Nodes)

\* With the analysis of the first iteration and the slots it laid out, every later
\* factorization of the normal equations is accepted and solves its own matrix exactly
\* ("the pattern is the same each time", normal_equations_lower()), the pivots at their
\* floor included; and the ordering it all starts from read a faithful graph.
FactorsTheMatrix ==
  /\ QuotientGraphFaithful
  /\ ldlPhase # "pattern mismatch"
  /\ ldlPhase = "ready" =>
       \A i \in Nodes :
         LET e == [k \in Nodes |-> Whole(IF k = i THEN 1 ELSE 0)]
             x == LdlSolve(e)
         IN \A r \in Nodes :
              AddAll([c \in Nodes |-> Ratio(lower.value[r][c] * x[c][1], x[c][2])]) = e[r]

\* The determinant of the rows and columns in S, by its first row.
Minor(q, S) ==
  LET rows == SetToSortSeq(S, <)
      Sign(T, c) == IF Cardinality({d \in T : d < c}) % 2 = 0 THEN 1 ELSE -1
      det[T \in SUBSET S] ==
        IF T = {} THEN 1
        ELSE LET r == rows[Len(rows) + 1 - Cardinality(T)]
             IN FoldLeft(LAMBDA n, c : n + Sign(T, c) * q[r][c] * det[T \ {c}], 0, SetToSeq(T))
  IN det[S]

\* The convexity verdict is the truth - every principal minor is nonnegative exactly when it
\* says semidefinite - in whatever order the nodes went and however many zero pivots were
\* skipped on the way (check_semidefinite(), and how [[0, 1], [1, 0]] used to pass) - and the
\* dense reference, in the order of the columns, gives the same one.
VerdictIsExact ==
  ldlPhase = "decided" =>
    /\ numeric.verdict = "semidefinite"
         <=> \A S \in SUBSET Nodes : Minor(lower.value, S) >= 0
    /\ numeric.verdict = DenseVerdict(lower.value)
=============================================================================
