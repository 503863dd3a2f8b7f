------------------------------ MODULE CutRows ------------------------------
(***************************************************************************)
(* The cut rounds of branch and cut (mip/branch_and_bound_cuts.cpp): a     *)
(* round at the root and rounds at shallow nodes append rows to the one    *)
(* working model, which every later node uses, extend every stored basis,  *)
(* and take everything back when the node LP does not survive; a row that  *)
(* stays slack too long is made free in place.                             *)
(***************************************************************************)
EXTENDS Cuts

CONSTANTS Models,           \* the models explored
          Reach,            \* values enumerated are within -Reach .. Reach
          RowsPerRound,     \* tree_cut_rows_per_round
          CutRowAgeLimit,   \* kCutRowAgeLimit
          MaxCutRows,       \* bound: cut rows in the model
          MaxNodes          \* bound: nodes below the root

\* A model whose parts have matching dimensions: a bound of each side per column and per row,
\* a coefficient per row and column, integrality marks of its columns only.
WellFormed(m) ==
  /\ {"coef", "rl", "ru"} \subseteq DOMAIN m
  /\ m.cost \in Seq(Int) /\ m.lo \in [Cols(m) -> Int] /\ m.up \in [Cols(m) -> Int]
  /\ m.rl \in Seq(Int) /\ m.ru \in Seq(Int) /\ Len(m.ru) = Len(m.rl)
  /\ m.coef \in [Rows(m) -> [Cols(m) -> Int]] /\ m.int \subseteq Cols(m)

ASSUME CutRowsAssumption ==
  /\ \A m \in Models : WellFormed(m)
  /\ Reach \in Nat /\ RowsPerRound \in Nat \ {0} /\ CutRowAgeLimit \in Nat \ {0}
  /\ MaxCutRows \in Nat /\ MaxNodes \in Nat

\* For the objective step: infinity is beyond every value and activity there is, as
\* kInfinity is, and the values enumerated end at whole numbers.
ASSUME StepAssumption ==
  /\ Reach % Unit = 0 /\ Reach < Inf
  /\ \A m \in Models :
       /\ m.sense \in {1, -1} /\ m.offset \in Int
       /\ \A x \in [Cols(m) -> -Reach .. Reach], r \in Rows(m) : Finite(Dot(m.coef[r], x, Cols(m)))

VARIABLES
  model,    \* the model the search was started with
  points,   \* history: its feasible points
  rows,     \* the rows of working_
  box,      \* the column bounds of working_: the node's
  ages,     \* cut_row_slack_
  freed,    \* cut_row_free_
  stored,   \* the warm starts of the open nodes
  current,  \* current_warm_, the basis of the last relaxation
  before,   \* pre_cut_model and what else a rollback needs
  pool,     \* pool_cuts_
  nodes,    \* nodes taken
  at        \* "round", "resolve", "age", "branch", "pick", "over"

vars == <<model, points, rows, box, ages, freed, stored, current, before, pool, nodes, at>>

-----------------------------------------------------------------------------
\* Points

Global(m) == [lo |-> m.lo, up |-> m.up]
Grid(c, b) == {v \in -Reach .. Reach : b.lo[c] <= v /\ v <= b.up[c]}
Points(m, b) == {x \in [Cols(m) -> -Reach .. Reach] : \A c \in Cols(m) : x[c] \in Grid(c, b)}

\* The feasible points of the caller's model.
FeasiblePoints(m) == {x \in Points(m, Global(m)) : Feasible(m, x)}

Hull(m) ==
  LET feasible == FeasiblePoints(m)
  IN  [lo |-> [c \in Cols(m) |-> Min({x[c] : x \in feasible})],
       up |-> [c \in Cols(m) |-> Max({x[c] : x \in feasible})]]

\* Points the node LP may return: its rows hold, and an integer column is fractional.
Relaxations ==
  {x \in Points(model, box) :
     /\ \A i \in DOMAIN rows : Holds(rows[i], x)
     /\ \E c \in model.int : ~Whole(x[c])}

\* A basis: how many columns and which rows are basic.
BasicRows(basis) == Cardinality({i \in DOMAIN basis.rows : basis.rows[i]})
SlackRows == Len(rows) - Len(pool)
Bases ==
  {[cols |-> Cardinality({i \in DOMAIN rows : ~status[i]}), rows |-> status] :
     status \in {s \in [DOMAIN rows -> BOOLEAN] : \A i \in 1 .. SlackRows : s[i]}}

\* resize_warm_starts: a row status per row of the model, new rows basic.
Resized(basis, n) ==
  [basis EXCEPT !.rows = [i \in 1 .. n |-> IF i \in DOMAIN @ THEN @[i] ELSE TRUE]]

-----------------------------------------------------------------------------

RowsOf(m) == [r \in DOMAIN m.rl |-> ModelRow(m, r)]

NoBefore == [rows |-> <<>>, pool |-> 0, current |-> [cols |-> 0, rows |-> <<>>]]

Init ==
  /\ model \in Models /\ points = FeasiblePoints(model)
  /\ rows = RowsOf(TightenIntegralRows(model))
  /\ box \in {Global(model), Hull(model)}   \* propagation may have moved the root's bounds
  /\ ages = <<>> /\ freed = <<>> /\ pool = <<>> /\ stored = <<>>
  /\ current = [cols |-> 0, rows |-> [i \in DOMAIN rows |-> TRUE]]
  /\ before = NoBefore
  /\ nodes = 0 /\ at = "round"

AtRoot == nodes = 0

\* Mutant: the node's own bounds, below the root too.
SeparationBoxLocal == box

\* root_cut_round separates under the working bounds, tree_cut_round under the global ones.
SeparationBox == IF AtRoot THEN box ELSE Global(model)

Candidates(x) ==
  LET lo == SeparationBox.lo
      up == SeparationBox.up
      global == Global(model)
  IN  MirCuts(rows, x, lo, up, model.int)
        \cup CliqueCuts(rows, x, global.lo, global.up, model.int)
        \cup ZeroHalfCuts(rows, x, global.lo, global.up, model.int)
        \cup IF AtRoot THEN CoverCuts(rows, lo, up, model.int)
                            \cup GomoryCuts(rows, x, lo, up, model.int)
             ELSE {}

\* Neither a multiple of another cut accepted, nor, below the root, of a pooled one.
Acceptable(accepted) ==
  /\ \A i, j \in DOMAIN accepted : i = j \/ ~Proportional(accepted[i], accepted[j])
  /\ AtRoot \/ \A i \in DOMAIN accepted, j \in DOMAIN pool : ~Proportional(accepted[i], pool[j])

\* append_cut_rows and resize_warm_starts.
AppendCutRows(accepted) ==
  /\ rows' = rows \o accepted /\ pool' = pool \o accepted
  /\ ages' = ages \o [i \in DOMAIN accepted |-> 0]
  /\ freed' = freed \o [i \in DOMAIN accepted |-> FALSE]
  /\ stored' = [k \in DOMAIN stored |-> Resized(stored[k], Len(rows) + Len(accepted))]
  /\ current' = Resized(current, Len(rows) + Len(accepted))

\* What is accepted is appended in the order of a score: any order.
Round ==
  /\ at = "round"
  /\ \E x \in Relaxations :
       \E n \in 1 .. RowsPerRound : \E accepted \in [1 .. n -> Violated(Candidates(x), x)] :
         /\ Len(pool) + n <= MaxCutRows
         /\ Acceptable(accepted)
         /\ AppendCutRows(accepted)
  /\ before' = [rows |-> rows, pool |-> Len(pool), current |-> current]
  /\ at' = "resolve"
  /\ UNCHANGED <<model, points, box, nodes>>

\* No candidate survives the filters, or the round is off at this depth.
NoRound ==
  /\ at = "round" /\ at' = "age"
  /\ UNCHANGED <<model, points, rows, box, ages, freed, stored, current, before, pool, nodes>>

Resolved ==
  /\ at = "resolve" /\ at' = "age"
  /\ current' \in Bases /\ before' = NoBefore
  /\ UNCHANGED <<model, points, rows, box, ages, freed, stored, pool, nodes>>

\* Mutant: the stored bases keep the rows that were taken back.
RollBackKeepsBases ==
  /\ at = "resolve" /\ at' = "age"
  /\ rows' = before.rows
  /\ pool' = SubSeq(pool, 1, before.pool)
  /\ ages' = SubSeq(ages, 1, before.pool) /\ freed' = SubSeq(freed, 1, before.pool)
  /\ UNCHANGED stored
  /\ current' = before.current /\ before' = NoBefore
  /\ UNCHANGED <<model, points, box, nodes>>

\* The node LP did not end optimal: the model, the pool and the stored bases as they were.
RollBack ==
  /\ at = "resolve" /\ at' = "age"
  /\ rows' = before.rows
  /\ pool' = SubSeq(pool, 1, before.pool)
  /\ ages' = SubSeq(ages, 1, before.pool) /\ freed' = SubSeq(freed, 1, before.pool)
  /\ stored' = [k \in DOMAIN stored |-> Resized(stored[k], Len(before.rows))]
  /\ current' = before.current /\ before' = NoBefore
  /\ UNCHANGED <<model, points, box, nodes>>

Free(row) == [coef |-> row.coef, rl |-> -Inf, ru |-> Inf, den |-> row.den]

\* age_cut_rows: a cut row whose logical was basic in CutRowAgeLimit relaxations in a row.
Age ==
  /\ at = "age" /\ at' = "branch"
  /\ LET first == Len(rows) - Len(pool)
         slack(k) == current.rows[first + k]
         older == [k \in DOMAIN ages |-> IF freed[k] THEN ages[k]
                                         ELSE IF slack(k) THEN ages[k] + 1 ELSE 0]
         out == {k \in DOMAIN ages : ~freed[k] /\ older[k] >= CutRowAgeLimit}
     IN  /\ ages' = older
         /\ freed' = [k \in DOMAIN freed |-> freed[k] \/ k \in out]
         /\ rows' = [i \in DOMAIN rows |-> IF i - first \in out THEN Free(rows[i]) ELSE rows[i]]
  /\ UNCHANGED <<model, points, box, stored, current, before, pool, nodes>>

\* Both children start from the relaxation's basis; a node may also be closed here.
Branch ==
  /\ at = "branch" /\ at' = "pick"
  /\ stored' \in {stored, stored \o <<current, current>>}
  /\ UNCHANGED <<model, points, rows, box, ages, freed, current, before, pool, nodes>>

\* The next open node: other bounds, and the relaxation solved from its stored basis.
Pick ==
  /\ at = "pick" /\ stored # <<>> /\ nodes < MaxNodes
  /\ \E c \in model.int, v \in {w \in -Reach .. Reach : Whole(w)} :
       \/ /\ v >= model.lo[c] /\ v < model.up[c]
          /\ box' = [lo |-> model.lo, up |-> [model.up EXCEPT ![c] = v]]
       \/ /\ v > model.lo[c] /\ v <= model.up[c]
          /\ box' = [lo |-> [model.lo EXCEPT ![c] = v], up |-> model.up]
  /\ current' \in Bases
  /\ stored' = Front(stored)
  /\ nodes' = nodes + 1 /\ at' = "round"
  /\ UNCHANGED <<model, points, rows, ages, freed, before, pool>>

Over ==
  /\ at = "pick" /\ (stored = <<>> \/ nodes = MaxNodes)
  /\ at' = "over"
  /\ UNCHANGED <<model, points, rows, box, ages, freed, stored, current, before, pool, nodes>>

Next == Round \/ NoRound \/ Resolved \/ RollBack \/ Age \/ Branch \/ Pick \/ Over

Spec == Init /\ [][Next]_vars

-----------------------------------------------------------------------------
\* Properties

\* branch_and_bound_cuts.cpp: "Every cut here is a row of working_ ... so it must be valid
\* for the WHOLE tree and not just for the subtree of the node that found it": no row of
\* the working model cuts off a feasible point of the caller's model.
RowsAreGlobal == \A x \in points, i \in DOMAIN rows : Holds(rows[i], x)

\* Every open node's basis fits the model whatever rounds, rollbacks and ageing came since:
\* a status per row, as many basic variables as rows, and the pool lines up with the rows.
BasesFit ==
  /\ Len(pool) = Len(ages) /\ Len(pool) = Len(freed)
  /\ \A k \in DOMAIN pool : rows[Len(rows) - Len(pool) + k].coef = pool[k].coef
  /\ \A k \in DOMAIN stored :
       Len(stored[k].rows) = Len(rows) /\ stored[k].cols + BasicRows(stored[k]) = Len(rows)

\* The search rounds bounds to multiples of the objective step: the best objective of every
\* assignment of the integer columns is one.
StepIsExact ==
  LET step == ObjectiveStep(model)
      value(x) == model.sense * (Objective(model, x) - model.offset)
      same(x, y) == \A c \in model.int : x[c] = y[c]
  IN  step # 0 =>
        \A x \in points : (\A y \in points : same(x, y) => value(x) <= value(y))
                            => value(x) % (step * Unit) = 0
=============================================================================
