---------------------------- MODULE MCTreeSearch ----------------------------
(* Two integer columns, x1 in 0..2 and x2 in 0..1, and four small models on   *)
(* the half grid.                                                             *)
EXTENDS TreeSearch

MCTop == <<2, 1>>

\* An integral point costs a multiple of 2: the step.
MCStep == 2

Grid == [Cols -> 0 .. 4]

AllInside == {at \in Grid : \A j \in Cols : at[j] <= 2 * MCTop[j]}

\* A knapsack: one row leaves the right and the upper half of the box out, and
\* the relaxation's optimum is fractional.
Knapsack ==
  {[at |-> at, cost |-> 12 - 3 * at[1] - 2 * at[2]] :
     at \in {a \in AllInside : a[1] + a[2] <= 3}}

\* Two rows, and a relaxation that may answer with an integral point at once; one
\* assignment has a dearer twin in a continuous column.
Mixed ==
  {[at |-> at, cost |-> 2 + at[1] + at[2]] :
     at \in {a \in AllInside : a[1] + a[2] >= 2 /\ a[1] + 2 * a[2] >= 3}}
    \cup {[at |-> <<2, 2>>, cost |-> 8]}

\* No integral point, and no relaxation says so at once.
Halves == {[at |-> at, cost |-> 4 + at[2]] : at \in {a \in AllInside : a[1] = 1 \/ a[1] = 3}}

\* The dearer side of the root's split is met first: what a continuous column adds
\* is least between the two, and a row needs one of the columns.
Parted ==
  {[at |-> at, cost |-> 8 + Max({-at[1], 3 * at[1] - 4}) - 2 * (at[2] - 1)] :
     at \in {a \in AllInside : a[1] <= 2 /\ a[1] + a[2] >= 2}}

CrashProblems == {Knapsack, Mixed, Halves}

MCProblems == CrashProblems \cup {Parted}

Start(complete, diversity, policy, nodeLimit) ==
  [complete |-> complete, diversity |-> diversity, policy |-> policy, nodeLimit |-> nodeLimit]

MCOptions ==
  {Start(FALSE, FALSE, "hybrid", 3), Start(TRUE, FALSE, "best-bound", -1),
   Start(TRUE, TRUE, "depth-first", -1), Start(FALSE, FALSE, "best-estimate", -1)}

\* A plain search with a limit, and one that fills the pool.
CrashOptions == {Start(FALSE, FALSE, "hybrid", 3), Start(TRUE, FALSE, "best-bound", -1)}

\* pool_gap 2, and the objective is zero at 10: what is accepted loosens below 8.
MCPoolSlack == [v \in 0 .. 99 |-> 2 * Max({2, v - 10, 10 - v})]

\* A relative gap target of 1/3.
MCGapSlack == [v \in 0 .. 99 |-> v \div 3]
==============================================================================
