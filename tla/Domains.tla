------------------------------ MODULE Domains ------------------------------
(***************************************************************************)
(* Node domains as BranchAndBound keeps them: bounds of the integer        *)
(* columns, changed one at a time, every old bound remembered on a stack   *)
(* so that leave() can restore them (branch_and_bound_node.cpp); and the   *)
(* learned conflicts that act on them (conflict.cpp).                      *)
(***************************************************************************)
EXTENDS Integers, FiniteSets, SequencesExt

CONSTANT Cols  \* the integer columns, numbered from 1 as in integer_columns_

ASSUME ColsAssumption == IsFiniteSet(Cols) /\ Cols = 1 .. Cardinality(Cols)

\* One bound change: x_col <= val, or x_col >= val.  A conflict's literal is the
\* same record.
Change(col, isUpper, val) == [col |-> col, isUpper |-> isUpper, val |-> val]

\* working_'s column bounds and the stack saved_.
Domain(lo, hi) == [lo |-> lo, hi |-> hi, saved |-> <<>>]

BoundOf(d, c) == IF c.isUpper THEN d.hi[c.col] ELSE d.lo[c.col]

SetBound(d, c) ==
  IF c.isUpper THEN [d EXCEPT !.hi[c.col] = c.val] ELSE [d EXCEPT !.lo[c.col] = c.val]

Remember(d, c) == [d EXCEPT !.saved = Append(@, [c EXCEPT !.val = BoundOf(d, c)])]

\* tighten_lower(), tighten_upper(): remember, then write.
Tighten(d, c) == SetBound(Remember(d, c), c)

\* A change that does not loosen the bound it names.
Moves(d, c) == IF c.isUpper THEN c.val < d.hi[c.col] ELSE c.val > d.lo[c.col]

TightenIfMoves(d, c) == IF Moves(d, c) THEN Tighten(d, c) ELSE d

TightenAll(d, changes) == FoldLeft(TightenIfMoves, d, changes)

\* enter(): the chain from the leaf to the root, each change only tightening.
Enter(d, chain) == TightenAll([d EXCEPT !.saved = <<>>], Reverse(chain))

WriteBack(d, saved) == FoldLeft(SetBound, d, saved)

\* Mutant: the stack is undone in the order it was filled.
LeaveForward(d) == [WriteBack(d, d.saved) EXCEPT !.saved = <<>>]

\* leave(): undone newest first, so a column touched twice gets its first bound.
Leave(d) == [WriteBack(d, Reverse(d.saved)) EXCEPT !.saved = <<>>]

\* The probe of strong branching undoes down to where the stack stood before it.
Undo(d, height) ==
  [WriteBack(d, Reverse(SubSeq(d.saved, height + 1, Len(d.saved))))
     EXCEPT !.saved = SubSeq(@, 1, height)]

IsEmpty(d) == \E j \in Cols : d.lo[j] > d.hi[j]

Inside(d, x) == \A j \in Cols : d.lo[j] <= x[j] /\ x[j] <= d.hi[j]

Satisfies(x, c) == IF c.isUpper THEN x[c.col] <= c.val ELSE x[c.col] >= c.val

Meets(x, chain) == \A k \in DOMAIN chain : Satisfies(x, chain[k])

------------------------------------------------------------------------------
(* Conflicts: decisions no feasible assignment satisfies together          *)

Negation(c) ==
  IF c.isUpper THEN Change(c.col, FALSE, c.val + 1) ELSE Change(c.col, TRUE, c.val - 1)

\* literal_holds() and literal_refuted().
Holds(d, c) == IF c.isUpper THEN d.hi[c.col] <= c.val ELSE d.lo[c.col] >= c.val
Refuted(d, c) == IF c.isUpper THEN d.lo[c.col] > c.val ELSE d.hi[c.col] < c.val

Undecided(d, conflict) == {c \in conflict : ~Holds(d, c)}

\* check_conflict(): every literal holds, so the box is infeasible.
Fires(d, conflict) == Undecided(d, conflict) = {}

\* check_conflict(): the literals that must be false because the others hold.
Implied(d, conflict) ==
  {c \in Undecided(d, conflict) : ~Refuted(d, c) /\ Undecided(d, conflict) = {c}}

\* propagate_conflicts(): each conflict in turn, until one empties the box.
\* "dead" says how: by a conflict that fires, or by the bound one implies.
Visit(s, conflict) ==
  IF s.dead # "no" THEN s
  ELSE IF Fires(s.dom, conflict) THEN [s EXCEPT !.dead = "conflict"]
  ELSE IF Implied(s.dom, conflict) = {} THEN s
  ELSE LET literal == CHOOSE c \in Implied(s.dom, conflict) : TRUE
           after == TightenIfMoves(s.dom, Negation(literal))
       IN  [dom |-> after, dead |-> IF IsEmpty(after) THEN "bound" ELSE "no"]

PropagateConflicts(d, conflicts, dead) == FoldLeft(Visit, [dom |-> d, dead |-> dead], conflicts)

\* canonical(): the tightest change of each column and direction.
Canonical(chain) ==
  {c \in ToSet(chain) :
     \A e \in ToSet(chain) :
        e.col = c.col /\ e.isUpper = c.isUpper =>
          IF c.isUpper THEN c.val <= e.val ELSE c.val >= e.val}

------------------------------------------------------------------------------
(* split_integral_node(): the node minus the assignment x, in disjoint     *)
(* pieces; each piece is a chain that extends the node's.                  *)

FreeColumns(d) == {j \in Cols : d.hi[j] > d.lo[j]}

\* The two sides of column j, of which those outside the box are not created.
Below(d, fixed, j, v) ==
  IF v - 1 >= d.lo[j] THEN <<Append(fixed, Change(j, TRUE, v - 1))>> ELSE <<>>
Above(d, fixed, j, v) ==
  IF v + 1 <= d.hi[j] THEN <<Append(fixed, Change(j, FALSE, v + 1))>> ELSE <<>>

\* One column of the loop; `fixed` is the tail of the links that fix those before.
Split(d, x, s, j) ==
  IF j \notin FreeColumns(d) THEN s
  ELSE [fixed |-> s.fixed \o <<Change(j, FALSE, x[j]), Change(j, TRUE, x[j])>>,
        pieces |-> s.pieces \o Below(d, s.fixed, j, x[j]) \o Above(d, s.fixed, j, x[j])]

SplitAll(d, x, s, cols) == FoldLeft(LAMBDA t, j : Split(d, x, t, j), s, cols)

Pieces(d, chain, x) ==
  SplitAll(d, x, [fixed |-> chain, pieces |-> <<>>], [j \in Cols |-> j]).pieces
==============================================================================
