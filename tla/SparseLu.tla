------------------------------ MODULE SparseLu ------------------------------
(***************************************************************************)
(* The basis factorization of the simplex engines (la/lu.cpp): Markowitz   *)
(* elimination with its counts and stale row patterns, the report of a     *)
(* rank defect and the repair that uses it, FTRAN and BTRAN in the         *)
(* hyper-sparse and in the reference form, and the two update schemes that *)
(* must never be mixed - the product form's eta file and the               *)
(* Forrest-Tomlin fold.                                                    *)
(*                                                                         *)
(* Numbers are elements of the field of Prime elements.  Every identity    *)
(* the code relies on holds in any field, so an order applied the wrong    *)
(* way round, a factor forgotten or a stale permutation shows here exactly *)
(* as it would in doubles, without a tolerance to hide behind.  What       *)
(* depends on magnitudes is a choice: which admissible pivot Markowitz     *)
(* takes, and whether an update is refused for accuracy.                   *)
(***************************************************************************)
EXTENDS Integers, Sequences, FiniteSets, SequencesExt

CONSTANTS
  Dim,           \* m: rows, basis positions and elimination steps
  Prime,         \* the size of the field standing for the doubles
  Bases,         \* the bases the simplex hands over, as sequences of columns
  Entering,      \* columns that may enter
  MaxEtaCount,   \* kMaxEtaCount
  MaxFactorizations   \* bound: calls of factorize()

Index == 1..Dim
Field == 0..(Prime - 1)
Vectors == [Index -> Field]

ASSUME LuAssumption ==
  /\ Dim \in Nat \ {0} /\ Prime \in Nat \ {0, 1}
  /\ \A b \in Field \ {0} : \E c \in Field : (b * c) % Prime = 1
  /\ \A b \in Bases : b \in [Index -> Vectors]
  /\ Entering \subseteq Vectors
  /\ MaxEtaCount \in Nat \ {0} /\ MaxFactorizations \in Nat \ {0}

VARIABLES
  basis,      \* the matrix the caller believes is factored: position -> column
  scheme,     \* forrest_tomlin_: the scheme update() dispatches to
  phase,      \* "new", "eliminating", "factored", "singular", "stopped"
  work,       \* Workspace, the active submatrix
  factors,    \* pivots, L by step and by row, U by row and by column
  etas,       \* the product form's eta file
  ft,         \* the Forrest-Tomlin copy of U, its permutation and row etas
  defect,     \* dependent_positions_ and uncovered_rows_
  calls       \* factorizations so far

vars == <<basis, scheme, phase, work, factors, etas, ft, defect, calls>>

-----------------------------------------------------------------------------
(* Arithmetic of the field, and vectors over it.                           *)

Quotient(a, b) == (a * (CHOOSE c \in Field : (b * c) % Prime = 1)) % Prime
SumOver(S, f(_)) == FoldLeft(LAMBDA total, i : (total + f(i)) % Prime, 0, SetToSeq(S))
Dot(v, w) == SumOver(Index, LAMBDA i : v[i] * w[i])
\* v - c * w, the update every pass below is made of.
Minus(v, c, w) == [i \in Index |-> (v[i] - c * w[i]) % Prime]
Zero == [i \in Index |-> 0]
Unit(i) == [Zero EXCEPT ![i] = 1]
Transposed(a) == [i \in Index |-> [j \in Index |-> a[j][i]]]
Ascending == [k \in Index |-> k]
Descending == [k \in Index |-> Dim + 1 - k]

-----------------------------------------------------------------------------
(* The two solves.                                                         *)

\* forward_l(): the elimination factors in increasing order.
ForwardL(b) ==
  FoldLeft(LAMBDA v, k : Minus(v, v[factors.row[k]], factors.l[k]), b, Ascending)

\* apply_etas(): the updates, oldest first.
ApplyEtas(b) ==
  FoldLeft(LAMBDA v, eta :
             LET scaled == Quotient(v[eta.position], eta.pivot)
             IN Minus([v EXCEPT ![eta.position] = scaled], scaled, eta.alpha),
           b, etas)

\* apply_etas_transposed(): the updates, newest first, each touching one component.
ApplyEtasTransposed(b) ==
  FoldLeft(LAMBDA v, eta :
             [v EXCEPT ![eta.position] =
                Quotient((@ - Dot(eta.alpha, v)) % Prime, eta.pivot)],
           b, Reverse(etas))

\* The vector by step of a vector by row, and back to the basis positions.
ByPivotRow(b) == [k \in Index |-> b[factors.row[k]]]
ByPivotColumn(b) == [k \in Index |-> b[factors.col[k]]]
OnPivotColumns(z) == [j \in Index |-> z[CHOOSE k \in Index : factors.col[k] = j]]
OnPivotRows(z) == [i \in Index |-> z[CHOOSE k \in Index : factors.row[k] = i]]

\* A triangular pass in push form: each resolved step feeds the ones it appears in.
Push(w, order, diagonal, feeds(_)) ==
  FoldLeft(LAMBDA v, s :
             LET value == Quotient(v[s], diagonal[s])
             IN Minus([v EXCEPT ![s] = value], value, feeds(s)),
           w, order)

\* The back-substitution of solve() walks U by column, decreasing.
BackSubstitute(w) == Push(w, Descending, factors.pivot, LAMBDA k : factors.uc[k])

\* forward_u_transposed() walks U by row, increasing.
ForwardUTransposed(w) == Push(w, Ascending, factors.pivot, LAMBDA k : factors.u[k])

\* apply_transposed_l(): the row-wise L, in decreasing order.
ApplyTransposedL(w) ==
  FoldLeft(LAMBDA v, k : Minus(v, v[k], factors.lr[k]), w, Descending)

\* ft_apply_retas() and its transpose: R^-1 touches one component, R^-T scatters one.
FtApplyRetas(w) ==
  FoldLeft(LAMBDA v, eta : [v EXCEPT ![eta.step] = (@ - Dot(eta.r, v)) % Prime],
           w, ft.retas)
FtApplyRetasTransposed(w) ==
  FoldLeft(LAMBDA v, eta : Minus(v, v[eta.step], eta.r), w, Reverse(ft.retas))

\* ft_back_substitute() and ft_forward_substitute(): U as folded, in the order its
\* permutation gives; ft_col_ is the mirror image of ft_row_.
FtBackSubstitute(w) ==
  Push(w, Reverse(ft.stepAt), ft.diag, LAMBDA s : Transposed(ft.row)[s])
FtForwardSubstitute(w) == Push(w, ft.stepAt, ft.diag, LAMBDA s : ft.row[s])

\* solve(): FTRAN.
Solve(b) ==
  IF ft.active
    THEN OnPivotColumns(FtBackSubstitute(FtApplyRetas(ByPivotRow(ForwardL(b)))))
    ELSE ApplyEtas(OnPivotColumns(BackSubstitute(ByPivotRow(ForwardL(b)))))

\* solve_transpose(): BTRAN.
SolveTranspose(b) ==
  OnPivotRows(ApplyTransposedL(
    IF ft.active
      THEN FtApplyRetasTransposed(FtForwardSubstitute(ByPivotColumn(b)))
      ELSE ForwardUTransposed(ByPivotColumn(ApplyEtasTransposed(b)))))

\* solve_reference(): the back-substitution as a gather over the rows of U.
SolveReference(b) ==
  LET c == ForwardL(b)
      gathered == FoldLeft(LAMBDA v, k :
        [v EXCEPT ![k] = Quotient(
           (c[factors.row[k]] - SumOver(k+1..Dim, LAMBDA s : factors.u[k][s] * v[s])) % Prime,
           factors.pivot[k])], Zero, Descending)
  IN ApplyEtas(OnPivotColumns(gathered))

\* solve_transpose_reference(): the transposed elimination factors as a gather over L.
SolveTransposeReference(b) ==
  FoldLeft(LAMBDA v, k : [v EXCEPT ![factors.row[k]] = (@ - Dot(factors.l[k], v)) % Prime],
           OnPivotRows(ForwardUTransposed(ByPivotColumn(ApplyEtasTransposed(b)))),
           Descending)

-----------------------------------------------------------------------------
(* factorize() and eliminate().                                            *)

NoFactors == [row |-> <<>>, col |-> <<>>, pivot |-> <<>>, l |-> <<>>, u |-> <<>>]
NoFold == [active |-> FALSE, stepAt |-> <<>>, diag |-> <<>>, row |-> <<>>, retas |-> <<>>]
NoDefect == [positions |-> {}, rows |-> {}]

\* Workspace::init() and the load: zeros are not entries.
Loaded(b) ==
  [cols |-> b,
   rowCols |-> [i \in Index |-> {j \in Index : b[j][i] # 0}],
   rowCount |-> [i \in Index |-> Cardinality({j \in Index : b[j][i] # 0})],
   colCount |-> [j \in Index |-> Cardinality({i \in Index : b[j][i] # 0})],
   rows |-> Index, columns |-> Index]

Init ==
  /\ basis \in Bases
  /\ scheme \in BOOLEAN
  /\ phase = "new"
  /\ work = Loaded(basis)
  /\ factors = NoFactors
  /\ etas = <<>>
  /\ ft = NoFold
  /\ defect = NoDefect
  /\ calls = 0

\* factorize() drops everything the last one left, then loads the columns.
Factorize ==
  /\ phase \in {"new", "factored"}
  /\ calls < MaxFactorizations
  /\ calls' = calls + 1
  /\ phase' = "eliminating"
  /\ work' = Loaded(basis)
  /\ factors' = NoFactors
  /\ etas' = <<>>
  /\ ft' = NoFold
  /\ defect' = NoDefect
  /\ UNCHANGED <<basis, scheme>>

ActiveEntry(i, j) == i \in work.rows /\ j \in work.columns /\ work.cols[j][i] # 0

\* The Markowitz search: a column of one entry costs nothing and is always looked at
\* first; past that the budget, the threshold and the order of the lists decide.
Admissible(i, j) ==
  /\ ActiveEntry(i, j)
  /\ (\E c \in work.columns : work.colCount[c] = 1)
       => work.colCount[j] = 1 \/ work.rowCount[i] = 1

\* Mutant: the row pattern is believed, stale entries and all.
TouchedByPattern(i, j) == work.rowCols[i] \cap (work.columns \ {j})

\* The columns a step on row i and column j updates, and which lose an entry: row i's
\* pattern may still name columns whose entry was cancelled, so their storage is asked.
Touched(i, j) == {c \in work.rowCols[i] \cap (work.columns \ {j}) : work.cols[c][i] # 0}

\* One elimination step on row i and column j.
Eliminated(i, j) ==
  LET multiplier == [r \in Index |-> IF r \in work.rows \ {i}
                       THEN Quotient(work.cols[j][r], work.cols[j][i]) ELSE 0]
      touched == Touched(i, j)
      updated == [c \in Index |-> IF c \in touched
                    THEN [Minus(work.cols[c], work.cols[c][i], multiplier) EXCEPT ![i] = 0]
                    ELSE work.cols[c]]
      Filled(r, c) == multiplier[r] # 0 /\ work.cols[c][r] = 0
      Cancelled(r, c) == multiplier[r] # 0 /\ updated[c][r] = 0
      Change(S, T) == Cardinality(S) - Cardinality(T)
  IN [multiplier |-> multiplier,
      u |-> [c \in Index |-> IF c \in touched THEN work.cols[c][i] ELSE 0],
      work |->
        [cols |-> updated,
         rowCols |-> [r \in Index |-> work.rowCols[r] \cup {c \in touched : Filled(r, c)}],
         rowCount |-> [r \in Index |->
            work.rowCount[r] - (IF multiplier[r] # 0 THEN 1 ELSE 0)
              + Change({c \in touched : Filled(r, c)}, {c \in touched : Cancelled(r, c)})],
         colCount |-> [c \in Index |->
            IF c \notin touched THEN work.colCount[c]
            ELSE work.colCount[c] - 1
              + Change({r \in Index : Filled(r, c)}, {r \in Index : Cancelled(r, c)})],
         rows |-> work.rows \ {i}, columns |-> work.columns \ {j}]]

\* A pivot step of eliminate().
EliminatePivot(i, j) ==
  /\ phase = "eliminating"
  /\ Admissible(i, j)
  /\ LET e == Eliminated(i, j)
     IN /\ work' = e.work
        /\ factors' = [row |-> Append(factors.row, i), col |-> Append(factors.col, j),
                       pivot |-> Append(factors.pivot, work.cols[j][i]),
                       l |-> Append(factors.l, e.multiplier), u |-> Append(factors.u, e.u)]
  /\ UNCHANGED <<basis, scheme, phase, etas, ft, defect, calls>>

\* The deadline, asked before every pivot: the factors are unusable and no defect is named.
StoppedEarly ==
  /\ phase = "eliminating" /\ work.rows # {}
  /\ phase' = "stopped"
  /\ UNCHANGED <<basis, scheme, work, factors, etas, ft, defect, calls>>

\* Mutant: a search that ran out of its budget is taken for proof (issue #143).
SingularWithinBudget ==
  /\ phase = "eliminating" /\ work.rows # {}
  /\ \A i, j \in Index : ActiveEntry(i, j) => work.colCount[j] > 1
  /\ phase' = "singular"
  /\ defect' = [positions |-> work.columns, rows |-> work.rows]
  /\ UNCHANGED <<basis, scheme, work, factors, etas, ft, calls>>

\* No entry is left in the active submatrix, budget or not: what is still active is the
\* rank defect, by position and by row.
Singular ==
  /\ phase = "eliminating" /\ work.rows # {}
  /\ \A i, j \in Index : ~ActiveEntry(i, j)
  /\ phase' = "singular"
  /\ defect' = [positions |-> work.columns, rows |-> work.rows]
  /\ UNCHANGED <<basis, scheme, work, factors, etas, ft, calls>>

\* The end of factorize(): U's columns become steps, then build_column_u() and
\* build_row_l() transpose U and L into the forms the solves push along.
Factored ==
  /\ phase = "eliminating" /\ work.rows = {}
  /\ LET u == [k \in Index |-> [s \in Index |-> factors.u[k][factors.col[s]]]]
         lByStep == [k \in Index |-> [s \in Index |-> factors.l[k][factors.row[s]]]]
     IN factors' = [row |-> factors.row, col |-> factors.col, pivot |-> factors.pivot,
                    l |-> factors.l, lr |-> Transposed(lByStep),
                    u |-> u, uc |-> Transposed(u)]
  /\ phase' = "factored"
  /\ UNCHANGED <<basis, scheme, work, etas, ft, defect, calls>>

\* repair_basis(): each dependent position takes the logical of an uncovered row, in the
\* order both lists are in, unless that logical is in the basis already.
Repaired ==
  LET slots == SetToSortSeq(defect.positions, <)
      rows == SetToSortSeq(defect.rows, <)
      Slot(j) == CHOOSE t \in DOMAIN slots : slots[t] = j
      Patched(j) == /\ j \in defect.positions
                    /\ Unit(rows[Slot(j)]) \notin {basis[c] : c \in Index}
  IN [j \in Index |-> IF Patched(j) THEN Unit(rows[Slot(j)]) ELSE basis[j]]

\* The caller repairs a singular basis and factorizes it again.
RepairBasis ==
  /\ phase = "singular"
  /\ defect.positions # {} /\ Cardinality(defect.positions) = Cardinality(defect.rows)
  /\ basis' = Repaired
  /\ phase' = "eliminating"
  /\ work' = Loaded(Repaired)
  /\ factors' = NoFactors
  /\ etas' = <<>>
  /\ ft' = NoFold
  /\ defect' = NoDefect
  /\ UNCHANGED <<scheme, calls>>

-----------------------------------------------------------------------------
(* update(): the entering column replaces a position.                      *)

EtaCount == IF ft.active THEN Len(ft.retas) ELSE Len(etas)
ShouldRefactorize == EtaCount >= MaxEtaCount

\* Mutant: an eta is filed although U already carries Forrest-Tomlin updates.
ProductFormMixed(p, a) ==
  /\ ~scheme
  /\ LET alpha == Solve(a)
     IN /\ alpha[p] # 0
        /\ etas' = Append(etas, [position |-> p, pivot |-> alpha[p],
                                 alpha |-> [alpha EXCEPT ![p] = 0]])
  /\ basis' = [basis EXCEPT ![p] = a]
  /\ ft' = ft

\* The product form: one eta, filed unless U already carries Forrest-Tomlin updates.
ProductForm(p, a) ==
  /\ ~scheme /\ ~ft.active
  /\ LET alpha == Solve(a)
     IN /\ alpha[p] # 0
        /\ etas' = Append(etas, [position |-> p, pivot |-> alpha[p],
                                 alpha |-> [alpha EXCEPT ![p] = 0]])
  /\ basis' = [basis EXCEPT ![p] = a]
  /\ ft' = ft

\* ft_init(): U copied into lists an update may fold fill into, the identity permutation.
FtInit ==
  [active |-> TRUE, stepAt |-> Ascending, diag |-> factors.pivot,
   row |-> factors.u, retas |-> <<>>]

\* ft_btran_unit(): e_s^T U^-1, started at the position of s.
FtBtranUnit(t, s) ==
  LET from == CHOOSE k \in Index : t.stepAt[k] = s
  IN Push(Unit(s), SubSeq(t.stepAt, from, Dim), t.diag, LAMBDA k : t.row[k])

\* What update_forrest_tomlin() works out before its first write: the spike U * work, the
\* row eta and the new diagonal.
Fold(t, p, a) ==
  LET alpha == Solve(a)
      s0 == CHOOSE k \in Index : factors.col[k] = p
      w == ByPivotColumn(alpha)
      spike == [s \in Index |-> (t.diag[s] * w[s] + Dot(t.row[s], w)) % Prime]
      e == FtBtranUnit(t, s0)
      r == [s \in Index |-> IF s = s0 THEN 0 ELSE (-(t.diag[s0] * e[s])) % Prime]
  IN [step |-> s0, alpha |-> alpha[p], spike |-> spike, r |-> r,
      diagonal |-> (spike[s0] - Dot(r, spike)) % Prime]

\* The fold: the old row and column of the step go, the spike becomes its column, the step
\* moves to the last position, and the row eta is filed.
Folded(t, f) ==
  [active |-> TRUE,
   stepAt |-> Append(SelectSeq(t.stepAt, LAMBDA s : s # f.step), f.step),
   diag |-> [t.diag EXCEPT ![f.step] = f.diagonal],
   row |-> [s \in Index |-> IF s = f.step THEN Zero
                            ELSE [t.row[s] EXCEPT ![f.step] = f.spike[s]]],
   retas |-> Append(t.retas, [step |-> f.step, r |-> f.r])]

\* Forrest-Tomlin: refused once an eta is on file.
ForrestTomlin(p, a) ==
  /\ scheme /\ (ft.active \/ etas = <<>>)
  /\ LET t == IF ft.active THEN ft ELSE FtInit
         f == Fold(t, p, a)
     IN /\ f.alpha # 0 /\ f.diagonal # 0
        /\ ft' = Folded(t, f)
  /\ basis' = [basis EXCEPT ![p] = a]
  /\ etas' = etas

\* The simplex asks should_refactorize() once an iteration, so an update finds room.
Update(p, a) ==
  /\ phase = "factored" /\ ~ShouldRefactorize
  /\ ProductForm(p, a) \/ ForrestTomlin(p, a)
  /\ UNCHANGED <<scheme, phase, work, factors, defect, calls>>

\* An update refused - the pivot, the cancellation, the size of the row eta, the wrong
\* scheme - leaves the factors as they were, except that a first Forrest-Tomlin attempt
\* has switched the solves to its own, unfolded, copy of U.
UpdateRefused ==
  /\ phase = "factored" /\ ~ShouldRefactorize
  /\ ft' = IF scheme /\ ~ft.active /\ etas = <<>> THEN FtInit ELSE ft
  /\ UNCHANGED <<basis, scheme, phase, work, factors, etas, defect, calls>>

\* use_forrest_tomlin(): sticky, and callable at any time.
UseForrestTomlin(on) ==
  /\ phase = "factored" /\ on # scheme
  /\ scheme' = on
  /\ UNCHANGED <<basis, phase, work, factors, etas, ft, defect, calls>>

Next ==
  \/ Factorize
  \/ \E i, j \in Index : EliminatePivot(i, j)
  \/ StoppedEarly
  \/ Singular
  \/ Factored
  \/ RepairBasis
  \/ \E p \in Index, a \in Entering : Update(p, a)
  \/ UpdateRefused
  \/ \E on \in BOOLEAN : UseForrestTomlin(on)

Spec == Init /\ [][Next]_vars

-----------------------------------------------------------------------------
(* Properties.                                                             *)

Times(b, z) == [i \in Index |-> SumOver(Index, LAMBDA j : b[j][i] * z[j])]
TimesTransposed(b, z) == [j \in Index |-> Dot(b[j], z)]

\* Whatever was pivoted and however many columns were replaced since, under either scheme
\* and after any switch between them, FTRAN and BTRAN answer for the basis the caller
\* holds now (solve(), solve_transpose()), and so do the reference gathers where they may be
\* called.  All are linear, so unit vectors are enough.
SolvesTheBasis ==
  phase = "factored" =>
    \A i \in Index : /\ Times(basis, Solve(Unit(i))) = Unit(i)
                     /\ TimesTransposed(basis, SolveTranspose(Unit(i))) = Unit(i)
                     /\ ~ft.active =>
                          /\ SolveReference(Unit(i)) = Solve(Unit(i))
                          /\ SolveTransposeReference(Unit(i)) = SolveTranspose(Unit(i))

\* The counts Markowitz reads are those of the entries actually there, and no entry is
\* missing from its row's pattern, whatever filled in or cancelled on the way: a count that
\* drifts writes past the end of the list heads (the asserts of eliminate()).
CountsExact ==
  phase = "eliminating" =>
    /\ \A i \in work.rows :
         work.rowCount[i] = Cardinality({j \in work.columns : work.cols[j][i] # 0})
    /\ \A j \in work.columns :
         work.colCount[j] = Cardinality({i \in work.rows : work.cols[j][i] # 0})
    /\ \A i \in work.rows, j \in work.columns : work.cols[j][i] # 0 => j \in work.rowCols[i]

\* A reported defect is the whole rank defect and nothing else - "not merely whatever was
\* left when the search gave up" - and the repair built on it leaves no kernel: a second
\* factorization of the repaired basis cannot be singular (dependent_positions(),
\* uncovered_rows(), repair_basis()).
Kernel(b) == {z \in Vectors : Times(b, z) = Zero}
RepairIsExact ==
  [][RepairBasis => /\ Cardinality(Kernel(basis)) = Prime ^ Cardinality(defect.positions)
                    /\ Kernel(basis') = {Zero}]_vars
=============================================================================
