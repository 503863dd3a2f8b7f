----------------------------- MODULE Postsolve -----------------------------
(***************************************************************************)
(* postsolve() (src/presolve/presolve.cpp): a solution of the reduced      *)
(* model becomes one of the caller's by replaying the records in reverse   *)
(* for the values, then pricing the removed rows in passes to a fixed      *)
(* point, then recomputing the reduced costs presolve could have changed.  *)
(*                                                                         *)
(* The engine between the two hands over any optimal point of the reduced  *)
(* model, with any prices that prove it; for a model with integer columns  *)
(* any feasible point and no prices.                                       *)
(***************************************************************************)
EXTENDS Presolve, SequencesExt

CONSTANTS Values, Prices,  \* what an engine's point and prices are made of
          MaxDualPasses    \* kMaxDualPasses

ASSUME PostsolveAssumption == MaxDualPasses \in Nat \ {0}

VARIABLES
  answer,    \* the engine's Solution of the reduced model
  sol,       \* the Solution being rebuilt: x, y, d and the basis statuses
  folds,     \* what the forward replay of the folds leaves: costs, coefficients, recipients
  idx,       \* position in the records
  dual       \* the dual passes: number, prices before, finalized columns, who made a column basic

vars == <<model, work, records, pc, at, passes, changed, answer, sol, folds, idx, dual>>

None == [x |-> <<>>, y |-> <<>>, d |-> <<>>, cs |-> <<>>, rs |-> <<>>]

-----------------------------------------------------------------------------
\* The engine

\* Where a value sits between its bounds; a basic entry may sit anywhere.
Nonbasic(v, lo, up) ==
  IF lo = up THEN {"fixed"}
  ELSE (IF v = lo THEN {"lower"} ELSE {}) \cup (IF v = up THEN {"upper"} ELSE {})
         \cup (IF ~Finite(lo) /\ ~Finite(up) /\ v = 0 THEN {"free"} ELSE {})

Bases(m, x) ==
  {b \in [cs : [Cols(m) -> {"basic", "lower", "upper", "fixed", "free"}],
          rs : [Rows(m) -> {"basic", "lower", "upper", "fixed", "free"}]] :
     /\ \A c \in Cols(m) : b.cs[c] \in {"basic"} \cup Nonbasic(x[c], m.lo[c], m.up[c])
     /\ \A r \in Rows(m) :
          b.rs[r] \in {"basic"} \cup Nonbasic(Dot(m.coef[r], x, Cols(m)), m.rl[r], m.ru[r])
     /\ Cardinality({c \in Cols(m) : b.cs[c] = "basic"})
          + Cardinality({r \in Rows(m) : b.rs[r] = "basic"}) = Cardinality(Rows(m))}

EngineAnswers(m) ==
  IF m.int # {} \/ model.int # {}
  THEN {[x |-> x, y |-> [r \in Rows(m) |-> 0], d |-> [c \in Cols(m) |-> 0],
         cs |-> [c \in Cols(m) |-> "lower"], rs |-> [r \in Rows(m) |-> "basic"]] :
          x \in {x \in [Cols(m) -> Values] : Feasible(m, x)}}
  ELSE UNION {UNION {{[x |-> x, y |-> y, d |-> [c \in Cols(m) |-> ReducedCost(m, y, c)],
                       cs |-> b.cs, rs |-> b.rs] : b \in Bases(m, x)} :
                y \in {y \in [Rows(m) -> Prices] :
                         Optimal(m, x, y, [c \in Cols(m) |-> ReducedCost(m, y, c)])}} :
         x \in {x \in [Cols(m) -> Values] : Feasible(m, x)}}

SolveReduced ==
  /\ pc = "reduced"
  /\ answer' \in EngineAnswers(Reduced)
  /\ pc' = "scatter"
  /\ UNCHANGED <<model, work, records, at, passes, changed, sol, folds, idx, dual>>

-----------------------------------------------------------------------------
\* What the records say, read forward

Positions == 1 .. Len(records)
IsFold(record) == record.kind \in {"free", "doubleton"}
FoldedRows == {records[p].index : p \in {q \in Positions : IsFold(records[q])}}

\* Position of the record that removed a column or a row, past the end when none did.
ColumnRemovedAt(c) ==
  Min({Len(records) + 1} \cup
      {p \in Positions : \/ records[p].kind \in {"fixed", "emptyColumn"} /\ records[p].index = c
                         \/ IsFold(records[p]) /\ records[p].column = c})
RowRemovedAt(r) ==
  Min({Len(records) + 1} \cup
      {p \in Positions : records[p].kind \notin {"fixed", "emptyColumn"} /\ records[p].index = r})

\* delta: what fill-in added to a coefficient; extra: entries it created.
NoFolds(m) ==
  [cost |-> m.cost, delta |-> [r \in Rows(m) |-> [c \in Cols(m) |-> 0]],
   extra |-> {}, recipients |-> [r \in Rows(m) |-> {}]]

Effective(f, r, c) == model.coef[r][c] + f.delta[r][c]

\* Columns of a row as it was when record p eliminated through it.
LiveAt(f, p, r) ==
  {c \in Cols(model) \ {records[p].column} :
     /\ model.coef[r][c] # 0 \/ <<r, c>> \in f.extra
     /\ ColumnRemovedAt(c) >= p}

FoldOf(f, p) ==
  LET rec == records[p]
      into == IF rec.kind = "free" THEN LiveAt(f, p, rec.index) ELSE {rec.partner}
      share(c) == IF rec.kind = "free" THEN Effective(f, rec.index, c) ELSE rec.partnerCoefficient
      others == IF rec.kind = "free" THEN {}
                ELSE {r \in Rows(model) \ {rec.index} :
                        RowRemovedAt(r) >= p /\ model.coef[r][rec.column] # 0}
  IN  [cost |-> [c \in Cols(model) |-> IF c \in into
                   THEN f.cost[c] - Quotient(rec.cost * share(c), rec.coefficient) ELSE f.cost[c]],
       recipients |-> [f.recipients EXCEPT ![rec.index] = @ \cup into],
       delta |-> [r \in Rows(model) |-> [c \in Cols(model) |->
                    IF r \in others /\ c = rec.partner
                    THEN f.delta[r][c]
                           - Quotient(model.coef[r][rec.column], rec.coefficient) * rec.partnerCoefficient
                    ELSE f.delta[r][c]]],
       extra |-> f.extra \cup {<<r, rec.partner>> : r \in {o \in others : model.coef[o][rec.partner] = 0}}]

Folds == FoldLeft(LAMBDA f, p : IF IsFold(records[p]) THEN FoldOf(f, p) ELSE f,
                  NoFolds(model), [p \in Positions |-> p])

-----------------------------------------------------------------------------
\* Values, in reverse

\* Survivors keep what the engine found; everything else starts at zero.
Scatter ==
  /\ pc = "scatter"
  /\ LET on(f, dom, none) == [k \in dom |-> IF k \in DOMAIN f THEN f[k] ELSE none]
     IN  sol' = [x |-> on(answer.x, Cols(model), 0), y |-> on(answer.y, Rows(model), 0),
                 d |-> on(answer.d, Cols(model), 0), cs |-> on(answer.cs, Cols(model), "unknown"),
                 rs |-> on(answer.rs, Rows(model), "unknown")]
  /\ folds' = Folds
  /\ idx' = Len(records) /\ pc' = "values"
  /\ UNCHANGED <<model, work, records, at, passes, changed, answer, dual>>

AtBound(c, v) == [lower |-> v = model.lo[c], upper |-> v = model.up[c]]
Inside(c, v) == v # model.lo[c] /\ v # model.up[c]

\* Mutant: both the column and its row's logical come back basic.
LogicalAtTargetBasic(record) == "basic"

\* row_logical_at_its_target: no record of a fold carries the row's bounds, so the two it
\* compares are both the default.
LogicalAtTarget(record) ==
  IF record.rl = record.ru THEN "fixed"
  ELSE IF record.rhs - record.rl <= record.ru - record.rhs THEN "lower" ELSE "upper"

RestoreParked(s, rec) ==
  [s EXCEPT !.x[rec.index] = rec.value, !.cs[rec.index] = "fixed"]

RestoreInactive(s, rec) == [s EXCEPT !.y[rec.index] = 0, !.rs[rec.index] = "basic"]

RestoreFree(s, rec, p) ==
  LET rest == MapThenSumSet(LAMBDA c : Effective(folds, rec.index, c) * s.x[c],
                            LiveAt(folds, p, rec.index))
  IN  [s EXCEPT !.x[rec.column] = Quotient(rec.rhs - rest, rec.coefficient),
                !.cs[rec.column] = "basic",
                !.y[rec.index] = 0, !.rs[rec.index] = LogicalAtTarget(rec)]

\* Which of the two columns is the row's basic entry is geometry: a nonbasic partner
\* strictly inside its own bounds means the eliminated column is the one at a bound.
RestoreDoubleton(s, rec) ==
  LET xe == Quotient(rec.rhs - rec.partnerCoefficient * s.x[rec.partner], rec.coefficient)
      atBound == AtBound(rec.column, xe)
      swap == /\ s.cs[rec.partner] # "basic" /\ Inside(rec.partner, s.x[rec.partner])
              /\ atBound.lower \/ atBound.upper
      status == IF ~swap THEN "basic"
                ELSE IF atBound.lower /\ atBound.upper THEN "fixed"
                ELSE IF atBound.lower THEN "lower" ELSE "upper"
  IN  [s EXCEPT !.x[rec.column] = xe, !.y[rec.index] = 0, !.rs[rec.index] = "fixed",
                !.cs[rec.partner] = IF swap THEN "basic" ELSE @, !.cs[rec.column] = status]

Restored(s, p) ==
  LET rec == records[p]
  IN  CASE rec.kind \in {"fixed", "emptyColumn"} -> RestoreParked(s, rec)
        [] rec.kind = "free" -> RestoreFree(s, rec, p)
        [] rec.kind = "doubleton" -> RestoreDoubleton(s, rec)
        [] OTHER -> RestoreInactive(s, rec)

FreshDual(pass) ==
  [pass |-> pass, before |-> sol.y, final |-> {}, engineStatus |-> sol.cs, madeBasic |-> {},
   stage |-> "rows"]

ReplayValue ==
  /\ pc = "values" /\ idx > 0
  /\ sol' = Restored(sol, idx) /\ idx' = idx - 1
  /\ UNCHANGED <<model, work, records, pc, at, passes, changed, answer, folds, dual>>

ToDuals ==
  /\ pc = "values" /\ idx = 0
  /\ IF model.int = {} THEN pc' = "duals" /\ dual' = FreshDual(1) /\ idx' = Len(records)
     ELSE pc' = "done" /\ UNCHANGED <<dual, idx>>
  /\ UNCHANGED <<model, work, records, at, passes, changed, answer, sol, folds>>

-----------------------------------------------------------------------------
\* Prices, in passes

\* Mutant: every folded row is read again.
PriceOfTwice(s, c) ==
  folds.cost[c] - MapThenSumSet(LAMBDA r : Effective(folds, r, c) * s.y[r], Rows(model))

\* reduced_cost_of: a folded row is already in the cost of the columns that received it.
PriceOf(s, c) ==
  LET reads(r) ==
        \/ model.coef[r][c] # 0 /\ ~(r \in FoldedRows /\ c \in folds.recipients[r])
        \/ <<r, c>> \in folds.extra /\ r \notin FoldedRows
  IN  folds.cost[c] - MapThenSumSet(LAMBDA r : Effective(folds, r, c) * s.y[r],
                                    {r \in Rows(model) : reads(r)})

DoubletonColumns ==
  UNION {{records[p].column, records[p].partner} :
           p \in {q \in Positions : records[q].kind = "doubleton"}}

\* A folded row the column has an entry in but never received is not priced yet.
DependsOnFold(c) ==
  \E r \in FoldedRows : model.coef[r][c] # 0 /\ c \notin folds.recipients[r]

\* An inside column needs its price to be zero; one at a bound only an admissible sign.
NeedsPrice(c, v, price) ==
  \/ Inside(c, v)
  \/ v = model.lo[c] /\ v # model.up[c] /\ model.sense * price < 0
  \/ v = model.up[c] /\ v # model.lo[c] /\ model.sense * price > 0

\* process_singleton_row for record p, its own earlier decision undone first.
UndoSingleton(s, p) ==
  [s EXCEPT !.y[records[p].index] = 0, !.rs[records[p].index] = "basic",
            !.cs[records[p].column] = IF p \in dual.madeBasic
                                      THEN dual.engineStatus[records[p].column] ELSE @]

PriceSingleton(p) ==
  LET rec == records[p]
      c == rec.column
      s == UndoSingleton(sol, p)
      d == PriceOf(s, c)
      activity == rec.coefficient * s.x[c]
      low == activity = rec.rl
      high == activity = rec.ru
      side == IF low THEN "lower" ELSE "upper"
      candidate == Quotient(d, rec.coefficient)
      holds == Inside(c, s.x[c]) /\ (low \/ high)
      pays == /\ NeedsPrice(c, s.x[c], d) /\ (low \/ high)
              /\ ~(low /\ ~high /\ model.sense * candidate < 0)
              /\ ~(high /\ ~low /\ model.sense * candidate > 0)
      takesOver == (holds \/ pays) /\ s.cs[c] # "basic"
      settles == pays \/ (c \notin dual.final \cup DoubletonColumns)
  IN  /\ sol' = [s EXCEPT
                   !.y[rec.index] = IF pays THEN candidate ELSE 0,
                   !.rs[rec.index] = IF takesOver THEN side ELSE @,
                   !.cs[c] = IF takesOver THEN "basic" ELSE @,
                   !.d[c] = IF pays THEN 0 ELSE IF settles THEN d ELSE @]
      /\ dual' = [dual EXCEPT
                    !.final = IF settles THEN @ \cup {c} ELSE @,
                    !.madeBasic = IF takesOver THEN @ \cup {p} ELSE @ \ {p}]

\* Y of a doubleton's row when both its columns sit at a bound: each leaves a half-line
\* of admissible prices; the point of their intersection closest to zero.
HalfLine(c, v, zero, slope) ==
  LET rising == model.sense * slope < 0
  IN  IF Inside(c, v) \/ model.lo[c] = model.up[c] THEN [from |-> -Inf, to |-> Inf]
      ELSE IF (v = model.lo[c]) = rising THEN [from |-> zero, to |-> Inf]
      ELSE [from |-> -Inf, to |-> zero]

BothAtBounds(rec, s, de, fromElim, fromKeep) ==
  LET e == HalfLine(rec.column, s.x[rec.column], fromElim, rec.coefficient)
      k == HalfLine(rec.partner, s.x[rec.partner], fromKeep, rec.partnerCoefficient)
      from == Larger(e.from, k.from)
      to == Smaller(e.to, k.to)
  IN  IF from <= to THEN Smaller(Larger(0, from), to)
      ELSE IF NeedsPrice(rec.column, s.x[rec.column], de) THEN fromElim ELSE fromKeep

PriceDoubleton(rec) ==
  LET s == [sol EXCEPT !.y[rec.index] = 0]
      de == PriceOf(s, rec.column)
      dk == PriceOf(s, rec.partner)
      fromElim == Quotient(de, rec.coefficient)
      fromKeep == fromElim + Quotient(dk, rec.partnerCoefficient)
      y == IF Inside(rec.column, s.x[rec.column]) THEN fromElim
           ELSE IF Inside(rec.partner, s.x[rec.partner]) THEN fromKeep
           ELSE BothAtBounds(rec, s, de, fromElim, fromKeep)
  IN  /\ sol' = [s EXCEPT !.y[rec.index] = y,
                   !.d = [@ EXCEPT ![rec.partner] = dk - rec.partnerCoefficient * (y - fromElim),
                                   ![rec.column] = de - rec.coefficient * y]]
      /\ dual' = [dual EXCEPT !.final = @ \cup {rec.column, rec.partner}]

\* A free column, or a doubleton whose partner another row has spoken for.
PriceFold(rec) ==
  LET s == [sol EXCEPT !.y[rec.index] = 0]
      d == PriceOf(s, rec.column)
      pays == NeedsPrice(rec.column, s.x[rec.column], d)
  IN  /\ sol' = IF ~pays THEN [s EXCEPT !.d[rec.column] = d]
                ELSE [s EXCEPT !.y[rec.index] = Quotient(d, rec.coefficient), !.d[rec.column] = 0,
                               !.rs[rec.index] = LogicalAtTarget(rec), !.cs[rec.column] = "basic"]
      /\ dual' = [dual EXCEPT !.final = @ \cup {rec.column}]

\* The three stages of a pass each walk the records in reverse.
InStage(p) ==
  LET rec == records[p]
  IN  CASE dual.stage = "rows" -> rec.kind = "singleton" /\ ~DependsOnFold(rec.column)
        [] dual.stage = "folds" -> IsFold(rec)
        [] OTHER -> rec.kind = "singleton" /\ DependsOnFold(rec.column)

PriceSingletonRow ==
  /\ pc = "duals" /\ idx > 0 /\ InStage(idx) /\ ~IsFold(records[idx])
  /\ PriceSingleton(idx) /\ idx' = idx - 1
  /\ UNCHANGED <<model, work, records, pc, at, passes, changed, answer, folds>>

PriceFoldedRow ==
  /\ pc = "duals" /\ idx > 0 /\ InStage(idx) /\ IsFold(records[idx])
  /\ IF records[idx].kind = "doubleton" /\ records[idx].partner \notin dual.final
     THEN PriceDoubleton(records[idx]) ELSE PriceFold(records[idx])
  /\ idx' = idx - 1
  /\ UNCHANGED <<model, work, records, pc, at, passes, changed, answer, folds>>

SkipRecord ==
  /\ pc = "duals" /\ idx > 0 /\ ~InStage(idx)
  /\ idx' = idx - 1
  /\ UNCHANGED <<model, work, records, pc, at, passes, changed, answer, sol, folds, dual>>

NextStage ==
  /\ pc = "duals" /\ idx = 0 /\ dual.stage # "deferred"
  /\ dual' = [dual EXCEPT !.stage = IF @ = "rows" THEN "folds" ELSE "deferred"]
  /\ idx' = Len(records)
  /\ UNCHANGED <<model, work, records, pc, at, passes, changed, answer, sol, folds>>

EndDualPass ==
  /\ pc = "duals" /\ idx = 0 /\ dual.stage = "deferred"
  /\ IF sol.y = dual.before \/ dual.pass = MaxDualPasses
     THEN pc' = "costs" /\ UNCHANGED <<dual, idx>>
     ELSE /\ dual' = [dual EXCEPT !.pass = @ + 1, !.before = sol.y, !.final = {}, !.stage = "rows"]
          /\ idx' = Len(records) /\ UNCHANGED pc
  /\ UNCHANGED <<model, work, records, at, passes, changed, answer, sol, folds>>

\* Which reduced costs presolve could have changed.
Touched(c) ==
  \/ ColumnRemovedAt(c) <= Len(records)
  \/ \E r \in Rows(model) : /\ RowRemovedAt(r) <= Len(records) /\ model.coef[r][c] # 0
                            /\ r \in FoldedRows \/ sol.y[r] # 0

RecomputeCosts ==
  /\ pc = "costs"
  /\ sol' = [sol EXCEPT !.d = [c \in Cols(model) |->
               IF Touched(c) THEN ReducedCost(model, sol.y, c) ELSE @[c]]]
  /\ pc' = "done"
  /\ UNCHANGED <<model, work, records, at, passes, changed, answer, folds, idx, dual>>

-----------------------------------------------------------------------------

Init ==
  /\ PresolveInit
  /\ answer = None /\ sol = None /\ folds = NoFolds(model) /\ idx = 0
  /\ dual = [pass |-> 0, before |-> <<>>, final |-> {}, engineStatus |-> <<>>,
             madeBasic |-> {}, stage |-> "rows"]

Next ==
  \/ PresolveNext /\ UNCHANGED <<answer, sol, folds, idx, dual>>
  \/ SolveReduced \/ Scatter \/ ReplayValue \/ ToDuals
  \/ PriceSingletonRow \/ PriceFoldedRow \/ SkipRecord \/ NextStage \/ EndDualPass
  \/ RecomputeCosts

Spec == Init /\ [][Next]_vars

-----------------------------------------------------------------------------
\* Properties

\* A point of the reduced model comes back as a feasible point of the caller's, integral
\* where it must be, with the objective the engine saw.
PointRestored ==
  pc = "done" =>
    /\ Feasible(model, sol.x)
    /\ Objective(model, sol.x) = Objective(Reduced, answer.x)

\* An optimal solution of the reduced model comes back optimal: the prices put on the
\* removed rows, together with the engine's, prove it on the caller's model.
CertificateRestored ==
  pc = "done" /\ model.int = {} => Optimal(model, sol.x, sol.y, sol.d)

\* Every restored row adds one basic entry, so the statuses handed back are a basis.
BasisWhole ==
  pc = "done" /\ model.int = {} =>
    Cardinality({c \in Cols(model) : sol.cs[c] = "basic"})
      + Cardinality({r \in Rows(model) : sol.rs[r] = "basic"}) = Cardinality(Rows(model))

Best(m) == LET points == {x \in [Cols(m) -> Values] : Feasible(m, x)}
           IN  IF points = {} THEN Inf
               ELSE Min({m.sense * Objective(m, x) : x \in points})

Bounded(m) == \A c \in Cols(m) : Finite(m.lo[c]) /\ Finite(m.up[c])

\* The reduced model has the optimum of the caller's, and a model declared infeasible has
\* no point at all.
SameOptimum ==
  /\ pc = "infeasible" => Best(model) = Inf
  /\ pc = "reduced" /\ Bounded(model) => Best(Reduced) = Best(model)

=============================================================================
