------------------------------ MODULE Presolve ------------------------------
(***************************************************************************)
(* presolve() (src/presolve/presolve.cpp): passes over the columns and     *)
(* then the rows, each visit applying the first reduction that fits and    *)
(* pushing its record, until a pass changes nothing; then compaction.      *)
(* Postsolve replays the records.                                          *)
(*                                                                         *)
(* The model and its working copy are exact (LinearModel), so the code's   *)
(* tolerances are zero here.                                               *)
(***************************************************************************)
EXTENDS LinearModel, Sequences

CONSTANTS Models,    \* the models explored
          MaxPasses  \* kMaxPasses

ASSUME PresolveAssumption ==
  /\ MaxPasses \in Nat \ {0}
  /\ \A m \in Models : Cols(m) \subseteq Nat /\ IsFiniteSet(Cols(m)) /\ IsFiniteSet(Rows(m))

VARIABLES
  model,    \* the caller's model
  work,     \* the Workspace
  records,  \* the stack of reductions
  pc,       \* "columns", "rows", "infeasible", "reduced", and Postsolve's stages
  at,       \* the column or row the pass is at
  passes,   \* passes begun
  changed   \* has this pass changed anything?

presolveVars == <<model, work, records, pc, at, passes, changed>>

-----------------------------------------------------------------------------
\* The workspace

\* coef holds work.rows, fill-in included; pattern its entries, a cancelled one included.
Workspace(m) ==
  [lo |-> m.lo, up |-> m.up, rl |-> m.rl, ru |-> m.ru, cost |-> m.cost, offset |-> m.offset,
   coef |-> m.coef, pattern |-> [r \in Rows(m) |-> {c \in Cols(m) : m.coef[r][c] # 0}],
   cols |-> Cols(m), rows |-> Rows(m), doubleton |-> {}, singleton |-> {}]

\* Columns with an entry in the Hessian are protected from every removal.
Protected == model.quad

LiveIn(w, r) == w.pattern[r] \cap w.cols
RowsOf(w, c) == {r \in w.rows : c \in w.pattern[r]}

Record(kind, index) ==
  [kind |-> kind, index |-> index, value |-> 0, coefficient |-> 0, rl |-> 0, ru |-> 0,
   column |-> 0, rhs |-> 0, partner |-> 0, partnerCoefficient |-> 0, cost |-> 0]

Shift(bound, by) == IF Finite(bound) THEN bound - by ELSE bound

\* Row bounds lose by[r] for every row in `rows`.
ShiftRows(w, rows, by) ==
  [w EXCEPT !.rl = [r \in DOMAIN @ |-> IF r \in rows THEN Shift(@[r], by[r]) ELSE @[r]],
            !.ru = [r \in DOMAIN @ |-> IF r \in rows THEN Shift(@[r], by[r]) ELSE @[r]]]

KillRow(w, r) == [w EXCEPT !.rows = @ \ {r}]
KillColumn(w, c) == [w EXCEPT !.cols = @ \ {c}]

\* Mutant: the coefficient of the original matrix, stale after fill-in.
FoldFixedColumnStale(w, c, value) ==
  KillColumn(ShiftRows(w, RowsOf(w, c), [r \in w.rows |-> model.coef[r][c] * value]), c)

\* fold_fixed_column: with the coefficient fill-in has left, in every live row.
FoldFixedColumn(w, c, value) ==
  KillColumn(ShiftRows(w, RowsOf(w, c), [r \in w.rows |-> w.coef[r][c] * value]), c)

\* activity_bounds: the extreme the sign of each coefficient picks.
ActivityBounds(w, r) ==
  LET low(c) == IF w.coef[r][c] > 0 THEN w.lo[c] ELSE w.up[c]
      high(c) == IF w.coef[r][c] > 0 THEN w.up[c] ELSE w.lo[c]
      live == LiveIn(w, r)
  IN  [lower |-> IF \A c \in live : Finite(low(c))
                 THEN MapThenSumSet(LAMBDA c : w.coef[r][c] * low(c), live) ELSE -Inf,
       upper |-> IF \A c \in live : Finite(high(c))
                 THEN MapThenSumSet(LAMBDA c : w.coef[r][c] * high(c), live) ELSE Inf]

-----------------------------------------------------------------------------
\* Columns

Round(w, c) ==
  IF c \in model.int THEN [w EXCEPT !.lo[c] = RoundUp(@), !.up[c] = RoundDown(@)] ELSE w

\* Mutant: parked by its cost as a minimisation.
ParkedAtUnsigned(w, c) == IF w.cost[c] > 0 THEN w.lo[c] ELSE w.up[c]

\* Where an empty column is parked; an infinite bound proves nothing here.
ParkedAt(w, c) ==
  LET cost == model.sense * w.cost[c]
  IN  CASE cost > 0 -> w.lo[c]
        [] cost < 0 -> w.up[c]
        [] OTHER -> IF Finite(w.lo[c]) THEN w.lo[c] ELSE IF Finite(w.up[c]) THEN w.up[c] ELSE 0

TheRowOf(w, c) == CHOOSE r \in RowsOf(w, c) : TRUE

\* The activity a free column singleton lets its row have: the end its cost prefers.
Target(w, c) ==
  LET r == TheRowOf(w, c)
      rate == model.sense * w.cost[c] * w.coef[r][c]
  IN  CASE rate > 0 -> w.rl[r]
        [] rate < 0 -> w.ru[r]
        [] OTHER -> IF Finite(w.rl[r]) THEN w.rl[r] ELSE IF Finite(w.ru[r]) THEN w.ru[r] ELSE 0

IsFreeSingleton(w, c) ==
  /\ Cardinality(RowsOf(w, c)) = 1
  /\ c \notin Protected \cup model.int
  /\ ~Finite(w.lo[c]) /\ ~Finite(w.up[c])
  /\ w.coef[TheRowOf(w, c)][c] # 0 /\ Finite(Target(w, c))

\* What the visit of a live column does, its bounds already rounded.
ColumnVerdict(w, c) ==
  IF w.lo[c] > w.up[c] THEN "crossed"
  ELSE IF w.lo[c] = w.up[c] /\ c \notin Protected THEN "fixed"
  ELSE IF /\ RowsOf(w, c) = {} /\ c \notin Protected /\ Finite(ParkedAt(w, c))
          /\ c \in model.int => ParkedAt(w, c) % Unit = 0 THEN "empty"
  ELSE IF IsFreeSingleton(w, c) THEN "free" ELSE "kept"

\* x_c leaves: its cost moves to the columns it was solved for, and a constant to the offset.
MoveCost(w, c, r, to, rhs) ==
  [w EXCEPT !.cost = [k \in DOMAIN @ |-> IF k \in to
                        THEN @[k] - Quotient(w.cost[c] * w.coef[r][k], w.coef[r][c]) ELSE @[k]],
            !.offset = @ + Quotient(w.cost[c] * rhs, w.coef[r][c])]

EliminateFree(w, c) ==
  LET r == TheRowOf(w, c)
  IN  KillRow(KillColumn(MoveCost(w, c, r, LiveIn(w, r) \ {c}, Target(w, c)), c), r)

FreeRecord(w, c) ==
  LET r == TheRowOf(w, c)
  IN  [Record("free", r) EXCEPT !.column = c, !.coefficient = w.coef[r][c],
                                !.rhs = Target(w, c), !.cost = w.cost[c]]

\* A parked column's cost is paid by the offset when the model is compacted.
PayFor(w, c, value) == [w EXCEPT !.offset = @ + w.cost[c] * value]

Reduces(record, w) ==
  /\ records' = Append(records, record) /\ work' = w
  /\ changed' = TRUE /\ at' = at + 1
  /\ UNCHANGED <<model, pc, passes>>

AtColumn == pc = "columns" /\ at \in work.cols
Visited == Round(work, at)

FixColumn ==
  /\ AtColumn /\ ColumnVerdict(Visited, at) = "fixed"
  /\ LET v == Visited.lo[at]
     IN  Reduces([Record("fixed", at) EXCEPT !.value = v],
                 FoldFixedColumn(PayFor(Visited, at, v), at, v))

DropEmptyColumn ==
  /\ AtColumn /\ ColumnVerdict(Visited, at) = "empty"
  /\ LET v == ParkedAt(Visited, at)
     IN  Reduces([Record("emptyColumn", at) EXCEPT !.value = v],
                 KillColumn(PayFor(Visited, at, v), at))

EliminateFreeColumn ==
  /\ AtColumn /\ ColumnVerdict(Visited, at) = "free"
  /\ Reduces(FreeRecord(Visited, at), EliminateFree(Visited, at))

KeepColumn ==
  /\ AtColumn /\ ColumnVerdict(Visited, at) = "kept"
  /\ work' = Visited /\ changed' = (changed \/ Visited # work) /\ at' = at + 1
  /\ UNCHANGED <<model, records, pc, passes>>

-----------------------------------------------------------------------------
\* Rows

\* a * x in [rl, ru] as bounds of x.
Implied(w, r, c) ==
  LET a == w.coef[r][c]
      by(bound, none) == IF Finite(bound) THEN Quotient(bound, a) ELSE none
      lo == by(IF a > 0 THEN w.rl[r] ELSE w.ru[r], -Inf)
      up == by(IF a > 0 THEN w.ru[r] ELSE w.rl[r], Inf)
  IN  IF c \in model.int THEN [lo |-> RoundUp(lo), up |-> RoundDown(up)] ELSE [lo |-> lo, up |-> up]

Larger(a, b) == IF a > b THEN a ELSE b
Smaller(a, b) == IF a < b THEN a ELSE b

Tighten(w, c, by) == [w EXCEPT !.lo[c] = Larger(@, by.lo), !.up[c] = Smaller(@, by.up)]

\* Of the two columns of an equation the first continuous one is eliminated.
Pair(w, r) ==
  LET first == Min(LiveIn(w, r))
      second == Max(LiveIn(w, r))
  IN  IF first \in model.int THEN [elim |-> second, keep |-> first]
      ELSE [elim |-> first, keep |-> second]

\* Mutant: a column may enter a second doubleton, or one after a singleton row.
MayPairAgain(w, p) ==
  /\ p.elim \notin model.int
  /\ {p.elim, p.keep} \cap Protected = {}

\* A column enters one doubleton and no singleton row: postsolve prices one row at a time.
MayPair(w, p) ==
  /\ p.elim \notin model.int
  /\ {p.elim, p.keep} \cap (w.doubleton \cup w.singleton \cup Protected) = {}

RowVerdict(w, r) ==
  LET live == LiveIn(w, r)
      b == ActivityBounds(w, r)
  IN  IF live = {} THEN IF w.rl[r] > 0 \/ w.ru[r] < 0 THEN "impossible" ELSE "emptyRow"
      ELSE IF b.lower >= w.rl[r] /\ b.upper <= w.ru[r] THEN "redundant"
      ELSE IF b.upper < w.rl[r] \/ b.lower > w.ru[r] THEN "impossible"
      ELSE IF Cardinality(live) = 1
      THEN IF w.coef[r][Max(live)] = 0 \/ Max(live) \in w.doubleton THEN "kept" ELSE "singleton"
      ELSE IF /\ Cardinality(live) = 2 /\ w.rl[r] = w.ru[r]
              /\ \A c \in live : w.coef[r][c] # 0
              /\ MayPair(w, Pair(w, r)) THEN "doubleton"
      ELSE "kept"

\* b * x_keep = rhs - a * x_elim with x_elim inside its bounds.
ImpliedByPartner(w, r, p) ==
  LET a == w.coef[r][p.elim]
      rhs == w.rl[r]
      end(bound, none) == IF Finite(bound) THEN rhs - a * bound ELSE none
      left == [w EXCEPT !.rl[r] = end(IF a > 0 THEN w.up[p.elim] ELSE w.lo[p.elim], -Inf),
                        !.ru[r] = end(IF a > 0 THEN w.lo[p.elim] ELSE w.up[p.elim], Inf)]
  IN  Implied(left, r, p.keep)

\* The fill-in of x_elim = (rhs - b * x_keep) / a: other rows lose one column and gain, or
\* adjust, a term of the other.
FillIn(w, r, p) ==
  LET others == RowsOf(w, p.elim) \ {r}
      factor == [o \in w.rows |-> Quotient(w.coef[o][p.elim], w.coef[r][p.elim])]
      shifted == ShiftRows(w, others, [o \in w.rows |-> factor[o] * w.rl[r]])
  IN  [shifted EXCEPT
         !.coef = [o \in DOMAIN @ |-> IF o \in others
                     THEN [@[o] EXCEPT ![p.keep] = @ - factor[o] * w.coef[r][p.keep]] ELSE @[o]],
         !.pattern = [o \in DOMAIN @ |-> IF o \in others THEN @[o] \cup {p.keep} ELSE @[o]]]

EliminateDoubleton(w, r, p) ==
  LET tightened == Tighten(w, p.keep, ImpliedByPartner(w, r, p))
      moved == MoveCost(FillIn(tightened, r, p), p.elim, r, {p.keep}, w.rl[r])
  IN  KillRow(KillColumn([moved EXCEPT !.doubleton = @ \cup {p.elim, p.keep}], p.elim), r)

DoubletonRecord(w, r, p) ==
  [Record("doubleton", r) EXCEPT !.column = p.elim, !.coefficient = w.coef[r][p.elim],
     !.partner = p.keep, !.partnerCoefficient = w.coef[r][p.keep], !.rhs = w.rl[r],
     !.cost = w.cost[p.elim]]

AtRow == pc = "rows" /\ at \in work.rows

DropRow ==
  /\ AtRow
  /\ \E kind \in {"emptyRow", "redundant"} :
       RowVerdict(work, at) = kind /\ Reduces(Record(kind, at), KillRow(work, at))

TurnIntoBound ==
  /\ AtRow /\ RowVerdict(work, at) = "singleton"
  /\ LET c == Max(LiveIn(work, at))
         bound == [Tighten(work, c, Implied(work, at, c)) EXCEPT !.singleton = @ \cup {c}]
     IN  Reduces([Record("singleton", at) EXCEPT !.column = c, !.coefficient = work.coef[at][c],
                    !.rl = work.rl[at], !.ru = work.ru[at]],
                 KillRow(bound, at))

SubstituteDoubleton ==
  /\ AtRow /\ RowVerdict(work, at) = "doubleton"
  /\ LET p == Pair(work, at)
     IN  Reduces(DoubletonRecord(work, at, p), EliminateDoubleton(work, at, p))

KeepRow ==
  /\ AtRow /\ RowVerdict(work, at) = "kept"
  /\ at' = at + 1
  /\ UNCHANGED <<model, work, records, pc, passes, changed>>

-----------------------------------------------------------------------------
\* The passes

SkipDead ==
  /\ \/ pc = "columns" /\ at \in Cols(model) \ work.cols
     \/ pc = "rows" /\ at \in Rows(model) \ work.rows
  /\ at' = at + 1
  /\ UNCHANGED <<model, work, records, pc, passes, changed>>

ProveInfeasible ==
  /\ \/ AtColumn /\ ColumnVerdict(Visited, at) = "crossed"
     \/ AtRow /\ RowVerdict(work, at) = "impossible"
  /\ pc' = "infeasible"
  /\ UNCHANGED <<model, work, records, at, passes, changed>>

ToRows ==
  /\ pc = "columns" /\ at \notin Cols(model)
  /\ pc' = "rows" /\ at' = 1
  /\ UNCHANGED <<model, work, records, passes, changed>>

NextPass ==
  /\ pc = "rows" /\ at \notin Rows(model)
  /\ changed /\ passes < MaxPasses
  /\ pc' = "columns" /\ at' = 1 /\ passes' = passes + 1 /\ changed' = FALSE
  /\ UNCHANGED <<model, work, records>>

Compact ==
  /\ pc = "rows" /\ at \notin Rows(model)
  /\ ~changed \/ passes = MaxPasses
  /\ pc' = "reduced"
  /\ UNCHANGED <<model, work, records, at, passes, changed>>

\* The reduced model: what is alive, under its original numbers.
Reduced ==
  [cost |-> [c \in work.cols |-> work.cost[c]], offset |-> work.offset,
   lo |-> [c \in work.cols |-> work.lo[c]], up |-> [c \in work.cols |-> work.up[c]],
   int |-> model.int \cap work.cols, quad |-> model.quad, sense |-> model.sense,
   coef |-> [r \in work.rows |-> [c \in work.cols |->
                                    IF c \in work.pattern[r] THEN work.coef[r][c] ELSE 0]],
   rl |-> [r \in work.rows |-> work.rl[r]], ru |-> [r \in work.rows |-> work.ru[r]]]

PresolveInit ==
  /\ model \in Models /\ work = Workspace(model) /\ records = <<>>
  /\ pc = "columns" /\ at = 1 /\ passes = 1 /\ changed = FALSE

PresolveNext ==
  \/ FixColumn \/ DropEmptyColumn \/ EliminateFreeColumn \/ KeepColumn
  \/ DropRow \/ TurnIntoBound \/ SubstituteDoubleton \/ KeepRow
  \/ SkipDead \/ ProveInfeasible \/ ToRows \/ NextPass \/ Compact
=============================================================================
