-------------------------- MODULE Postsolve_proofs --------------------------
(***************************************************************************)
(* Presolve removes every column and every row once, and postsolve hands   *)
(* back as many basic entries as the caller's model has rows, for any      *)
(* models, engine answers and prices.                                      *)
(***************************************************************************)
EXTENDS Postsolve, FiniteSetTheorems, TLAPS

-----------------------------------------------------------------------------
\* The records and the workspace

ColumnKinds == {"fixed", "emptyColumn", "free", "doubleton"}
RowKinds == {"free", "doubleton", "emptyRow", "redundant", "singleton"}

ColumnOf(rec) == IF IsFold(rec) THEN rec.column ELSE rec.index

WorkIs(w) ==
  w = [lo |-> w.lo, up |-> w.up, rl |-> w.rl, ru |-> w.ru, cost |-> w.cost,
       offset |-> w.offset, coef |-> w.coef, pattern |-> w.pattern, cols |-> w.cols,
       rows |-> w.rows, doubleton |-> w.doubleton, singleton |-> w.singleton]

\* What one record says: what it removed is gone, and a column of a doubleton is in no
\* singleton row.
RecordInv(rec, w, m) ==
  /\ rec.kind \in ColumnKinds \cup RowKinds
  /\ rec.kind \in ColumnKinds => ColumnOf(rec) \in Cols(m) \ w.cols
  /\ rec.kind \in RowKinds => rec.index \in Rows(m) \ w.rows
  /\ rec.kind = "doubleton" =>
       /\ rec.partner \in Cols(m) /\ rec.column # rec.partner
       /\ {rec.column, rec.partner} \subseteq w.doubleton
  /\ rec.kind = "singleton" => rec.column \in Cols(m) \cap w.singleton

\* What two records say of each other: neither removes what the other removed, doubletons
\* share no column, and the partner of one is there when the other comes first.
PairInv(first, second) ==
  /\ first.kind \in ColumnKinds /\ second.kind \in ColumnKinds =>
       ColumnOf(first) # ColumnOf(second)
  /\ first.kind \in RowKinds /\ second.kind \in RowKinds => first.index # second.index
  /\ first.kind = "doubleton" /\ second.kind = "doubleton" =>
       {first.column, first.partner} \cap {second.column, second.partner} = {}
  /\ first.kind \in ColumnKinds /\ second.kind = "doubleton" =>
       ColumnOf(first) # second.partner

RecordsInv ==
  /\ model \in Models /\ WorkIs(work)
  /\ work.cols \subseteq Cols(model) /\ work.rows \subseteq Rows(model)
  /\ work.doubleton \cap work.singleton = {}
  /\ \E S : records \in Seq(S)
  /\ \A p \in Positions : RecordInv(records[p], work, model)
  /\ \A p, q \in Positions : p < q => PairInv(records[p], records[q])
  /\ \A r \in Rows(model) \ work.rows :
       \E p \in Positions : records[p].kind \in RowKinds /\ records[p].index = r

-----------------------------------------------------------------------------
\* The statuses

Status == {"basic", "lower", "upper", "fixed", "free", "unknown"}

SolIs ==
  /\ sol = [x |-> sol.x, y |-> sol.y, d |-> sol.d, cs |-> sol.cs, rs |-> sol.rs]
  /\ sol.cs \in [Cols(model) -> Status] /\ sol.rs \in [Rows(model) -> Status]

BasicIn(D, f) == {k \in D : f[k] = "basic"}
BasicCols(cs) == BasicIn(Cols(model), cs)
BasicRows(rs) == BasicIn(Rows(model), rs)
Basics(s) == Cardinality(BasicCols(s.cs)) + Cardinality(BasicRows(s.rs))

\* The engine's basis is one of the reduced model.
AnswerInv ==
  /\ answer.cs \in [work.cols -> Status] /\ answer.rs \in [work.rows -> Status]
  /\ Cardinality(BasicIn(work.cols, answer.cs)) + Cardinality(BasicIn(work.rows, answer.rs))
       = Cardinality(work.rows)

FreeColumns == {records[p].column : p \in {q \in Positions : records[q].kind = "free"}}

\* What the restored records have left: a fold's row is not basic, a free column is, and so
\* is the column of a doubleton whose partner is one.
FoldInv(p) ==
  /\ IsFold(records[p]) => sol.rs[records[p].index] # "basic"
  /\ records[p].kind = "free" => sol.cs[records[p].column] = "basic"
  /\ records[p].kind = "doubleton" /\ records[p].partner \in FreeColumns =>
       sol.cs[records[p].column] = "basic"

\* Rows still to come back.
Pending == {r \in Rows(model) :
              \E p \in 1 .. idx : records[p].kind \in RowKinds /\ records[p].index = r}

ValuesInv ==
  /\ SolIs /\ idx \in 0 .. Len(records)
  /\ \A p \in 1 .. idx :
       /\ records[p].kind \in ColumnKinds => sol.cs[ColumnOf(records[p])] # "basic"
       /\ records[p].kind \in RowKinds => sol.rs[records[p].index] # "basic"
  /\ \A p \in idx + 1 .. Len(records) :
       FoldInv(p) /\ (records[p].kind = "singleton" => sol.rs[records[p].index] = "basic")
  /\ Basics(sol) + Cardinality(Pending) = Cardinality(Rows(model))

\* A singleton row that took over has made its column basic, which the engine had not, and
\* shares it with no other; every other one is basic itself.
MadeInv ==
  /\ dual = [pass |-> dual.pass, before |-> dual.before, final |-> dual.final,
             engineStatus |-> dual.engineStatus, madeBasic |-> dual.madeBasic,
             stage |-> dual.stage]
  /\ dual.engineStatus \in [Cols(model) -> Status]
  /\ \A c \in Cols(model) : dual.engineStatus[c] = "basic" => sol.cs[c] = "basic"
  /\ \A p \in Positions : records[p].kind = "singleton" =>
       IF p \in dual.madeBasic
       THEN /\ sol.cs[records[p].column] = "basic" /\ sol.rs[records[p].index] # "basic"
            /\ dual.engineStatus[records[p].column] # "basic"
       ELSE sol.rs[records[p].index] = "basic"
  /\ \A p, q \in Positions :
       /\ records[p].kind = "singleton" /\ records[q].kind = "singleton"
       /\ p \in dual.madeBasic /\ q \in dual.madeBasic
       /\ records[p].column = records[q].column
       => p = q

\* A partner that is priced before its doubleton is a free column.
FinalInv ==
  dual.stage # "deferred" =>
    \A q \in Positions :
      /\ records[q].kind = "doubleton" /\ (dual.stage = "rows" \/ q <= idx)
      /\ records[q].partner \in dual.final
      => records[q].partner \in FreeColumns

DualsInv ==
  /\ SolIs /\ idx \in 0 .. Len(records) /\ MadeInv /\ FinalInv
  /\ dual.stage \in {"rows", "folds", "deferred"}
  /\ \A p \in Positions : FoldInv(p)
  /\ \A p \in Positions : records[p].kind = "free" =>
       dual.engineStatus[records[p].column] = "basic"
  /\ Basics(sol) = Cardinality(Rows(model))

StatusInv ==
  model.int = {} =>
    /\ pc = "scatter" => AnswerInv
    /\ pc = "values" => ValuesInv
    /\ pc = "duals" => DualsInv
    /\ pc \in {"costs", "done"} => SolIs /\ Basics(sol) = Cardinality(Rows(model))

IInv == RecordsInv /\ StatusInv

-----------------------------------------------------------------------------
\* Sequences and the workspace

\* A record longer.
LEMMA AppendIs ==
  ASSUME NEW s, \E S : s \in Seq(S), NEW e
  PROVE  /\ \E S : Append(s, e) \in Seq(S)
         /\ Len(s) \in Nat /\ Len(Append(s, e)) = Len(s) + 1
         /\ \A p \in 1 .. Len(s) : Append(s, e)[p] = s[p]
         /\ Append(s, e)[Len(s) + 1] = e
<1>1. PICK S : s \in Seq(S)
  OBVIOUS
<1> DEFINE T == S \cup {e}
<1>2. s \in Seq(T) /\ e \in T
  BY <1>1
<1> HIDE DEF T
<1>3. Append(s, e) \in Seq(T)
  BY <1>2
<1>4. \E U : Append(s, e) \in Seq(U)
  BY <1>3, Zenon
<1>5. /\ Len(s) \in Nat /\ Len(Append(s, e)) = Len(s) + 1
      /\ \A p \in 1 .. Len(s) : Append(s, e)[p] = s[p]
      /\ Append(s, e)[Len(s) + 1] = e
  BY <1>2
<1> QED BY <1>4, <1>5, Zenon

\* What became of the columns and rows of a workspace, and of its two marks.
Became(v, w, cols, rows, doubled, single) ==
  /\ WorkIs(v)
  /\ v.cols = w.cols \ cols /\ v.rows = w.rows \ rows
  /\ v.doubleton = w.doubleton \cup doubled /\ v.singleton = w.singleton \cup single

Alike(v, w) == Became(v, w, {}, {}, {}, {})

\* What only moves bounds, costs or coefficients.
LEMMA MovesAre ==
  ASSUME NEW w, WorkIs(w)
  PROVE  /\ \A c : Alike(Round(w, c), w)
         /\ \A S, by : Alike(ShiftRows(w, S, by), w)
         /\ \A c, v : Alike(PayFor(w, c, v), w)
         /\ \A c, r, S, v : Alike(MoveCost(w, c, r, S, v), w)
         /\ \A c, by : Alike(Tighten(w, c, by), w)
<1>1. \A c : Alike(Round(w, c), w)
  BY DEF WorkIs, Became, Alike, Round
<1>2. \A S, by : Alike(ShiftRows(w, S, by), w)
  <2> SUFFICES ASSUME NEW S, NEW by PROVE Alike(ShiftRows(w, S, by), w)
    OBVIOUS
  <2>1. \E a, b : ShiftRows(w, S, by) = [w EXCEPT !.rl = a, !.ru = b]
    BY Zenon DEF ShiftRows
  <2> QED BY <2>1 DEF WorkIs, Became, Alike
<1>3. \A c, v : Alike(PayFor(w, c, v), w)
  BY DEF WorkIs, Became, Alike, PayFor
<1>4. \A c, r, S, v : Alike(MoveCost(w, c, r, S, v), w)
  <2> SUFFICES ASSUME NEW c, NEW r, NEW S, NEW v PROVE Alike(MoveCost(w, c, r, S, v), w)
    OBVIOUS
  <2>1. \E a, b : MoveCost(w, c, r, S, v) = [w EXCEPT !.cost = a, !.offset = b]
    BY Zenon DEF MoveCost
  <2> QED BY <2>1 DEF WorkIs, Became, Alike
<1>5. \A c, by : Alike(Tighten(w, c, by), w)
  <2> SUFFICES ASSUME NEW c, NEW by PROVE Alike(Tighten(w, c, by), w)
    OBVIOUS
  <2>1. \E a, b : Tighten(w, c, by) = [w EXCEPT !.lo = a, !.up = b]
    BY Zenon DEF Tighten
  <2> QED BY <2>1 DEF WorkIs, Became, Alike
<1> QED BY <1>1, <1>2, <1>3, <1>4, <1>5

\* What removes.
LEMMA KillsAre ==
  ASSUME NEW w, WorkIs(w)
  PROVE  /\ \A c : Became(KillColumn(w, c), w, {c}, {}, {}, {})
         /\ \A r : Became(KillRow(w, r), w, {}, {r}, {}, {})
BY DEF WorkIs, Became, KillColumn, KillRow

\* One after the other.
LEMMA BecameOnce ==
  ASSUME NEW u, NEW v, NEW w, NEW C, NEW R, NEW D, NEW S, NEW C2, NEW R2, NEW D2, NEW S2,
         Became(v, w, C, R, D, S), Became(u, v, C2, R2, D2, S2)
  PROVE  Became(u, w, C \cup C2, R \cup R2, D \cup D2, S \cup S2)
BY DEF Became

\* A fixed column is folded into its rows.
LEMMA FoldFixedIs ==
  ASSUME NEW w, WorkIs(w), NEW c, NEW v
  PROVE  Became(FoldFixedColumn(w, c, v), w, {c}, {}, {}, {})
<1> DEFINE u == ShiftRows(w, RowsOf(w, c), [r \in w.rows |-> w.coef[r][c] * v])
<1>1. Alike(u, w)
  BY MovesAre
<1> HIDE DEF u
<1>2. WorkIs(u)
  BY <1>1 DEF Alike, Became
<1>3. Became(KillColumn(u, c), u, {c}, {}, {}, {})
  BY <1>2, KillsAre
<1>4. Became(KillColumn(u, c), w, {c}, {}, {}, {})
  BY <1>1, <1>3 DEF Alike, Became
<1> QED BY <1>4 DEF FoldFixedColumn, u

\* A free column goes with its row.
LEMMA EliminateFreeIs ==
  ASSUME NEW w, WorkIs(w), NEW c
  PROVE  Became(EliminateFree(w, c), w, {c}, {TheRowOf(w, c)}, {}, {})
<1> DEFINE r == TheRowOf(w, c)
           u == MoveCost(w, c, r, LiveIn(w, r) \ {c}, Target(w, c))
           v == KillColumn(u, c)
<1>1. Alike(u, w)
  BY MovesAre
<1>2. EliminateFree(w, c) = KillRow(v, r)
  BY DEF EliminateFree
<1> HIDE DEF u, r
<1>3. WorkIs(u)
  BY <1>1 DEF Alike, Became
<1>4. Became(v, u, {c}, {}, {}, {})
  BY <1>3, KillsAre
<1> HIDE DEF v
<1>5. WorkIs(v)
  BY <1>4 DEF Became
<1>6. Became(KillRow(v, r), v, {}, {r}, {}, {})
  BY <1>5, KillsAre
<1>7. Became(KillRow(v, r), w, {c}, {r}, {}, {})
  BY <1>1, <1>4, <1>6 DEF Alike, Became
<1> QED BY <1>2, <1>7 DEF r

\* A doubleton's column goes with its row, and both columns are marked.
LEMMA EliminateDoubletonIs ==
  ASSUME NEW w, WorkIs(w), NEW r, NEW p
  PROVE  Became(EliminateDoubleton(w, r, p), w, {p.elim}, {r}, {p.elim, p.keep}, {})
<1> DEFINE t == Tighten(w, p.keep, ImpliedByPartner(w, r, p))
           f == FillIn(t, r, p)
           m == MoveCost(f, p.elim, r, {p.keep}, w.rl[r])
           d == [m EXCEPT !.doubleton = @ \cup {p.elim, p.keep}]
           k == KillColumn(d, p.elim)
<1>1. EliminateDoubleton(w, r, p) = KillRow(k, r)
  BY DEF EliminateDoubleton
<1>2. Alike(t, w)
  BY MovesAre
<1> HIDE DEF t
<1>3. WorkIs(t)
  BY <1>2 DEF Alike, Became
<1>4. Alike(f, t)
  <2> DEFINE others == RowsOf(t, p.elim) \ {r}
             factor == [o \in t.rows |-> Quotient(t.coef[o][p.elim], t.coef[r][p.elim])]
             shifted == ShiftRows(t, others, [o \in t.rows |-> factor[o] * t.rl[r]])
  <2>1. \E a, b : f = [shifted EXCEPT !.coef = a, !.pattern = b]
    BY Zenon DEF FillIn
  <2>2. Alike(shifted, t)
    BY <1>3, MovesAre
  <2> HIDE DEF others, factor, shifted, f
  <2> QED BY <2>1, <2>2 DEF Alike, Became, WorkIs
<1> HIDE DEF f
<1>5. WorkIs(f)
  BY <1>4 DEF Alike, Became
<1>6. Alike(m, f)
  BY <1>5, MovesAre
<1> HIDE DEF m
<1>7. Became(d, m, {}, {}, {p.elim, p.keep}, {})
  BY <1>6 DEF Alike, Became, WorkIs
<1> HIDE DEF d
<1>8. WorkIs(d)
  BY <1>7 DEF Became
<1>9. Became(k, d, {p.elim}, {}, {}, {})
  BY <1>8, KillsAre
<1> HIDE DEF k
<1>10. WorkIs(k)
  BY <1>9 DEF Became
<1>11. Became(KillRow(k, r), k, {}, {r}, {}, {})
  BY <1>10, KillsAre
<1>12. Became(KillRow(k, r), w, {p.elim}, {r}, {p.elim, p.keep}, {})
  BY <1>2, <1>4, <1>6, <1>7, <1>9, <1>11 DEF Alike, Became
<1> QED BY <1>1, <1>12

-----------------------------------------------------------------------------
\* A reduction

\* A record whose column and row were there, and which leaves the marks right.
LEMMA ReductionKeeps ==
  ASSUME RecordsInv, model' = model, NEW rec, records' = Append(records, rec),
         rec.kind \in ColumnKinds \cup RowKinds,
         NEW C, C = IF rec.kind \in ColumnKinds THEN {ColumnOf(rec)} ELSE {},
         NEW R, R = IF rec.kind \in RowKinds THEN {rec.index} ELSE {},
         NEW D, D = IF rec.kind = "doubleton" THEN {rec.column, rec.partner} ELSE {},
         NEW S, S = IF rec.kind = "singleton" THEN {rec.column} ELSE {},
         C \subseteq work.cols, R \subseteq work.rows,
         rec.kind = "doubleton" =>
           rec.column # rec.partner /\ rec.partner \in work.cols
             /\ D \cap (work.doubleton \cup work.singleton) = {},
         S \subseteq Cols(model) \ work.doubleton,
         Became(work', work, C, R, D, S)
  PROVE  RecordsInv'
<1>1. /\ \E T : records' \in Seq(T)
      /\ Len(records) \in Nat /\ Len(records') = Len(records) + 1
      /\ \A p \in Positions : records'[p] = records[p]
      /\ records'[Len(records) + 1] = rec
  <2>1. \E T : records \in Seq(T)
    BY DEF RecordsInv
  <2>2. /\ \E T : Append(records, rec) \in Seq(T)
        /\ Len(records) \in Nat /\ Len(Append(records, rec)) = Len(records) + 1
        /\ \A p \in 1 .. Len(records) : Append(records, rec)[p] = records[p]
        /\ Append(records, rec)[Len(records) + 1] = rec
    BY <2>1, AppendIs
  <2> QED BY <2>2, Zenon DEF Positions
<1>2. /\ WorkIs(work') /\ work'.cols = work.cols \ C /\ work'.rows = work.rows \ R
      /\ work'.doubleton = work.doubleton \cup D /\ work'.singleton = work.singleton \cup S
  BY DEF Became
<1>3. Positions' = Positions \cup {Len(records) + 1} /\ Len(records) + 1 \notin Positions
  BY <1>1 DEF Positions
<1>4. \A p \in Positions : RecordInv(records[p], work, model)
  BY DEF RecordsInv
<1>5. work.cols \subseteq Cols(model) /\ work.rows \subseteq Rows(model)
  BY DEF RecordsInv
<1>6. ASSUME NEW p \in Positions PROVE RecordInv(records'[p], work', model')
  <2>1. records'[p] = records[p] /\ RecordInv(records[p], work, model)
    BY <1>1, <1>4
  <2> QED BY <1>2, <2>1 DEF RecordInv
<1>7. RecordInv(rec, work', model')
  BY <1>2, <1>5 DEF RecordInv, ColumnOf, IsFold, ColumnKinds, RowKinds
<1>8. \A p \in Positions' : RecordInv(records'[p], work', model')
  <2> SUFFICES ASSUME NEW p \in Positions' PROVE RecordInv(records'[p], work', model')
    OBVIOUS
  <2>1. CASE p \in Positions
    BY <1>6, <2>1
  <2>2. CASE p = Len(records) + 1
    BY <1>1, <1>7, <2>2
  <2> QED BY <1>3, <2>1, <2>2
<1>9. ASSUME NEW p \in Positions PROVE PairInv(records[p], rec)
  <2>1. RecordInv(records[p], work, model)
    BY <1>4
  <2> QED BY <2>1 DEF RecordInv, PairInv, ColumnKinds, RowKinds
<1>10. ASSUME NEW p \in Positions', NEW q \in Positions', p < q
       PROVE  PairInv(records'[p], records'[q])
  <2>1. p \in Positions
    BY <1>1, <1>3, <1>10 DEF Positions
  <2>2. CASE q \in Positions
    <3>1. PairInv(records[p], records[q])
      BY <1>10, <2>1, <2>2 DEF RecordsInv
    <3>2. records'[p] = records[p] /\ records'[q] = records[q]
      BY <1>1, <2>1, <2>2
    <3> QED BY <3>1, <3>2
  <2>3. CASE q = Len(records) + 1
    <3>1. records'[p] = records[p] /\ records'[q] = rec
      BY <1>1, <2>1, <2>3
    <3> QED BY <1>9, <2>1, <3>1
  <2> QED BY <1>3, <2>2, <2>3
<1>11. ASSUME NEW r \in Rows(model) \ work'.rows
       PROVE  \E p \in Positions' : records'[p].kind \in RowKinds /\ records'[p].index = r
  <2>1. CASE r \in R
    BY <1>1, <1>3, <2>1
  <2>2. CASE r \notin R
    <3>1. PICK p \in Positions : records[p].kind \in RowKinds /\ records[p].index = r
      BY <1>2, <2>2 DEF RecordsInv
    <3> QED BY <1>1, <1>3, <3>1
  <2> QED BY <2>1, <2>2
<1>12. work'.doubleton \cap work'.singleton = {}
  <2>1. work.doubleton \cap work.singleton = {} /\ S \cap work.doubleton = {}
    BY DEF RecordsInv
  <2>2. D \cap work.singleton = {} /\ D \cap S = {}
    <3>1. CASE rec.kind = "doubleton"
      BY <3>1
    <3>2. CASE rec.kind # "doubleton"
      BY <3>2
    <3> QED BY <3>1, <3>2
  <2> QED BY <1>2, <2>1, <2>2
<1>13. model' \in Models /\ work'.cols \subseteq Cols(model') /\ work'.rows \subseteq Rows(model')
  BY <1>2, <1>5 DEF RecordsInv
<1>14. \A r \in Rows(model') \ work'.rows :
         \E p \in Positions' : records'[p].kind \in RowKinds /\ records'[p].index = r
  BY <1>11
<1> QED BY <1>1, <1>2, <1>8, <1>10, <1>12, <1>13, <1>14, Zenon DEF RecordsInv

-----------------------------------------------------------------------------
\* The steps of presolve

\* A step that records nothing and removes nothing.
LEMMA NoReductionKeeps ==
  ASSUME RecordsInv, UNCHANGED <<model, records>>, Alike(work', work)
  PROVE  RecordsInv'
<1>1. /\ WorkIs(work') /\ work'.cols = work.cols /\ work'.rows = work.rows
      /\ work'.doubleton = work.doubleton /\ work'.singleton = work.singleton
  BY DEF Alike, Became
<1>2. \A p \in Positions : RecordInv(records[p], work', model)
  BY <1>1 DEF RecordsInv, RecordInv
<1> QED BY <1>1, <1>2 DEF RecordsInv, Positions

\* What a reduction leaves.
ReducesTo(rec, w) == records' = Append(records, rec) /\ work' = w /\ model' = model

\* The column a visit rounds is still what it was but for its bounds.
LEMMA VisitedIs ==
  ASSUME RecordsInv
  PROVE  Alike(Visited, work) /\ WorkIs(Visited) /\ Visited.rows = work.rows
<1>1. Alike(Visited, work)
  BY MovesAre DEF RecordsInv, Visited
<1> QED BY <1>1 DEF Alike, Became

\* Fixed columns and empty ones.
LEMMA ParkedKeeps ==
  ASSUME RecordsInv, at \in work.cols, NEW kind \in {"fixed", "emptyColumn"}, NEW v, NEW w,
         ReducesTo([Record(kind, at) EXCEPT !.value = v], w), Became(w, work, {at}, {}, {}, {})
  PROVE  RecordsInv'
<1> DEFINE rec == [Record(kind, at) EXCEPT !.value = v]
<1>1. /\ rec.kind = kind /\ rec.index = at /\ ~IsFold(rec) /\ ColumnOf(rec) = at
  BY DEF Record, IsFold, ColumnOf
<1>2. records' = Append(records, rec) /\ model' = model /\ work' = w
  BY DEF ReducesTo
<1> HIDE DEF rec
<1>3. rec.kind \in ColumnKinds /\ rec.kind \notin RowKinds
  BY <1>1 DEF ColumnKinds, RowKinds
<1>4. /\ {at} = IF rec.kind \in ColumnKinds THEN {ColumnOf(rec)} ELSE {}
      /\ {} = IF rec.kind \in RowKinds THEN {rec.index} ELSE {}
      /\ {} = IF rec.kind = "doubleton" THEN {rec.column, rec.partner} ELSE {}
      /\ {} = IF rec.kind = "singleton" THEN {rec.column} ELSE {}
  BY <1>1, <1>3
<1>5. Became(work', work, {at}, {}, {}, {})
  BY <1>2
<1> QED BY <1>1, <1>2, <1>3, <1>4, <1>5, ReductionKeeps

LEMMA FixColumnKeeps == RecordsInv /\ FixColumn => RecordsInv'
<1> SUFFICES ASSUME RecordsInv, FixColumn PROVE RecordsInv'
  OBVIOUS
<1> DEFINE v == Visited.lo[at]
           w == FoldFixedColumn(PayFor(Visited, at, v), at, v)
<1>1. at \in work.cols /\ ReducesTo([Record("fixed", at) EXCEPT !.value = v], w)
  BY Zenon DEF FixColumn, AtColumn, Reduces, ReducesTo
<1>2. Alike(Visited, work) /\ WorkIs(Visited)
  BY VisitedIs
<1>3. Alike(PayFor(Visited, at, v), Visited)
  BY <1>2, MovesAre
<1>4. Became(w, PayFor(Visited, at, v), {at}, {}, {}, {})
  BY <1>3, FoldFixedIs DEF Alike, Became
<1> HIDE DEF w, v
<1>5. Became(w, work, {at}, {}, {}, {})
  BY <1>2, <1>3, <1>4 DEF Alike, Became
<1> QED BY <1>1, <1>5, ParkedKeeps

LEMMA DropEmptyColumnKeeps == RecordsInv /\ DropEmptyColumn => RecordsInv'
<1> SUFFICES ASSUME RecordsInv, DropEmptyColumn PROVE RecordsInv'
  OBVIOUS
<1> DEFINE v == ParkedAt(Visited, at)
           w == KillColumn(PayFor(Visited, at, v), at)
<1>1. at \in work.cols /\ ReducesTo([Record("emptyColumn", at) EXCEPT !.value = v], w)
  BY Zenon DEF DropEmptyColumn, AtColumn, Reduces, ReducesTo
<1>2. Alike(Visited, work) /\ WorkIs(Visited)
  BY VisitedIs
<1>3. Alike(PayFor(Visited, at, v), Visited)
  BY <1>2, MovesAre
<1>4. Became(w, PayFor(Visited, at, v), {at}, {}, {}, {})
  BY <1>3, KillsAre DEF Alike, Became
<1> HIDE DEF w, v
<1>5. Became(w, work, {at}, {}, {}, {})
  BY <1>2, <1>3, <1>4 DEF Alike, Became
<1> QED BY <1>1, <1>5, ParkedKeeps

\* A free column's row is a live one.
LEMMA EliminateFreeColumnKeeps == RecordsInv /\ EliminateFreeColumn => RecordsInv'
<1> SUFFICES ASSUME RecordsInv, EliminateFreeColumn PROVE RecordsInv'
  OBVIOUS
<1> DEFINE w == EliminateFree(Visited, at)
           rec == FreeRecord(Visited, at)
           r == TheRowOf(Visited, at)
<1>1. /\ at \in work.cols /\ ColumnVerdict(Visited, at) = "free"
      /\ records' = Append(records, rec) /\ work' = w /\ model' = model
  BY Zenon DEF EliminateFreeColumn, AtColumn, Reduces
<1>2. Alike(Visited, work) /\ WorkIs(Visited) /\ Visited.rows = work.rows
  BY VisitedIs
<1>3. r \in work.rows
  <2>1. IsFreeSingleton(Visited, at)
    BY <1>1 DEF ColumnVerdict
  <2>2. Cardinality(RowsOf(Visited, at)) = 1
    BY <2>1 DEF IsFreeSingleton
  <2>3. RowsOf(Visited, at) # {}
    BY <2>2, FS_EmptySet
  <2>4. r \in RowsOf(Visited, at)
    BY <2>3, Zenon DEF TheRowOf
  <2> QED BY <1>2, <2>4 DEF RowsOf
<1>4. Became(w, Visited, {at}, {r}, {}, {})
  BY <1>2, EliminateFreeIs
<1>5. rec.kind = "free" /\ rec.index = r /\ rec.column = at
  BY DEF FreeRecord, Record
<1> HIDE DEF w, rec, r
<1>6. Became(work', work, {at}, {r}, {}, {})
  BY <1>1, <1>2, <1>4 DEF Alike, Became
<1>7. ColumnOf(rec) = at /\ rec.kind \in ColumnKinds /\ rec.kind \in RowKinds
  BY <1>5 DEF ColumnOf, IsFold, ColumnKinds, RowKinds
<1>8. /\ {at} = IF rec.kind \in ColumnKinds THEN {ColumnOf(rec)} ELSE {}
      /\ {r} = IF rec.kind \in RowKinds THEN {rec.index} ELSE {}
      /\ {} = IF rec.kind = "doubleton" THEN {rec.column, rec.partner} ELSE {}
      /\ {} = IF rec.kind = "singleton" THEN {rec.column} ELSE {}
  BY <1>5, <1>7
<1> QED BY <1>1, <1>3, <1>5, <1>6, <1>7, <1>8, ReductionKeeps

LEMMA DropRowKeeps == RecordsInv /\ DropRow => RecordsInv'
<1> SUFFICES ASSUME RecordsInv, DropRow PROVE RecordsInv'
  OBVIOUS
<1>1. PICK kind \in {"emptyRow", "redundant"} : Reduces(Record(kind, at), KillRow(work, at))
  BY Zenon DEF DropRow
<1> DEFINE rec == Record(kind, at)
<1>2. /\ at \in work.rows /\ model' = model
      /\ records' = Append(records, rec) /\ work' = KillRow(work, at)
  BY <1>1, Zenon DEF DropRow, AtRow, Reduces
<1>3. rec.kind = kind /\ rec.index = at
  BY DEF Record
<1> HIDE DEF rec
<1>4. Became(work', work, {}, {at}, {}, {})
  BY <1>2, KillsAre DEF RecordsInv
<1>5. rec.kind \notin ColumnKinds /\ rec.kind \in RowKinds
  BY <1>3 DEF ColumnKinds, RowKinds
<1>6. /\ {} = IF rec.kind \in ColumnKinds THEN {ColumnOf(rec)} ELSE {}
      /\ {at} = IF rec.kind \in RowKinds THEN {rec.index} ELSE {}
      /\ {} = IF rec.kind = "doubleton" THEN {rec.column, rec.partner} ELSE {}
      /\ {} = IF rec.kind = "singleton" THEN {rec.column} ELSE {}
  BY <1>3, <1>5
<1> QED BY <1>2, <1>3, <1>4, <1>5, <1>6, ReductionKeeps

\* The only element of a set is its largest.
LEMMA OnlyOne ==
  ASSUME NEW S \in SUBSET Int, Cardinality(S) = 1, IsFiniteSet(S)
  PROVE  Max(S) \in S
<1>1. PICK x : S = {x}
  BY FS_Singleton
<1> QED BY <1>1 DEF Max

\* Of two integers one is the smallest and the other the largest.
LEMMA OnlyTwo ==
  ASSUME NEW S \in SUBSET Int, Cardinality(S) = 2, IsFiniteSet(S)
  PROVE  Min(S) \in S /\ Max(S) \in S /\ Min(S) # Max(S)
<1>1. PICK x : x \in S
  <2>1. S # {}
    BY FS_EmptySet
  <2> QED BY <2>1
<1>2. IsFiniteSet(S \ {x}) /\ Cardinality(S \ {x}) = 1
  BY <1>1, FS_RemoveElement
<1>3. PICK y : S \ {x} = {y}
  BY <1>2, FS_Singleton
<1>4. S = {x, y} /\ x # y /\ x \in Int /\ y \in Int
  BY <1>1, <1>3
<1>5. \E m \in S : \A z \in S : m <= z
  BY <1>4
<1>6. \E m \in S : \A z \in S : m >= z
  BY <1>4
<1>7. Min(S) \in S /\ \A z \in S : Min(S) <= z
  BY <1>5 DEF Min
<1>8. Max(S) \in S /\ \A z \in S : Max(S) >= z
  BY <1>6 DEF Max
<1> QED BY <1>4, <1>7, <1>8

\* The live columns of a row are some of the model's.
LEMMA LiveAre ==
  ASSUME RecordsInv, NEW r
  PROVE  /\ LiveIn(work, r) \subseteq work.cols /\ LiveIn(work, r) \in SUBSET Int
         /\ IsFiniteSet(LiveIn(work, r))
<1>1. LiveIn(work, r) \subseteq work.cols
  BY DEF LiveIn
<1>2. work.cols \subseteq Cols(model) /\ Cols(model) \subseteq Nat /\ IsFiniteSet(Cols(model))
  BY PresolveAssumption DEF RecordsInv
<1> QED BY <1>1, <1>2, FS_Subset

\* A singleton row's column is in no doubleton.
LEMMA TurnIntoBoundKeeps == RecordsInv /\ TurnIntoBound => RecordsInv'
<1> SUFFICES ASSUME RecordsInv, TurnIntoBound PROVE RecordsInv'
  OBVIOUS
<1> DEFINE c == Max(LiveIn(work, at))
           t == Tighten(work, c, Implied(work, at, c))
           bound == [t EXCEPT !.singleton = @ \cup {c}]
           rec == [Record("singleton", at) EXCEPT !.column = c, !.coefficient = work.coef[at][c],
                     !.rl = work.rl[at], !.ru = work.ru[at]]
<1>1. /\ at \in work.rows /\ RowVerdict(work, at) = "singleton" /\ model' = model
      /\ records' = Append(records, rec) /\ work' = KillRow(bound, at)
  BY Zenon DEF TurnIntoBound, AtRow, Reduces
<1>2. Cardinality(LiveIn(work, at)) = 1 /\ c \notin work.doubleton
  BY <1>1 DEF RowVerdict
<1>3. c \in work.cols
  BY <1>2, LiveAre, OnlyOne
<1>4. rec.kind = "singleton" /\ rec.index = at /\ rec.column = c
  BY DEF Record
<1>5. Alike(t, work)
  BY MovesAre DEF RecordsInv
<1> HIDE DEF rec, t, c
<1>6. Became(bound, t, {}, {}, {}, {c})
  BY <1>5 DEF Alike, Became, WorkIs
<1> HIDE DEF bound
<1>7. WorkIs(bound)
  BY <1>6 DEF Became
<1>8. Became(work', bound, {}, {at}, {}, {})
  BY <1>1, <1>7, KillsAre
<1>9. Became(work', work, {}, {at}, {}, {c})
  BY <1>5, <1>6, <1>8 DEF Alike, Became
<1>10. rec.kind \notin ColumnKinds /\ rec.kind \in RowKinds
  BY <1>4 DEF ColumnKinds, RowKinds
<1>11. /\ {} = IF rec.kind \in ColumnKinds THEN {ColumnOf(rec)} ELSE {}
       /\ {at} = IF rec.kind \in RowKinds THEN {rec.index} ELSE {}
       /\ {} = IF rec.kind = "doubleton" THEN {rec.column, rec.partner} ELSE {}
       /\ {c} = IF rec.kind = "singleton" THEN {rec.column} ELSE {}
  BY <1>4, <1>10
<1>12. {c} \subseteq Cols(model) \ work.doubleton
  BY <1>2, <1>3 DEF RecordsInv
<1> QED BY <1>1, <1>4, <1>9, <1>10, <1>11, <1>12, ReductionKeeps

\* A doubleton's two columns are live, distinct and in no other record of their kind.
LEMMA SubstituteDoubletonKeeps == RecordsInv /\ SubstituteDoubleton => RecordsInv'
<1> SUFFICES ASSUME RecordsInv, SubstituteDoubleton PROVE RecordsInv'
  OBVIOUS
<1> DEFINE p == Pair(work, at)
           rec == DoubletonRecord(work, at, p)
           w == EliminateDoubleton(work, at, p)
<1>1. /\ at \in work.rows /\ RowVerdict(work, at) = "doubleton" /\ model' = model
      /\ records' = Append(records, rec) /\ work' = w
  BY Zenon DEF SubstituteDoubleton, AtRow, Reduces
<1>2. Cardinality(LiveIn(work, at)) = 2 /\ MayPair(work, p)
  BY <1>1 DEF RowVerdict
<1>3. p.elim \in work.cols /\ p.keep \in work.cols /\ p.elim # p.keep
  <2>1. /\ Min(LiveIn(work, at)) \in work.cols /\ Max(LiveIn(work, at)) \in work.cols
        /\ Min(LiveIn(work, at)) # Max(LiveIn(work, at))
    BY <1>2, LiveAre, OnlyTwo
  <2>2. p \in {[elim |-> Max(LiveIn(work, at)), keep |-> Min(LiveIn(work, at))],
               [elim |-> Min(LiveIn(work, at)), keep |-> Max(LiveIn(work, at))]}
    BY DEF Pair
  <2> HIDE DEF p
  <2> QED BY <2>1, <2>2
<1>4. /\ rec.kind = "doubleton" /\ rec.index = at
      /\ rec.column = p.elim /\ rec.partner = p.keep
  BY DEF DoubletonRecord, Record
<1>5. Became(w, work, {p.elim}, {at}, {p.elim, p.keep}, {})
  BY EliminateDoubletonIs DEF RecordsInv
<1>6. {p.elim, p.keep} \cap (work.doubleton \cup work.singleton) = {}
  BY <1>2 DEF MayPair
<1> HIDE DEF w, rec, p
<1>7. Became(work', work, {p.elim}, {at}, {p.elim, p.keep}, {})
  BY <1>1, <1>5
<1>8. ColumnOf(rec) = p.elim /\ rec.kind \in ColumnKinds /\ rec.kind \in RowKinds
  BY <1>4 DEF ColumnOf, IsFold, ColumnKinds, RowKinds
<1>9. /\ {p.elim} = IF rec.kind \in ColumnKinds THEN {ColumnOf(rec)} ELSE {}
      /\ {at} = IF rec.kind \in RowKinds THEN {rec.index} ELSE {}
      /\ {p.elim, p.keep} = IF rec.kind = "doubleton" THEN {rec.column, rec.partner} ELSE {}
      /\ {} = IF rec.kind = "singleton" THEN {rec.column} ELSE {}
  BY <1>4, <1>8
<1> QED BY <1>1, <1>3, <1>4, <1>6, <1>7, <1>8, <1>9, ReductionKeeps

\* Every step of presolve.
LEMMA PresolveKeeps ==
  RecordsInv /\ PresolveNext =>
    RecordsInv' /\ pc' \in {"columns", "rows", "infeasible", "reduced"}
<1> SUFFICES ASSUME RecordsInv, PresolveNext
             PROVE  RecordsInv' /\ pc' \in {"columns", "rows", "infeasible", "reduced"}
  OBVIOUS
<1>1. CASE FixColumn \/ DropEmptyColumn \/ EliminateFreeColumn
  <2>1. pc' = "columns"
    BY <1>1, Zenon DEF FixColumn, DropEmptyColumn, EliminateFreeColumn, AtColumn, Reduces
  <2> QED BY <1>1, <2>1, FixColumnKeeps, DropEmptyColumnKeeps, EliminateFreeColumnKeeps
<1>2. CASE DropRow \/ TurnIntoBound \/ SubstituteDoubleton
  <2>1. pc' = "rows"
    BY <1>2, Zenon DEF DropRow, TurnIntoBound, SubstituteDoubleton, AtRow, Reduces
  <2> QED BY <1>2, <2>1, DropRowKeeps, TurnIntoBoundKeeps, SubstituteDoubletonKeeps
<1>3. CASE KeepColumn
  <2>1. pc' = "columns" /\ UNCHANGED <<model, records>> /\ work' = Visited
    BY <1>3, Zenon DEF KeepColumn, AtColumn
  <2> QED BY <2>1, VisitedIs, NoReductionKeeps
<1>4. CASE KeepRow \/ SkipDead \/ ProveInfeasible \/ ToRows \/ NextPass \/ Compact
  <2>1. /\ UNCHANGED <<model, records, work>>
        /\ pc' \in {"columns", "rows", "infeasible", "reduced"}
    BY <1>4 DEF KeepRow, SkipDead, ProveInfeasible, ToRows, NextPass, Compact, AtRow, AtColumn
  <2>2. Alike(work', work)
    BY <2>1 DEF RecordsInv, Alike, Became
  <2> QED BY <2>1, <2>2, NoReductionKeeps
<1> QED BY <1>1, <1>2, <1>3, <1>4, Zenon DEF PresolveNext

-----------------------------------------------------------------------------
\* Counting basic entries

One(status) == IF status = "basic" THEN 1 ELSE 0

\* The model is finite.
LEMMA FiniteModel ==
  RecordsInv =>
    /\ IsFiniteSet(Cols(model)) /\ IsFiniteSet(Rows(model))
    /\ \A S \in SUBSET Cols(model) : IsFiniteSet(S) /\ Cardinality(S) \in Nat
    /\ \A S \in SUBSET Rows(model) : IsFiniteSet(S) /\ Cardinality(S) \in Nat
BY PresolveAssumption, FS_Subset, FS_CardinalityType DEF RecordsInv

\* One status set.
With(f, x, v) == [f EXCEPT ![x] = v]

LEMMA SetOne ==
  ASSUME NEW D, IsFiniteSet(D), NEW f \in [D -> Status], NEW x \in D, NEW v
  PROVE  /\ Cardinality(BasicIn(D, With(f, x, v))) = Cardinality(BasicIn(D, f)) + One(v) - One(f[x])
         /\ Cardinality(BasicIn(D, f)) \in Nat
<1> DEFINE S == BasicIn(D, f)
           T == BasicIn(D, With(f, x, v))
<1>1. IsFiniteSet(S) /\ IsFiniteSet(T)
  BY FS_Subset DEF BasicIn
<1>2. T = IF v = "basic" THEN S \cup {x} ELSE S \ {x}
  BY DEF BasicIn, With
<1>3. x \in S <=> f[x] = "basic"
  BY DEF BasicIn
<1> HIDE DEF S, T
<1>4. Cardinality(S) \in Nat
  BY <1>1, FS_CardinalityType
<1>5. Cardinality(S \cup {x}) = IF x \in S THEN Cardinality(S) ELSE Cardinality(S) + 1
  BY <1>1, FS_AddElement
<1>6. Cardinality(S \ {x}) = IF x \in S THEN Cardinality(S) - 1 ELSE Cardinality(S)
  BY <1>1, FS_RemoveElement
<1>7. Cardinality(T) = Cardinality(S) + One(v) - One(f[x])
  BY <1>2, <1>3, <1>4, <1>5, <1>6 DEF One
<1> QED BY <1>4, <1>7 DEF S, T

\* The same of the statuses of columns and of rows.
LEMMA SetColumn ==
  ASSUME RecordsInv, NEW f \in [Cols(model) -> Status], NEW c \in Cols(model), NEW v \in Status
  PROVE  /\ Cardinality(BasicCols(With(f, c, v))) = Cardinality(BasicCols(f)) + One(v) - One(f[c])
         /\ Cardinality(BasicCols(f)) \in Nat
         /\ With(f, c, v) \in [Cols(model) -> Status]
<1>1. With(f, c, v) \in [Cols(model) -> Status]
  BY DEF With
<1> QED BY <1>1, FiniteModel, SetOne DEF BasicCols

LEMMA SetRow ==
  ASSUME RecordsInv, NEW f \in [Rows(model) -> Status], NEW r \in Rows(model), NEW v \in Status
  PROVE  /\ Cardinality(BasicRows(With(f, r, v))) = Cardinality(BasicRows(f)) + One(v) - One(f[r])
         /\ Cardinality(BasicRows(f)) \in Nat
         /\ With(f, r, v) \in [Rows(model) -> Status]
<1>1. With(f, r, v) \in [Rows(model) -> Status]
  BY DEF With
<1> QED BY <1>1, FiniteModel, SetOne DEF BasicRows

\* What both counts are.
LEMMA CountsAre ==
  ASSUME RecordsInv, SolIs
  PROVE  Cardinality(BasicCols(sol.cs)) \in Nat /\ Cardinality(BasicRows(sol.rs)) \in Nat
BY FiniteModel DEF BasicCols, BasicRows, BasicIn

-----------------------------------------------------------------------------
\* The engine and the scatter

\* The engine hands over a basis of the reduced model.
LEMMA SolveReducedGives ==
  ASSUME RecordsInv, SolveReduced, model.int = {}
  PROVE  AnswerInv'
<1> DEFINE m == Reduced
<1>1. answer' \in EngineAnswers(m) /\ work' = work
  BY Zenon DEF SolveReduced
<1>2. m.int = {} /\ Cols(m) = work.cols /\ Rows(m) = work.rows
  BY DEF Reduced, Cols, Rows
<1> HIDE DEF m
<1>3. \E point : \E basis \in Bases(m, point) : answer'.cs = basis.cs /\ answer'.rs = basis.rs
  <2> DEFINE given(x, y, b) == [x |-> x, y |-> y, d |-> [c \in Cols(m) |-> ReducedCost(m, y, c)],
                                cs |-> b.cs, rs |-> b.rs]
             prices(x) == {y \in [Rows(m) -> Prices] :
                             Optimal(m, x, y, [c \in Cols(m) |-> ReducedCost(m, y, c)])}
             points == {x \in [Cols(m) -> Values] : Feasible(m, x)}
  <2>1. EngineAnswers(m)
          = UNION {UNION {{given(x, y, b) : b \in Bases(m, x)} : y \in prices(x)} : x \in points}
    BY <1>2, Zenon DEF EngineAnswers
  <2> HIDE DEF given, prices, points
  <2>2. PICK point \in points :
          answer' \in UNION {{given(point, y, b) : b \in Bases(m, point)} : y \in prices(point)}
    BY <1>1, <2>1
  <2>3. PICK price \in prices(point) : answer' \in {given(point, price, b) : b \in Bases(m, point)}
    BY <2>2
  <2>4. PICK basis \in Bases(m, point) : answer' = given(point, price, basis)
    BY <2>3
  <2>5. answer'.cs = basis.cs /\ answer'.rs = basis.rs
    BY <2>4 DEF given
  <2> QED BY <2>5
<1>4. PICK point : \E basis \in Bases(m, point) : answer'.cs = basis.cs /\ answer'.rs = basis.rs
  BY <1>3
<1>5. PICK basis \in Bases(m, point) : answer'.cs = basis.cs /\ answer'.rs = basis.rs
  BY <1>4
<1>6. /\ basis.cs \in [Cols(m) -> {"basic", "lower", "upper", "fixed", "free"}]
      /\ basis.rs \in [Rows(m) -> {"basic", "lower", "upper", "fixed", "free"}]
      /\ Cardinality({c \in Cols(m) : basis.cs[c] = "basic"})
           + Cardinality({r \in Rows(m) : basis.rs[r] = "basic"}) = Cardinality(Rows(m))
  BY <1>5 DEF Bases
<1> QED BY <1>1, <1>2, <1>5, <1>6 DEF AnswerInv, Status, BasicIn

\* Survivors carry the engine's basis; every removed row is to come back.
LEMMA ScatterGives ==
  ASSUME RecordsInv, AnswerInv, Scatter
  PROVE  ValuesInv'
<1>1. /\ idx' = Len(records) /\ UNCHANGED <<model, work, records>>
      /\ sol' = [x |-> sol'.x, y |-> sol'.y, d |-> sol'.d, cs |-> sol'.cs, rs |-> sol'.rs]
      /\ sol'.cs = [c \in Cols(model) |->
                      IF c \in DOMAIN answer.cs THEN answer.cs[c] ELSE "unknown"]
      /\ sol'.rs = [r \in Rows(model) |->
                      IF r \in DOMAIN answer.rs THEN answer.rs[r] ELSE "unknown"]
  BY DEF Scatter
<1>2. /\ DOMAIN answer.cs = work.cols /\ DOMAIN answer.rs = work.rows
      /\ work.cols \subseteq Cols(model) /\ work.rows \subseteq Rows(model)
  BY DEF AnswerInv, RecordsInv
<1>3. /\ sol'.cs \in [Cols(model) -> Status] /\ sol'.rs \in [Rows(model) -> Status]
      /\ \A c \in Cols(model) \ work.cols : sol'.cs[c] = "unknown"
      /\ \A r \in Rows(model) \ work.rows : sol'.rs[r] = "unknown"
      /\ \A c \in work.cols : sol'.cs[c] = answer.cs[c]
      /\ \A r \in work.rows : sol'.rs[r] = answer.rs[r]
  BY <1>1, <1>2 DEF AnswerInv, Status
<1>4. Len(records) \in Nat
  BY DEF RecordsInv
<1>5. SolIs' /\ idx' \in 0 .. Len(records')
  BY <1>1, <1>3, <1>4 DEF SolIs
<1>6. ASSUME NEW p \in 1 .. idx'
      PROVE  /\ records'[p].kind \in ColumnKinds => sol'.cs[ColumnOf(records'[p])] # "basic"
             /\ records'[p].kind \in RowKinds => sol'.rs[records'[p].index] # "basic"
  <2>1. RecordInv(records[p], work, model)
    BY <1>1, <1>6 DEF RecordsInv, Positions
  <2> QED BY <1>1, <1>3, <2>1 DEF RecordInv
<1>7. \A p \in idx' + 1 .. Len(records') :
        FoldInv(p)' /\ (records'[p].kind = "singleton" => sol'.rs[records'[p].index] = "basic")
  BY <1>1, <1>4
<1>8. Basics(sol)' + Cardinality(Pending') = Cardinality(Rows(model'))
  <2>1. /\ BasicCols(sol'.cs) = BasicIn(work.cols, answer.cs)
        /\ BasicRows(sol'.rs) = BasicIn(work.rows, answer.rs)
    BY <1>2, <1>3 DEF BasicCols, BasicRows, BasicIn
  <2>2. Pending' = Rows(model) \ work.rows
    <3>1. Pending' = {r \in Rows(model) : \E p \in Positions :
                        records[p].kind \in RowKinds /\ records[p].index = r}
      BY <1>1 DEF Pending, Positions
    <3>2. \A p \in Positions : records[p].kind \in RowKinds =>
            records[p].index \in Rows(model) \ work.rows
      BY DEF RecordsInv, RecordInv
    <3>3. \A r \in Rows(model) \ work.rows :
            \E p \in Positions : records[p].kind \in RowKinds /\ records[p].index = r
      BY DEF RecordsInv
    <3> QED BY <3>1, <3>2, <3>3
  <2>3. Basics(sol)' = Cardinality(work.rows)
    <3>1. Basics(sol)' = Cardinality(BasicCols(sol'.cs)) + Cardinality(BasicRows(sol'.rs))
      BY <1>1 DEF Basics, BasicCols, BasicRows
    <3> QED BY <2>1, <3>1 DEF AnswerInv
  <2>4. Cardinality(Rows(model) \ work.rows) = Cardinality(Rows(model)) - Cardinality(work.rows)
    <3>1. IsFiniteSet(Rows(model)) /\ Rows(model) \cap work.rows = work.rows
      BY <1>2, FiniteModel
    <3> QED BY <3>1, FS_Difference
  <2>5. Cardinality(work.rows) \in Nat /\ Cardinality(Rows(model)) \in Nat
    BY <1>2, FiniteModel
  <2> QED BY <1>1, <2>2, <2>3, <2>4, <2>5
<1> QED BY <1>5, <1>6, <1>7, <1>8 DEF ValuesInv, ColumnOf, IsFold

-----------------------------------------------------------------------------
\* The replay of the values

\* Restoring a record only disturbs what it removed, and a partner that becomes basic.
LEMMA RestoredKeeps ==
  ASSUME RecordsInv, ValuesInv, idx > 0, idx' = idx - 1, UNCHANGED <<model, work, records>>,
         NEW rec, rec = records[idx], NEW k, k = idx, SolIs',
         rec.kind \in RowKinds =>
           \A r \in Rows(model) : r # rec.index => sol'.rs[r] = sol.rs[r],
         rec.kind \notin RowKinds => sol'.rs = sol.rs,
         rec.kind \notin ColumnKinds => sol'.cs = sol.cs,
         rec.kind \in ColumnKinds =>
           \A c \in Cols(model) :
             \/ c = ColumnOf(rec) \/ sol'.cs[c] = sol.cs[c]
             \/ rec.kind = "doubleton" /\ c = rec.partner /\ sol'.cs[c] = "basic",
         Basics(sol)' = Basics(sol) + (IF rec.kind \in RowKinds THEN 1 ELSE 0),
         FoldInv(k)', rec.kind = "singleton" => sol'.rs[rec.index] = "basic"
  PROVE  ValuesInv'
<1>1. /\ idx \in 0 .. Len(records) /\ Len(records) \in Nat /\ idx \in Positions
      /\ Positions' = Positions /\ FreeColumns' = FreeColumns
  BY DEF ValuesInv, RecordsInv, Positions, FreeColumns
<1>2. \A p \in Positions : RecordInv(records[p], work, model)
  BY DEF RecordsInv
<1>3. \A p, q \in Positions : p < q => PairInv(records[p], records[q])
  BY DEF RecordsInv
<1>4. ASSUME NEW p \in 1 .. idx'
      PROVE  /\ records'[p].kind \in ColumnKinds => sol'.cs[ColumnOf(records'[p])] # "basic"
             /\ records'[p].kind \in RowKinds => sol'.rs[records'[p].index] # "basic"
  <2>1. p \in Positions /\ p < idx /\ p \in 1 .. idx
    BY <1>1 DEF Positions
  <2>2. PairInv(records[p], rec) /\ RecordInv(records[p], work, model)
    BY <1>1, <1>2, <1>3, <2>1
  <2>3. /\ records[p].kind \in ColumnKinds => sol.cs[ColumnOf(records[p])] # "basic"
        /\ records[p].kind \in RowKinds => sol.rs[records[p].index] # "basic"
    BY <2>1 DEF ValuesInv
  <2>4. records[p].kind \in ColumnKinds => sol'.cs[ColumnOf(records[p])] # "basic"
    BY <2>2, <2>3 DEF PairInv, RecordInv, ColumnKinds
  <2>5. records[p].kind \in RowKinds => sol'.rs[records[p].index] # "basic"
    BY <2>2, <2>3 DEF PairInv, RecordInv
  <2> QED BY <2>4, <2>5
<1>5. ASSUME NEW p \in idx' + 1 .. Len(records')
      PROVE  FoldInv(p)' /\ (records'[p].kind = "singleton" => sol'.rs[records'[p].index] = "basic")
  <2>1. CASE p = idx
    BY <2>1
  <2>2. CASE p # idx
    <3>1. p \in Positions /\ idx < p /\ p \in idx + 1 .. Len(records)
      BY <1>1, <2>2 DEF Positions
    <3>2. PairInv(rec, records[p]) /\ RecordInv(records[p], work, model)
      BY <1>1, <1>2, <1>3, <3>1
    <3>3. FoldInv(p) /\ (records[p].kind = "singleton" => sol.rs[records[p].index] = "basic")
      BY <3>1 DEF ValuesInv
    <3>4. records[p].kind \in RowKinds => sol'.rs[records[p].index] = sol.rs[records[p].index]
      BY <3>2 DEF PairInv, RecordInv
    <3>5. records[p].kind \in {"free", "doubleton"} /\ sol.cs[records[p].column] = "basic" =>
            sol'.cs[records[p].column] = "basic"
      BY <3>2 DEF PairInv, RecordInv, ColumnKinds, ColumnOf, IsFold
    <3>6. FoldInv(p)'
      BY <1>1, <3>3, <3>4, <3>5 DEF FoldInv, IsFold, RowKinds
    <3> QED BY <3>3, <3>4, <3>6 DEF RowKinds
  <2> QED BY <2>1, <2>2
<1>6. Basics(sol)' + Cardinality(Pending') = Cardinality(Rows(model'))
  <2>1. Pending \subseteq Rows(model) /\ IsFiniteSet(Pending) /\ Cardinality(Pending) \in Nat
    BY FiniteModel DEF Pending
  <2>2. Basics(sol) \in Nat
    BY CountsAre DEF Basics, ValuesInv
  <2>3. Basics(sol) + Cardinality(Pending) = Cardinality(Rows(model))
    BY DEF ValuesInv
  <2>4. CASE rec.kind \in RowKinds
    <3>1. rec.index \in Pending
      BY <1>1, <1>2, <2>4 DEF Pending, RecordInv
    <3>2. \A p \in 1 .. idx - 1 : records[p].kind \in RowKinds => records[p].index # rec.index
      BY <1>1, <1>3, <2>4 DEF PairInv, Positions
    <3>3. 1 .. idx = (1 .. idx - 1) \cup {idx}
      BY <1>1
    <3>4. Pending' = Pending \ {rec.index}
      BY <3>2, <3>3 DEF Pending
    <3>5. Cardinality(Pending') = Cardinality(Pending) - 1
      BY <2>1, <3>1, <3>4, FS_RemoveElement
    <3> QED BY <2>1, <2>2, <2>3, <2>4, <3>5
  <2>5. CASE rec.kind \notin RowKinds
    <3>1. 1 .. idx = (1 .. idx - 1) \cup {idx}
      BY <1>1
    <3>2. Pending' = Pending
      BY <2>5, <3>1 DEF Pending
    <3> QED BY <2>2, <2>3, <2>5, <3>2
  <2> QED BY <2>4, <2>5
<1>7. idx' \in 0 .. Len(records')
  BY <1>1
<1> QED BY <1>4, <1>5, <1>6, <1>7 DEF ValuesInv, ColumnOf, IsFold

\* What every kind of record finds.
LEMMA RecordAt ==
  ASSUME RecordsInv, ValuesInv, idx > 0
  PROVE  /\ idx \in Positions /\ RecordInv(records[idx], work, model)
         /\ records[idx].kind \in ColumnKinds =>
              /\ ColumnOf(records[idx]) \in Cols(model)
              /\ sol.cs[ColumnOf(records[idx])] \in Status \ {"basic"}
         /\ records[idx].kind \in RowKinds =>
              /\ records[idx].index \in Rows(model)
              /\ sol.rs[records[idx].index] \in Status \ {"basic"}
<1>1. idx \in Positions /\ idx \in 1 .. idx
  BY DEF ValuesInv, RecordsInv, Positions
<1>2. RecordInv(records[idx], work, model)
  BY <1>1 DEF RecordsInv
<1>3. /\ records[idx].kind \in ColumnKinds => ColumnOf(records[idx]) \in Cols(model)
      /\ records[idx].kind \in RowKinds => records[idx].index \in Rows(model)
  BY <1>2 DEF RecordInv
<1>4. /\ records[idx].kind \in ColumnKinds => sol.cs[ColumnOf(records[idx])] # "basic"
      /\ records[idx].kind \in RowKinds => sol.rs[records[idx].index] # "basic"
  BY <1>1 DEF ValuesInv
<1> QED BY <1>1, <1>2, <1>3, <1>4 DEF ValuesInv, SolIs

\* Statuses of a Solution whose other parts do not matter.
Statuses(s, cs, rs) ==
  /\ s = [x |-> s.x, y |-> s.y, d |-> s.d, cs |-> s.cs, rs |-> s.rs]
  /\ s.cs = cs /\ s.rs = rs

\* A column that was removed alone is nonbasic.
LEMMA ReplayParked ==
  ASSUME RecordsInv, ValuesInv, ReplayValue, records[idx].kind \in {"fixed", "emptyColumn"}
  PROVE  ValuesInv'
<1> DEFINE rec == records[idx]
<1>1. idx > 0 /\ idx' = idx - 1 /\ UNCHANGED <<model, work, records>> /\ sol' = Restored(sol, idx)
  BY DEF ReplayValue
<1>2. /\ rec.kind \in ColumnKinds /\ rec.kind \notin RowKinds /\ ~IsFold(rec)
      /\ ColumnOf(rec) = rec.index /\ rec.kind # "singleton"
  BY DEF ColumnKinds, RowKinds, IsFold, ColumnOf
<1>3. rec.index \in Cols(model) /\ sol.cs[rec.index] \in Status \ {"basic"}
  BY <1>1, <1>2, RecordAt
<1>4. Statuses(sol', With(sol.cs, rec.index, "fixed"), sol.rs)
  BY <1>1 DEF Restored, RestoreParked, Statuses, With, ValuesInv, SolIs
<1>5. /\ "fixed" \in Status /\ One("fixed") = 0 /\ One(sol.cs[rec.index]) = 0
      /\ sol.cs \in [Cols(model) -> Status] /\ sol.rs \in [Rows(model) -> Status]
  BY <1>3 DEF Status, One, ValuesInv, SolIs
<1>6. /\ Cardinality(BasicCols(With(sol.cs, rec.index, "fixed"))) = Cardinality(BasicCols(sol.cs))
      /\ With(sol.cs, rec.index, "fixed") \in [Cols(model) -> Status]
  BY <1>3, <1>5, SetColumn
<1>7. SolIs' /\ Basics(sol)' = Basics(sol)
  BY <1>1, <1>4, <1>5, <1>6 DEF SolIs, Statuses, Basics, BasicCols, BasicRows
<1>8. \A c \in Cols(model) : c # rec.index => sol'.cs[c] = sol.cs[c]
  BY <1>4, <1>5 DEF Statuses, With
<1>9. sol'.rs = sol.rs
  BY <1>4 DEF Statuses
<1>10. PICK k : k = idx
  OBVIOUS
<1>11. FoldInv(k)'
  BY <1>1, <1>2, <1>10 DEF FoldInv, IsFold
<1>12. Basics(sol) \in Nat
  BY CountsAre DEF Basics, ValuesInv
<1> HIDE DEF rec
<1> QED BY <1>1, <1>2, <1>7, <1>8, <1>9, <1>10, <1>11, <1>12, RestoredKeeps DEF rec

\* A row that was inactive holds its own basic entry.
LEMMA ReplayInactive ==
  ASSUME RecordsInv, ValuesInv, ReplayValue,
         records[idx].kind \in {"emptyRow", "redundant", "singleton"}
  PROVE  ValuesInv'
<1> DEFINE rec == records[idx]
<1>1. idx > 0 /\ idx' = idx - 1 /\ UNCHANGED <<model, work, records>> /\ sol' = Restored(sol, idx)
  BY DEF ReplayValue
<1>2. rec.kind \notin ColumnKinds /\ rec.kind \in RowKinds /\ ~IsFold(rec)
  BY DEF ColumnKinds, RowKinds, IsFold
<1>3. rec.index \in Rows(model) /\ sol.rs[rec.index] \in Status \ {"basic"}
  BY <1>1, <1>2, RecordAt
<1>4. Statuses(sol', sol.cs, With(sol.rs, rec.index, "basic"))
  BY <1>1, <1>2 DEF Restored, RestoreInactive, Statuses, With, ValuesInv, SolIs, IsFold, ColumnKinds
<1>5. /\ "basic" \in Status /\ One("basic") = 1 /\ One(sol.rs[rec.index]) = 0
      /\ sol.cs \in [Cols(model) -> Status] /\ sol.rs \in [Rows(model) -> Status]
  BY <1>3 DEF Status, One, ValuesInv, SolIs
<1>6. /\ Cardinality(BasicRows(With(sol.rs, rec.index, "basic")))
           = Cardinality(BasicRows(sol.rs)) + 1
      /\ With(sol.rs, rec.index, "basic") \in [Rows(model) -> Status]
  BY <1>3, <1>5, SetRow
<1>7. Cardinality(BasicCols(sol.cs)) \in Nat /\ Cardinality(BasicRows(sol.rs)) \in Nat
  BY CountsAre DEF ValuesInv
<1>8. SolIs' /\ Basics(sol)' = Basics(sol) + 1
  BY <1>1, <1>4, <1>5, <1>6, <1>7 DEF SolIs, Statuses, Basics, BasicCols, BasicRows
<1>9. /\ \A r \in Rows(model) : r # rec.index => sol'.rs[r] = sol.rs[r]
      /\ sol'.rs[rec.index] = "basic" /\ sol'.cs = sol.cs
  BY <1>3, <1>4, <1>5 DEF Statuses, With
<1>10. PICK k : k = idx
  OBVIOUS
<1>11. FoldInv(k)'
  BY <1>1, <1>2, <1>10 DEF FoldInv, IsFold
<1> HIDE DEF rec
<1> QED BY <1>1, <1>2, <1>8, <1>9, <1>10, <1>11, RestoredKeeps DEF rec

\* The logical of a folded row is nonbasic.
LEMMA TargetNotBasic == \A rec : LogicalAtTarget(rec) \in Status \ {"basic"}
BY DEF LogicalAtTarget, Status

\* A free column is its row's basic entry.
LEMMA ReplayFree ==
  ASSUME RecordsInv, ValuesInv, ReplayValue, records[idx].kind = "free"
  PROVE  ValuesInv'
<1> DEFINE rec == records[idx]
           t == LogicalAtTarget(rec)
<1>1. idx > 0 /\ idx' = idx - 1 /\ UNCHANGED <<model, work, records>> /\ sol' = Restored(sol, idx)
  BY DEF ReplayValue
<1>2. /\ rec.kind \in ColumnKinds /\ rec.kind \in RowKinds /\ IsFold(rec)
      /\ ColumnOf(rec) = rec.column
  BY DEF ColumnKinds, RowKinds, IsFold, ColumnOf
<1>3. /\ rec.index \in Rows(model) /\ sol.rs[rec.index] \in Status \ {"basic"}
      /\ rec.column \in Cols(model) /\ sol.cs[rec.column] \in Status \ {"basic"}
  BY <1>1, <1>2, RecordAt
<1>4. Statuses(sol', With(sol.cs, rec.column, "basic"), With(sol.rs, rec.index, t))
  <2>1. Restored(sol, idx) = RestoreFree(sol, rec, idx)
    BY DEF Restored
  <2>2. \E a, b : sol' = [sol EXCEPT !.x = a, !.cs[rec.column] = "basic", !.y = b,
                                     !.rs[rec.index] = t]
    BY <1>1, <2>1, Zenon DEF RestoreFree
  <2> HIDE DEF rec, t
  <2> QED BY <2>2 DEF Statuses, With, ValuesInv, SolIs
<1>5. /\ "basic" \in Status /\ One("basic") = 1 /\ One(sol.rs[rec.index]) = 0
      /\ One(sol.cs[rec.column]) = 0 /\ t \in Status \ {"basic"} /\ One(t) = 0
      /\ sol.cs \in [Cols(model) -> Status] /\ sol.rs \in [Rows(model) -> Status]
  BY <1>3, TargetNotBasic DEF Status, One, ValuesInv, SolIs
<1> HIDE DEF t
<1>6. /\ Cardinality(BasicRows(With(sol.rs, rec.index, t))) = Cardinality(BasicRows(sol.rs)) + 0 - 0
      /\ With(sol.rs, rec.index, t) \in [Rows(model) -> Status]
  BY <1>3, <1>5, SetRow
<1>7. /\ Cardinality(BasicCols(With(sol.cs, rec.column, "basic")))
           = Cardinality(BasicCols(sol.cs)) + 1 - 0
      /\ With(sol.cs, rec.column, "basic") \in [Cols(model) -> Status]
  BY <1>3, <1>5, SetColumn
<1>8. Cardinality(BasicCols(sol.cs)) \in Nat /\ Cardinality(BasicRows(sol.rs)) \in Nat
  BY CountsAre DEF ValuesInv
<1>9. SolIs' /\ Basics(sol)' = Basics(sol) + 1
  BY <1>1, <1>4, <1>6, <1>7, <1>8 DEF SolIs, Statuses, Basics, BasicCols, BasicRows
<1>10. /\ \A r \in Rows(model) : r # rec.index => sol'.rs[r] = sol.rs[r]
       /\ \A c \in Cols(model) : c # rec.column => sol'.cs[c] = sol.cs[c]
       /\ sol'.rs[rec.index] # "basic" /\ sol'.cs[rec.column] = "basic"
  BY <1>3, <1>4, <1>5 DEF Statuses, With
<1>11. PICK k : k = idx
  OBVIOUS
<1>12. FoldInv(k)'
  BY <1>1, <1>10, <1>11 DEF FoldInv, IsFold
<1> HIDE DEF rec
<1> QED BY <1>1, <1>2, <1>9, <1>10, <1>11, <1>12, RestoredKeeps DEF rec

\* Of a doubleton one column is basic; a partner that is a free column came back before, as
\* a basic one, and stays it.
LEMMA ReplayDoubleton ==
  ASSUME RecordsInv, ValuesInv, ReplayValue, records[idx].kind = "doubleton"
  PROVE  ValuesInv'
<1> DEFINE rec == records[idx]
<1>1. idx > 0 /\ idx' = idx - 1 /\ UNCHANGED <<model, work, records>> /\ sol' = Restored(sol, idx)
  BY DEF ReplayValue
<1>2. /\ rec.kind \in ColumnKinds /\ rec.kind \in RowKinds /\ IsFold(rec)
      /\ ColumnOf(rec) = rec.column
  BY DEF ColumnKinds, RowKinds, IsFold, ColumnOf
<1>3. /\ rec.index \in Rows(model) /\ sol.rs[rec.index] \in Status \ {"basic"}
      /\ rec.column \in Cols(model) /\ sol.cs[rec.column] \in Status \ {"basic"}
      /\ rec.partner \in Cols(model) /\ rec.partner # rec.column
  BY <1>1, <1>2, RecordAt DEF RecordInv
<1>4. \E swap \in BOOLEAN, status \in Status :
        /\ swap => sol.cs[rec.partner] # "basic" /\ status # "basic"
        /\ ~swap => status = "basic"
        /\ Statuses(sol', With(With(sol.cs, rec.partner,
                                    IF swap THEN "basic" ELSE sol.cs[rec.partner]),
                               rec.column, status),
                    With(sol.rs, rec.index, "fixed"))
  <2>1. Restored(sol, idx) = RestoreDoubleton(sol, rec)
    BY DEF Restored
  <2> HIDE DEF rec
  <2> DEFINE xe == Quotient(rec.rhs - rec.partnerCoefficient * sol.x[rec.partner], rec.coefficient)
             atBound == AtBound(rec.column, xe)
             swap == /\ sol.cs[rec.partner] # "basic" /\ Inside(rec.partner, sol.x[rec.partner])
                     /\ atBound.lower \/ atBound.upper
             status == IF ~swap THEN "basic"
                       ELSE IF atBound.lower /\ atBound.upper THEN "fixed"
                       ELSE IF atBound.lower THEN "lower" ELSE "upper"
  <2>2. sol' = [sol EXCEPT !.x[rec.column] = xe, !.y[rec.index] = 0, !.rs[rec.index] = "fixed",
                  !.cs[rec.partner] = IF swap THEN "basic" ELSE @, !.cs[rec.column] = status]
    BY <1>1, <2>1, Zenon DEF RestoreDoubleton
  <2>3. /\ swap \in BOOLEAN /\ status \in Status
        /\ swap => sol.cs[rec.partner] # "basic" /\ status # "basic"
        /\ ~swap => status = "basic"
    BY DEF Status
  <2> HIDE DEF swap, status, xe, atBound
  <2>4. Statuses(sol', With(With(sol.cs, rec.partner,
                                 IF swap THEN "basic" ELSE sol.cs[rec.partner]),
                            rec.column, status),
                 With(sol.rs, rec.index, "fixed"))
    BY <2>2 DEF Statuses, With, ValuesInv, SolIs
  <2> QED BY <2>3, <2>4
<1>5. PICK swap \in BOOLEAN, status \in Status :
        /\ swap => sol.cs[rec.partner] # "basic" /\ status # "basic"
        /\ ~swap => status = "basic"
        /\ Statuses(sol', With(With(sol.cs, rec.partner,
                                    IF swap THEN "basic" ELSE sol.cs[rec.partner]),
                               rec.column, status),
                    With(sol.rs, rec.index, "fixed"))
  BY <1>4
<1> DEFINE u == IF swap THEN "basic" ELSE sol.cs[rec.partner]
           f == With(sol.cs, rec.partner, u)
<1>6. /\ "fixed" \in Status /\ One("fixed") = 0 /\ One(sol.rs[rec.index]) = 0
      /\ One(sol.cs[rec.column]) = 0 /\ u \in Status
      /\ One(u) - One(sol.cs[rec.partner]) = IF swap THEN 1 ELSE 0
      /\ One(status) = IF swap THEN 0 ELSE 1
      /\ One(u) \in Int /\ One(sol.cs[rec.partner]) \in Int
      /\ sol.cs \in [Cols(model) -> Status] /\ sol.rs \in [Rows(model) -> Status]
  BY <1>3, <1>5 DEF Status, One, ValuesInv, SolIs
<1>7. f[rec.column] = sol.cs[rec.column]
  BY <1>3, <1>6 DEF With
<1>8. /\ \A c \in Cols(model) : c # rec.column =>
           With(f, rec.column, status)[c] = IF c = rec.partner THEN u ELSE sol.cs[c]
      /\ With(f, rec.column, status)[rec.column] = status
  BY <1>3, <1>6 DEF With
<1> HIDE DEF u
<1>9. /\ Cardinality(BasicRows(With(sol.rs, rec.index, "fixed")))
           = Cardinality(BasicRows(sol.rs)) + 0 - 0
      /\ With(sol.rs, rec.index, "fixed") \in [Rows(model) -> Status]
  BY <1>3, <1>6, SetRow
<1>10. /\ Cardinality(BasicCols(f))
            = Cardinality(BasicCols(sol.cs)) + One(u) - One(sol.cs[rec.partner])
       /\ f \in [Cols(model) -> Status]
  BY <1>3, <1>6, SetColumn
<1>11. Statuses(sol', With(f, rec.column, status), With(sol.rs, rec.index, "fixed"))
  BY <1>5 DEF u
<1> HIDE DEF f
<1>12. /\ Cardinality(BasicCols(With(f, rec.column, status)))
            = Cardinality(BasicCols(f)) + One(status) - One(f[rec.column])
       /\ With(f, rec.column, status) \in [Cols(model) -> Status]
  BY <1>3, <1>10, SetColumn
<1>13. Cardinality(BasicCols(sol.cs)) \in Nat /\ Cardinality(BasicRows(sol.rs)) \in Nat
  BY CountsAre DEF ValuesInv
<1>14. Cardinality(BasicCols(With(f, rec.column, status))) = Cardinality(BasicCols(sol.cs)) + 1
  BY <1>6, <1>7, <1>10, <1>12, <1>13
<1>15. SolIs' /\ Basics(sol)' = Basics(sol) + 1
  BY <1>1, <1>9, <1>11, <1>12, <1>13, <1>14 DEF SolIs, Statuses, Basics, BasicCols, BasicRows
<1>16. /\ \A r \in Rows(model) : r # rec.index => sol'.rs[r] = sol.rs[r]
       /\ \A c \in Cols(model) : \/ c = rec.column \/ sol'.cs[c] = sol.cs[c]
                                 \/ c = rec.partner /\ sol'.cs[c] = "basic"
       /\ sol'.rs[rec.index] # "basic" /\ sol'.cs[rec.column] = status
  BY <1>3, <1>6, <1>8, <1>11 DEF Statuses, With, u
<1>17. rec.partner \in FreeColumns => sol.cs[rec.partner] = "basic"
  <2> SUFFICES ASSUME rec.partner \in FreeColumns PROVE sol.cs[rec.partner] = "basic"
    OBVIOUS
  <2>1. PICK p \in Positions : records[p].kind = "free" /\ records[p].column = rec.partner
    BY DEF FreeColumns
  <2>2. idx \in Positions /\ Len(records) \in Nat
    BY <1>1, RecordAt DEF RecordsInv
  <2>3. ~(p < idx)
    <3>1. p < idx => PairInv(records[p], rec)
      BY <2>1, <2>2 DEF RecordsInv
    <3> QED BY <2>1, <3>1 DEF PairInv, ColumnKinds, ColumnOf, IsFold
  <2>4. p \in idx + 1 .. Len(records)
    BY <2>1, <2>2, <2>3 DEF Positions
  <2> QED BY <2>1, <2>4 DEF ValuesInv, FoldInv
<1>18. PICK k : k = idx
  OBVIOUS
<1>19. FreeColumns' = FreeColumns
  BY <1>1 DEF FreeColumns, Positions
<1>20. FoldInv(k)'
  BY <1>1, <1>5, <1>16, <1>17, <1>18, <1>19 DEF FoldInv
<1> HIDE DEF rec
<1> QED BY <1>1, <1>2, <1>15, <1>16, <1>18, <1>20, RestoredKeeps DEF rec

LEMMA ReplayValueKeeps ==
  ASSUME RecordsInv, ValuesInv, ReplayValue
  PROVE  ValuesInv'
<1>1. records[idx].kind \in ColumnKinds \cup RowKinds
  BY RecordAt DEF ReplayValue, RecordInv
<1> QED BY <1>1, ReplayParked, ReplayInactive, ReplayFree, ReplayDoubleton
        DEF ColumnKinds, RowKinds

-----------------------------------------------------------------------------
\* The prices

\* When every value is back, so is every basic entry.
LEMMA ToDualsGives ==
  ASSUME RecordsInv, ValuesInv, ToDuals, model.int = {}
  PROVE  DualsInv' /\ pc' = "duals"
<1>1. /\ idx = 0 /\ idx' = Len(records) /\ dual' = FreshDual(1) /\ pc' = "duals"
      /\ UNCHANGED <<model, work, records, sol>>
  BY DEF ToDuals
<1>2. /\ dual' = [pass |-> dual'.pass, before |-> dual'.before, final |-> dual'.final,
                  engineStatus |-> dual'.engineStatus, madeBasic |-> dual'.madeBasic,
                  stage |-> dual'.stage]
      /\ dual'.engineStatus = sol.cs /\ dual'.madeBasic = {} /\ dual'.final = {}
      /\ dual'.stage = "rows"
  BY <1>1 DEF FreshDual
<1>3. Len(records) \in Nat /\ Positions = idx + 1 .. Len(records)
  BY <1>1 DEF RecordsInv, Positions
<1>4. \A p \in Positions :
        FoldInv(p) /\ (records[p].kind = "singleton" => sol.rs[records[p].index] = "basic")
  BY <1>3 DEF ValuesInv
<1>5. Positions' = Positions /\ FreeColumns' = FreeColumns
  BY <1>1 DEF Positions, FreeColumns
<1>6. \A p \in Positions' : FoldInv(p)'
  BY <1>1, <1>4, <1>5 DEF FoldInv
<1>7. \A p \in Positions' : records'[p].kind = "free" =>
        dual'.engineStatus[records'[p].column] = "basic"
  BY <1>1, <1>2, <1>4, <1>5 DEF FoldInv
<1>8. SolIs' /\ idx' \in 0 .. Len(records')
  BY <1>1, <1>3 DEF ValuesInv, SolIs
<1>9. MadeInv'
  BY <1>1, <1>2, <1>4, <1>5, <1>8 DEF MadeInv, SolIs
<1>10. FinalInv'
  BY <1>2 DEF FinalInv
<1>11. Basics(sol)' = Cardinality(Rows(model'))
  <2>1. Pending = {} /\ Cardinality(Pending) = 0
    BY <1>1, FS_EmptySet DEF Pending
  <2>2. Basics(sol) \in Nat
    BY CountsAre DEF Basics, ValuesInv
  <2>3. Basics(sol)' = Basics(sol)
    BY <1>1 DEF Basics, BasicCols, BasicRows
  <2> QED BY <1>1, <2>1, <2>2, <2>3 DEF ValuesInv
<1> QED BY <1>1, <1>2, <1>6, <1>7, <1>8, <1>9, <1>10, <1>11 DEF DualsInv

\* The row a step of the first and the last stage prices.
LEMMA SingletonAt ==
  ASSUME RecordsInv, DualsInv, PriceSingletonRow
  PROVE  /\ idx \in Positions /\ records[idx].kind = "singleton"
         /\ records[idx].index \in Rows(model)
         /\ records[idx].column \in Cols(model) \cap work.singleton
<1>1. idx \in Positions
  BY DEF PriceSingletonRow, DualsInv, RecordsInv, Positions
<1>2. records[idx].kind = "singleton"
  BY DEF PriceSingletonRow, InStage
<1>3. RecordInv(records[idx], work, model)
  BY <1>1 DEF RecordsInv
<1> QED BY <1>1, <1>2, <1>3 DEF RecordInv, RowKinds

\* What it does to the statuses: its earlier decision undone, the row takes over from its
\* column, nonbasic till then, or it does not.
Back(rec, k) ==
  IF k \in dual.madeBasic THEN dual.engineStatus[rec.column] ELSE sol.cs[rec.column]

SingletonDoes(rec, k, takesOver, side) ==
  LET cs == With(sol.cs, rec.column, Back(rec, k))
  IN  /\ takesOver => cs[rec.column] # "basic"
      /\ Statuses(sol', With(cs, rec.column, IF takesOver THEN "basic" ELSE cs[rec.column]),
                  With(With(sol.rs, rec.index, "basic"), rec.index,
                       IF takesOver THEN side ELSE "basic"))
      /\ \E final \in SUBSET (dual.final \cup {rec.column}) :
           dual' = [dual EXCEPT !.final = final,
                                !.madeBasic = IF takesOver THEN @ \cup {k} ELSE @ \ {k}]

LEMMA SingletonStep ==
  ASSUME RecordsInv, DualsInv, PriceSingletonRow, NEW rec, rec = records[idx], NEW k, k = idx
  PROVE  \E takesOver \in BOOLEAN, side \in {"lower", "upper"} :
           SingletonDoes(rec, k, takesOver, side)
<1> DEFINE c == rec.column
           s == UndoSingleton(sol, idx)
           d == PriceOf(s, c)
           activity == rec.coefficient * s.x[c]
           low == activity = rec.rl
           high == activity = rec.ru
           side == IF low THEN "lower" ELSE "upper"
           candidate == Quotient(d, rec.coefficient)
           holds == Inside(c, s.x[c]) /\ (low \/ high)
           pays == /\ NeedsPrice(c, s.x[c], d) /\ (low \/ high)
                   /\ ~(low /\ ~high /\ model.sense * candidate < 0)
                   /\ ~(high /\ ~low /\ model.sense * candidate > 0)
           takesOver == (holds \/ pays) /\ s.cs[c] # "basic"
           settles == pays \/ (c \notin dual.final \cup DoubletonColumns)
           cs == With(sol.cs, c, Back(rec, k))
<1>1. PriceSingleton(idx)
  BY DEF PriceSingletonRow
<1>2. /\ sol' = [s EXCEPT
                   !.y[rec.index] = IF pays THEN candidate ELSE 0,
                   !.rs[rec.index] = IF takesOver THEN side ELSE @,
                   !.cs[c] = IF takesOver THEN "basic" ELSE @,
                   !.d[c] = IF pays THEN 0 ELSE IF settles THEN d ELSE @]
      /\ dual' = [dual EXCEPT
                    !.final = IF settles THEN @ \cup {c} ELSE @,
                    !.madeBasic = IF takesOver THEN @ \cup {idx} ELSE @ \ {idx}]
  BY <1>1, Zenon DEF PriceSingleton
<1>3. takesOver \in BOOLEAN /\ side \in {"lower", "upper"} /\ (takesOver => s.cs[c] # "basic")
  OBVIOUS
<1>4. Statuses(s, cs, With(sol.rs, rec.index, "basic"))
  <2>1. s = [sol EXCEPT !.y[rec.index] = 0, !.rs[rec.index] = "basic", !.cs[c] = Back(rec, k)]
    BY Zenon DEF UndoSingleton, Back
  <2> HIDE DEF s
  <2> QED BY <2>1 DEF Statuses, With, DualsInv, SolIs
<1> HIDE DEF takesOver, side, settles, pays, candidate, d, s, cs
<1>5. s.rs[rec.index] = "basic"
  BY <1>4, SingletonAt DEF Statuses, With, DualsInv, SolIs
<1>6. Statuses(sol', With(cs, c, IF takesOver THEN "basic" ELSE cs[c]),
               With(With(sol.rs, rec.index, "basic"), rec.index,
                    IF takesOver THEN side ELSE "basic"))
  BY <1>2, <1>4, <1>5 DEF Statuses, With
<1>7. \E final \in SUBSET (dual.final \cup {c}) :
        dual' = [dual EXCEPT !.final = final,
                             !.madeBasic = IF takesOver THEN @ \cup {k} ELSE @ \ {k}]
  <2> DEFINE final == IF settles THEN dual.final \cup {c} ELSE dual.final
  <2>1. final \in SUBSET (dual.final \cup {c})
    OBVIOUS
  <2>2. dual' = [dual EXCEPT !.final = final,
                             !.madeBasic = IF takesOver THEN @ \cup {k} ELSE @ \ {k}]
    BY <1>2, Zenon
  <2> HIDE DEF final
  <2> QED BY <2>1, <2>2
<1>8. takesOver => cs[c] # "basic"
  BY <1>3, <1>4 DEF Statuses
<1>9. SingletonDoes(rec, k, takesOver, side)
  BY <1>6, <1>7, <1>8, Zenon DEF SingletonDoes, cs
<1> QED BY <1>3, <1>9

\* A singleton row trades its basic entry for its column's, or takes it back.
LEMMA PriceSingletonKeeps ==
  ASSUME RecordsInv, DualsInv, PriceSingletonRow
  PROVE  DualsInv'
<1>1. PICK rec, k : rec = records[idx] /\ k = idx
  OBVIOUS
<1> DEFINE c == rec.column
           r == rec.index
           made == k \in dual.madeBasic
           back == IF made THEN dual.engineStatus[c] ELSE sol.cs[c]
           cs == With(sol.cs, c, back)
           rs == With(sol.rs, r, "basic")
<1>2. /\ k \in Positions /\ rec.kind = "singleton" /\ r \in Rows(model)
      /\ c \in Cols(model) /\ c \in work.singleton
  BY <1>1, SingletonAt
<1>3. PICK takesOver \in BOOLEAN, side \in {"lower", "upper"} :
        SingletonDoes(rec, k, takesOver, side)
  BY <1>1, SingletonStep
<1>3a. /\ takesOver => cs[c] # "basic"
       /\ Statuses(sol', With(cs, c, IF takesOver THEN "basic" ELSE cs[c]),
                   With(rs, r, IF takesOver THEN side ELSE "basic"))
       /\ \E final \in SUBSET (dual.final \cup {c}) :
            dual' = [dual EXCEPT !.final = final,
                                 !.madeBasic = IF takesOver THEN @ \cup {k} ELSE @ \ {k}]
  BY <1>3, Zenon DEF SingletonDoes, Back
<1>4. PICK final \in SUBSET (dual.final \cup {c}) :
        dual' = [dual EXCEPT !.final = final,
                             !.madeBasic = IF takesOver THEN @ \cup {k} ELSE @ \ {k}]
  BY <1>3a
<1>5. /\ UNCHANGED <<model, work, records>> /\ idx' = idx - 1
      /\ Positions' = Positions /\ FreeColumns' = FreeColumns
  BY DEF PriceSingletonRow, Positions, FreeColumns
<1>6. /\ sol.cs \in [Cols(model) -> Status] /\ sol.rs \in [Rows(model) -> Status]
      /\ dual.engineStatus \in [Cols(model) -> Status] /\ MadeInv
  BY DEF DualsInv, SolIs, MadeInv
<1>7. /\ made => sol.cs[c] = "basic" /\ sol.rs[r] # "basic" /\ dual.engineStatus[c] # "basic"
      /\ ~made => sol.rs[r] = "basic"
  BY <1>1, <1>2, <1>6 DEF MadeInv
<1>8. /\ back \in Status /\ sol.cs[c] \in Status /\ sol.rs[r] \in Status /\ "basic" \in Status
      /\ cs[c] = back /\ rs[r] = "basic"
  BY <1>2, <1>6 DEF With, Status
<1>9. /\ \A x \in Cols(model) : x # c => sol'.cs[x] = sol.cs[x]
      /\ \A x \in Rows(model) : x # r => sol'.rs[x] = sol.rs[x]
      /\ sol'.cs[c] = IF takesOver THEN "basic" ELSE back
      /\ sol'.rs[r] = IF takesOver THEN side ELSE "basic"
  BY <1>2, <1>3a, <1>6, <1>8 DEF Statuses, With
<1>10. takesOver => back # "basic"
  BY <1>3a, <1>8
<1>11. /\ dual' = [pass |-> dual'.pass, before |-> dual'.before, final |-> dual'.final,
                   engineStatus |-> dual'.engineStatus, madeBasic |-> dual'.madeBasic,
                   stage |-> dual'.stage]
       /\ dual'.engineStatus = dual.engineStatus /\ dual'.stage = dual.stage
       /\ dual'.final = final
       /\ dual'.madeBasic = IF takesOver THEN dual.madeBasic \cup {k} ELSE dual.madeBasic \ {k}
  BY <1>4, <1>6 DEF MadeInv
<1> HIDE DEF cs, rs, back
<1>12. SolIs' /\ Basics(sol)' = Basics(sol)
  <2> DEFINE u == IF takesOver THEN "basic" ELSE cs[c]
             v == IF takesOver THEN side ELSE "basic"
  <2>1. /\ Cardinality(BasicCols(cs)) = Cardinality(BasicCols(sol.cs)) + One(back) - One(sol.cs[c])
        /\ Cardinality(BasicCols(sol.cs)) \in Nat /\ cs \in [Cols(model) -> Status]
    BY <1>2, <1>6, <1>8, SetColumn DEF cs
  <2>2. /\ Cardinality(BasicRows(rs))
             = Cardinality(BasicRows(sol.rs)) + One("basic") - One(sol.rs[r])
        /\ Cardinality(BasicRows(sol.rs)) \in Nat /\ rs \in [Rows(model) -> Status]
    BY <1>2, <1>6, <1>8, SetRow DEF rs
  <2>3. u \in Status /\ v \in Status
    BY <1>8 DEF Status
  <2> HIDE DEF u, v
  <2>4. /\ Cardinality(BasicCols(With(cs, c, u))) = Cardinality(BasicCols(cs)) + One(u) - One(cs[c])
        /\ With(cs, c, u) \in [Cols(model) -> Status]
    BY <1>2, <2>1, <2>3, SetColumn
  <2>5. /\ Cardinality(BasicRows(With(rs, r, v))) = Cardinality(BasicRows(rs)) + One(v) - One(rs[r])
        /\ With(rs, r, v) \in [Rows(model) -> Status]
    BY <1>2, <2>2, <2>3, SetRow
  <2>6. Statuses(sol', With(cs, c, u), With(rs, r, v))
    BY <1>3a DEF u, v
  <2>7. SolIs'
    BY <1>5, <2>4, <2>5, <2>6 DEF SolIs, Statuses
  <2>8. Basics(sol)'
          = Cardinality(BasicCols(With(cs, c, u))) + Cardinality(BasicRows(With(rs, r, v)))
    BY <1>5, <2>6 DEF Statuses, Basics, BasicCols, BasicRows
  <2>9. /\ One("basic") = 1 /\ One(rs[r]) = 1 /\ One(cs[c]) = One(back)
        /\ One(u) = IF takesOver THEN 1 ELSE One(back)
        /\ One(v) = IF takesOver THEN 0 ELSE 1
        /\ takesOver => One(back) = 0
        /\ made => One(sol.cs[c]) = 1 /\ One(sol.rs[r]) = 0 /\ One(back) = 0
        /\ ~made => One(sol.rs[r]) = 1 /\ One(sol.cs[c]) = One(back)
        /\ One(back) \in {0, 1}
    BY <1>7, <1>8, <1>10 DEF One, u, v, back
  <2>10. Basics(sol) = Cardinality(BasicCols(sol.cs)) + Cardinality(BasicRows(sol.rs))
    BY DEF Basics
  <2> HIDE DEF made
  <2> QED BY <2>1, <2>2, <2>4, <2>5, <2>7, <2>8, <2>9, <2>10
<1>13. \A p \in Positions : records[p].kind \in RowKinds /\ p # k =>
         records[p].index \in Rows(model) /\ records[p].index # r
  <2>1. \A p \in Positions : RecordInv(records[p], work, model)
    BY DEF RecordsInv
  <2>2. \A p, q \in Positions : p < q => PairInv(records[p], records[q])
    BY DEF RecordsInv
  <2>3. Positions \subseteq Int
    BY DEF Positions
  <2>4. \A p \in Positions : records[p].kind \in RowKinds /\ p # k => records[p].index # r
    BY <1>1, <1>2, <2>2, <2>3 DEF PairInv, RowKinds
  <2> QED BY <2>1, <2>4 DEF RecordInv
<1>14. ASSUME NEW x \in Cols(model), dual.engineStatus[x] = "basic" PROVE sol'.cs[x] = "basic"
  BY <1>6, <1>7, <1>9, <1>14 DEF MadeInv, back
<1>15. ASSUME NEW p \in Positions, p # k, p \in dual.madeBasic,
              records[p].kind = "singleton", records[p].column = c
       PROVE  ~takesOver /\ sol'.cs[c] = "basic"
  <2>1. ~made
    BY <1>1, <1>2, <1>6, <1>15 DEF MadeInv
  <2>2. sol.cs[c] = "basic"
    BY <1>6, <1>15 DEF MadeInv
  <2> QED BY <1>9, <1>10, <2>1, <2>2 DEF back
<1>16. ASSUME NEW p \in Positions, records[p].kind = "singleton"
       PROVE  IF p \in dual'.madeBasic
              THEN /\ sol'.cs[records[p].column] = "basic" /\ sol'.rs[records[p].index] # "basic"
                   /\ dual.engineStatus[records[p].column] # "basic"
              ELSE sol'.rs[records[p].index] = "basic"
  <2>1. CASE p = k
    <3>1. CASE takesOver
      <4>1. back # "basic" /\ dual.engineStatus[c] # "basic"
        BY <1>2, <1>6, <1>7, <1>10, <3>1 DEF MadeInv, back
      <4> QED BY <1>1, <1>9, <1>11, <2>1, <3>1, <4>1
    <3>2. CASE ~takesOver
      BY <1>1, <1>9, <1>11, <2>1, <3>2
    <3> QED BY <3>1, <3>2
  <2>2. CASE p # k
    <3>1. /\ p \in dual'.madeBasic <=> p \in dual.madeBasic
          /\ sol'.rs[records[p].index] = sol.rs[records[p].index]
      BY <1>9, <1>11, <1>13, <1>16, <2>2 DEF RowKinds
    <3>2. records[p].column \in Cols(model)
      BY <1>16 DEF RecordsInv, RecordInv
    <3>3. IF p \in dual.madeBasic
          THEN /\ sol.cs[records[p].column] = "basic" /\ sol.rs[records[p].index] # "basic"
               /\ dual.engineStatus[records[p].column] # "basic"
          ELSE sol.rs[records[p].index] = "basic"
      BY <1>6, <1>16 DEF MadeInv
    <3>4. p \in dual.madeBasic => sol'.cs[records[p].column] = "basic"
      BY <1>9, <1>15, <1>16, <2>2, <3>2, <3>3
    <3> QED BY <3>1, <3>3, <3>4
  <2> QED BY <2>1, <2>2
<1>17. ASSUME NEW p \in Positions, NEW q \in Positions,
              records[p].kind = "singleton", records[q].kind = "singleton",
              p \in dual'.madeBasic, q \in dual'.madeBasic,
              records[p].column = records[q].column
       PROVE  p = q
  <2>1. CASE p # k /\ q # k
    BY <1>6, <1>11, <1>17, <2>1 DEF MadeInv
  <2>2. CASE p = k /\ q # k
    <3>1. q \in dual.madeBasic /\ takesOver /\ records[q].column = c
      BY <1>1, <1>11, <1>17, <2>2
    <3> QED BY <1>15, <1>17, <2>2, <3>1
  <2>3. CASE p # k /\ q = k
    <3>1. p \in dual.madeBasic /\ takesOver /\ records[p].column = c
      BY <1>1, <1>11, <1>17, <2>3
    <3> QED BY <1>15, <1>17, <2>3, <3>1
  <2> QED BY <2>1, <2>2, <2>3
<1>18. MadeInv'
  BY <1>5, <1>6, <1>11, <1>14, <1>16, <1>17 DEF MadeInv
<1>19. \A p \in Positions : records[p].kind = "doubleton" =>
         records[p].column \in Cols(model) /\ records[p].column # c /\ records[p].partner # c
  BY <1>2 DEF RecordsInv, RecordInv, ColumnKinds, ColumnOf, IsFold
<1>20. ASSUME NEW p \in Positions PROVE FoldInv(p)'
  <2>1. FoldInv(p)
    BY DEF DualsInv
  <2>2. IsFold(records[p]) => sol'.rs[records[p].index] # "basic"
    <3>1. IsFold(records[p]) => records[p].kind \in RowKinds /\ p # k
      BY <1>1, <1>2 DEF IsFold, RowKinds
    <3> QED BY <1>9, <1>13, <2>1, <3>1 DEF FoldInv
  <2>3. records[p].kind = "free" => sol'.cs[records[p].column] = "basic"
    <3>1. records[p].kind = "free" => records[p].column \in Cols(model)
      BY DEF RecordsInv, RecordInv, ColumnKinds, ColumnOf, IsFold
    <3> QED BY <1>14, <3>1 DEF DualsInv
  <2>4. records[p].kind = "doubleton" /\ records[p].partner \in FreeColumns =>
          sol'.cs[records[p].column] = "basic"
    BY <1>9, <1>19, <2>1 DEF FoldInv
  <2> QED BY <1>5, <2>2, <2>3, <2>4 DEF FoldInv
<1>21. FinalInv'
  <2> SUFFICES ASSUME dual'.stage # "deferred", NEW q \in Positions,
                      records[q].kind = "doubleton", dual'.stage = "rows" \/ q <= idx',
                      records[q].partner \in dual'.final
               PROVE  records[q].partner \in FreeColumns
    BY <1>5, Zenon DEF FinalInv
  <2>1. records[q].partner \in dual.final
    BY <1>11, <1>19
  <2>2. dual.stage = "rows" \/ q <= idx
    BY <1>5, <1>11 DEF DualsInv, RecordsInv, Positions
  <2> QED BY <1>11, <2>1, <2>2 DEF DualsInv, FinalInv
<1>22. idx' \in 0 .. Len(records')
  BY <1>5 DEF DualsInv, PriceSingletonRow, RecordsInv
<1>23. \A p \in Positions' : records'[p].kind = "free" =>
         dual'.engineStatus[records'[p].column] = "basic"
  BY <1>5, <1>11 DEF DualsInv
<1>24. dual'.stage \in {"rows", "folds", "deferred"} /\ Basics(sol)' = Cardinality(Rows(model'))
  BY <1>5, <1>11, <1>12 DEF DualsInv
<1> QED BY <1>5, <1>12, <1>18, <1>20, <1>21, <1>22, <1>23, <1>24 DEF DualsInv

\* The fold a step of the second stage prices.
LEMMA FoldAt ==
  ASSUME RecordsInv, DualsInv, PriceFoldedRow
  PROVE  /\ idx \in Positions /\ IsFold(records[idx]) /\ dual.stage = "folds"
         /\ records[idx].index \in Rows(model) /\ records[idx].column \in Cols(model)
         /\ sol.rs[records[idx].index] \in Status \ {"basic"}
<1>1. idx \in Positions /\ IsFold(records[idx])
  BY DEF PriceFoldedRow, DualsInv, RecordsInv, Positions
<1>2. dual.stage = "folds"
  BY <1>1 DEF PriceFoldedRow, InStage, IsFold
<1>3. RecordInv(records[idx], work, model) /\ FoldInv(idx)
  BY <1>1 DEF RecordsInv, DualsInv
<1> QED BY <1>1, <1>2, <1>3
        DEF RecordInv, FoldInv, RowKinds, ColumnKinds, ColumnOf, IsFold, DualsInv, SolIs

\* A fold's column that is priced alone is basic already: it is a free one, or its partner is.
LEMMA FoldStep ==
  ASSUME RecordsInv, DualsInv, PriceFoldedRow, NEW rec, rec = records[idx]
  PROVE  /\ Statuses(sol', sol.cs, sol.rs) \/ \E v \in Status \ {"basic"} :
              Statuses(sol', sol.cs, With(sol.rs, rec.index, v))
         /\ \E final \in SUBSET (dual.final \cup {rec.column, rec.partner}) :
              /\ dual' = [dual EXCEPT !.final = final]
              /\ rec.kind = "free" => final \subseteq dual.final \cup {rec.column}
<1>1. sol = [x |-> sol.x, y |-> sol.y, d |-> sol.d, cs |-> sol.cs, rs |-> sol.rs]
  BY DEF DualsInv, SolIs
<1>2. CASE rec.kind = "doubleton" /\ rec.partner \notin dual.final
  <2>1. PriceDoubleton(rec)
    BY <1>2 DEF PriceFoldedRow
  <2>2. \E s, y, d : /\ s = [sol EXCEPT !.y[rec.index] = 0]
                     /\ sol' = [s EXCEPT !.y[rec.index] = y, !.d = d]
    BY <2>1, Zenon DEF PriceDoubleton
  <2>3. Statuses(sol', sol.cs, sol.rs)
    BY <1>1, <2>2 DEF Statuses
  <2>4. dual' = [dual EXCEPT !.final = @ \cup {rec.column, rec.partner}]
    BY <2>1, Zenon DEF PriceDoubleton
  <2> QED BY <1>2, <2>3, <2>4
<1>3. CASE ~(rec.kind = "doubleton" /\ rec.partner \notin dual.final)
  <2>1. PriceFold(rec)
    BY <1>3 DEF PriceFoldedRow
  <2>2. dual' = [dual EXCEPT !.final = @ \cup {rec.column}]
    BY <2>1, Zenon DEF PriceFold
  <2>3. sol.cs[rec.column] = "basic"
    <3>1. FoldInv(idx) /\ idx \in Positions /\ idx <= idx
      BY FoldAt DEF DualsInv, Positions
    <3>2. CASE rec.kind = "free"
      BY <3>1, <3>2 DEF FoldInv
    <3>3. CASE rec.kind = "doubleton"
      <4>1. rec.partner \in FreeColumns
        BY <1>3, <3>1, <3>3, FoldAt DEF DualsInv, FinalInv
      <4> QED BY <3>1, <3>3, <4>1 DEF FoldInv
    <3> QED BY <3>2, <3>3, FoldAt DEF IsFold
  <2>4. sol.cs = With(sol.cs, rec.column, "basic")
    BY <2>3, FoldAt DEF DualsInv, SolIs, With
  <2> DEFINE s == [sol EXCEPT !.y[rec.index] = 0]
             d == PriceOf(s, rec.column)
             y == Quotient(d, rec.coefficient)
             v == LogicalAtTarget(rec)
  <2>5. \/ sol' = [s EXCEPT !.d[rec.column] = d]
        \/ sol' = [s EXCEPT !.y[rec.index] = y, !.d[rec.column] = 0, !.rs[rec.index] = v,
                            !.cs[rec.column] = "basic"]
    BY <2>1, Zenon DEF PriceFold
  <2>6. v \in Status \ {"basic"}
    BY TargetNotBasic
  <2> HIDE DEF d, y, v
  <2>7. Statuses(s, sol.cs, sol.rs)
    BY <1>1 DEF Statuses
  <2> HIDE DEF s
  <2>8. CASE sol' = [s EXCEPT !.d[rec.column] = d]
    <3>1. Statuses(sol', sol.cs, sol.rs)
      BY <2>7, <2>8 DEF Statuses
    <3> QED BY <2>2, <3>1
  <2>9. CASE sol' = [s EXCEPT !.y[rec.index] = y, !.d[rec.column] = 0,
                              !.rs[rec.index] = v, !.cs[rec.column] = "basic"]
    <3>1. Statuses(sol', With(sol.cs, rec.column, "basic"), With(sol.rs, rec.index, v))
      BY <2>7, <2>9 DEF Statuses, With
    <3>2. Statuses(sol', sol.cs, With(sol.rs, rec.index, v))
      BY <2>4, <3>1
    <3> QED BY <2>2, <2>6, <3>2
  <2> QED BY <2>5, <2>8, <2>9
<1> QED BY <1>2, <1>3

\* Pricing a fold moves no basic entry.
LEMMA PriceFoldedKeeps ==
  ASSUME RecordsInv, DualsInv, PriceFoldedRow
  PROVE  DualsInv'
<1>1. PICK rec, k : rec = records[idx] /\ k = idx
  OBVIOUS
<1>2. /\ k \in Positions /\ IsFold(rec) /\ dual.stage = "folds" /\ rec.index \in Rows(model)
      /\ sol.rs[rec.index] \in Status \ {"basic"}
  BY <1>1, FoldAt
<1>3. /\ UNCHANGED <<model, work, records>> /\ idx' = idx - 1
      /\ Positions' = Positions /\ FreeColumns' = FreeColumns
  BY DEF PriceFoldedRow, Positions, FreeColumns
<1>4. /\ Statuses(sol', sol.cs, sol.rs) \/ \E v \in Status \ {"basic"} :
           Statuses(sol', sol.cs, With(sol.rs, rec.index, v))
      /\ \E final \in SUBSET (dual.final \cup {rec.column, rec.partner}) :
           /\ dual' = [dual EXCEPT !.final = final]
           /\ rec.kind = "free" => final \subseteq dual.final \cup {rec.column}
  BY <1>1, FoldStep
<1>5. PICK final \in SUBSET (dual.final \cup {rec.column, rec.partner}) :
        /\ dual' = [dual EXCEPT !.final = final]
        /\ rec.kind = "free" => final \subseteq dual.final \cup {rec.column}
  BY <1>4
<1>6. /\ sol.cs \in [Cols(model) -> Status] /\ sol.rs \in [Rows(model) -> Status] /\ MadeInv
  BY DEF DualsInv, SolIs
<1>7. /\ SolIs' /\ sol'.cs = sol.cs
      /\ Cardinality(BasicRows(sol'.rs)) = Cardinality(BasicRows(sol.rs))
      /\ \A r \in Rows(model) : r # rec.index => sol'.rs[r] = sol.rs[r]
      /\ sol'.rs[rec.index] # "basic"
  <2>1. CASE Statuses(sol', sol.cs, sol.rs)
    BY <1>2, <1>3, <1>6, <2>1 DEF Statuses, SolIs
  <2>2. CASE \E v \in Status \ {"basic"} : Statuses(sol', sol.cs, With(sol.rs, rec.index, v))
    <3>1. PICK v \in Status \ {"basic"} : Statuses(sol', sol.cs, With(sol.rs, rec.index, v))
      BY <2>2
    <3>2. /\ Cardinality(BasicRows(With(sol.rs, rec.index, v)))
               = Cardinality(BasicRows(sol.rs)) + One(v) - One(sol.rs[rec.index])
          /\ Cardinality(BasicRows(sol.rs)) \in Nat
          /\ With(sol.rs, rec.index, v) \in [Rows(model) -> Status]
      BY <1>2, <1>6, SetRow
    <3>3. One(v) = 0 /\ One(sol.rs[rec.index]) = 0
      BY <1>2 DEF One
    <3>4. /\ With(sol.rs, rec.index, v)[rec.index] = v
          /\ \A r \in Rows(model) : r # rec.index => With(sol.rs, rec.index, v)[r] = sol.rs[r]
      BY <1>2, <1>6 DEF With
    <3> QED BY <1>3, <1>6, <3>1, <3>2, <3>3, <3>4 DEF Statuses, SolIs
  <2> QED BY <1>4, <2>1, <2>2
<1>8. /\ dual' = [pass |-> dual'.pass, before |-> dual'.before, final |-> dual'.final,
                  engineStatus |-> dual'.engineStatus, madeBasic |-> dual'.madeBasic,
                  stage |-> dual'.stage]
      /\ dual'.engineStatus = dual.engineStatus /\ dual'.madeBasic = dual.madeBasic
      /\ dual'.stage = dual.stage /\ dual'.final = final
  BY <1>5, <1>6 DEF MadeInv
<1>9. \A p \in Positions : RecordInv(records[p], work, model)
  BY DEF RecordsInv
<1>10. \A p, q \in Positions : p < q => PairInv(records[p], records[q])
  BY DEF RecordsInv
<1>11. \A p \in Positions : records[p].kind = "singleton" =>
         records[p].index \in Rows(model) /\ sol'.rs[records[p].index] = sol.rs[records[p].index]
  <2> SUFFICES ASSUME NEW p \in Positions, records[p].kind = "singleton"
               PROVE  records[p].index \in Rows(model) /\ records[p].index # rec.index
    BY <1>7
  <2>1. p # k /\ p \in Int /\ k \in Int /\ rec.kind \in RowKinds /\ records[p].kind \in RowKinds
    BY <1>1, <1>2 DEF IsFold, Positions, RowKinds
  <2>2. records[p].index # rec.index
    BY <1>1, <1>2, <1>10, <2>1 DEF PairInv
  <2> QED BY <1>9, <2>1, <2>2 DEF RecordInv
<1>12. MadeInv'
  BY <1>3, <1>6, <1>7, <1>8, <1>11 DEF MadeInv
<1>13. ASSUME NEW p \in Positions PROVE FoldInv(p)'
  <2>1. FoldInv(p)
    BY DEF DualsInv
  <2>2. IsFold(records[p]) => records[p].index \in Rows(model)
    BY <1>9 DEF RecordInv, IsFold, RowKinds
  <2>3. IsFold(records[p]) => sol'.rs[records[p].index] # "basic"
    BY <1>7, <2>1, <2>2 DEF FoldInv
  <2> QED BY <1>3, <1>7, <2>1, <2>3 DEF FoldInv
<1>14. FinalInv'
  <2> SUFFICES ASSUME NEW q \in Positions, records[q].kind = "doubleton", q < k,
                      records[q].partner \in final
               PROVE  records[q].partner \in FreeColumns
    <3>1. \A q \in Positions : q <= idx' => q < k
      BY <1>1, <1>2, <1>3 DEF Positions
    <3> QED BY <1>2, <1>3, <1>8, <3>1 DEF FinalInv
  <2>1. CASE records[q].partner \in dual.final
    <3>1. q <= idx
      BY <1>1, <1>2 DEF Positions
    <3> QED BY <1>2, <2>1, <3>1 DEF DualsInv, FinalInv
  <2>2. CASE records[q].partner \notin dual.final
    <3>1. records[q].partner \in {rec.column, rec.partner}
      BY <1>5, <2>2
    <3>2. rec.kind = "free"
      <4>1. PairInv(records[q], rec)
        BY <1>1, <1>2, <1>10
      <4> QED BY <1>2, <3>1, <4>1 DEF PairInv, IsFold
    <3>3. records[q].partner = rec.column
      BY <1>5, <2>2, <3>2
    <3> QED BY <1>1, <1>2, <3>2, <3>3 DEF FreeColumns
  <2> QED BY <2>1, <2>2
<1>15. Basics(sol)' = Cardinality(Rows(model'))
  BY <1>3, <1>7 DEF DualsInv, Basics, BasicCols, BasicRows
<1>16. idx' \in 0 .. Len(records')
  BY <1>3 DEF DualsInv, PriceFoldedRow, RecordsInv
<1>17. \A p \in Positions' : records'[p].kind = "free" =>
         dual'.engineStatus[records'[p].column] = "basic"
  BY <1>3, <1>8 DEF DualsInv
<1>18. dual'.stage \in {"rows", "folds", "deferred"}
  BY <1>8 DEF DualsInv
<1> QED BY <1>3, <1>7, <1>12, <1>13, <1>14, <1>15, <1>16, <1>17, <1>18 DEF DualsInv

\* Every step of the prices.
LEMMA DualsKeep ==
  ASSUME RecordsInv, DualsInv, pc = "duals", Next
  PROVE  \/ pc' = "duals" /\ DualsInv'
         \/ pc' = "costs" /\ SolIs' /\ Basics(sol)' = Cardinality(Rows(model'))
<1>1. CASE PriceSingletonRow
  <2>1. pc' = "duals"
    BY <1>1 DEF PriceSingletonRow
  <2> QED BY <1>1, <2>1, PriceSingletonKeeps
<1>2. CASE PriceFoldedRow
  <2>1. pc' = "duals"
    BY <1>2 DEF PriceFoldedRow
  <2> QED BY <1>2, <2>1, PriceFoldedKeeps
<1>3. CASE SkipRecord
  <2>1. /\ UNCHANGED <<model, work, records, sol, dual, pc>> /\ idx' = idx - 1
        /\ idx \in 0 .. Len(records) /\ idx > 0 /\ Len(records) \in Nat
    BY <1>3 DEF SkipRecord, DualsInv, RecordsInv
  <2>2. FinalInv'
    BY <2>1 DEF DualsInv, FinalInv, Positions, FreeColumns
  <2>3. MadeInv' /\ \A p \in Positions' : FoldInv(p)'
    BY <2>1 DEF DualsInv, MadeInv, FoldInv, Positions, FreeColumns
  <2> QED BY <2>1, <2>2, <2>3 DEF DualsInv, SolIs, Positions, Basics, BasicCols, BasicRows
<1>4. CASE NextStage
  <2>1. /\ UNCHANGED <<model, work, records, sol, pc>> /\ idx' = Len(records)
        /\ Len(records) \in Nat /\ MadeInv
        /\ dual' = [dual EXCEPT !.stage = IF @ = "rows" THEN "folds" ELSE "deferred"]
        /\ dual.stage \in {"rows", "folds"}
    BY <1>4 DEF NextStage, DualsInv, RecordsInv
  <2>2. /\ dual' = [pass |-> dual'.pass, before |-> dual'.before, final |-> dual'.final,
                    engineStatus |-> dual'.engineStatus, madeBasic |-> dual'.madeBasic,
                    stage |-> dual'.stage]
        /\ dual'.engineStatus = dual.engineStatus /\ dual'.madeBasic = dual.madeBasic
        /\ dual'.final = dual.final
        /\ dual'.stage = IF dual.stage = "rows" THEN "folds" ELSE "deferred"
    BY <2>1 DEF MadeInv
  <2>3. FinalInv'
    BY <2>1, <2>2 DEF DualsInv, FinalInv, Positions, FreeColumns
  <2>4. MadeInv' /\ \A p \in Positions' : FoldInv(p)'
    BY <2>1, <2>2 DEF DualsInv, MadeInv, FoldInv, Positions, FreeColumns
  <2> QED BY <2>1, <2>2, <2>3, <2>4
          DEF DualsInv, SolIs, Positions, Basics, BasicCols, BasicRows
<1>5. CASE EndDualPass
  <2>1. CASE sol.y = dual.before \/ dual.pass = MaxDualPasses
    BY <1>5, <2>1 DEF EndDualPass, DualsInv, SolIs, Basics, BasicCols, BasicRows
  <2>2. CASE ~(sol.y = dual.before \/ dual.pass = MaxDualPasses)
    <3>1. /\ UNCHANGED <<model, work, records, sol, pc>> /\ idx' = Len(records)
          /\ Len(records) \in Nat /\ MadeInv
          /\ dual' = [dual EXCEPT !.pass = @ + 1, !.before = sol.y, !.final = {}, !.stage = "rows"]
      BY <1>5, <2>2 DEF EndDualPass, DualsInv, RecordsInv
    <3>2. /\ dual' = [pass |-> dual'.pass, before |-> dual'.before, final |-> dual'.final,
                      engineStatus |-> dual'.engineStatus, madeBasic |-> dual'.madeBasic,
                      stage |-> dual'.stage]
          /\ dual'.engineStatus = dual.engineStatus /\ dual'.madeBasic = dual.madeBasic
          /\ dual'.final = {} /\ dual'.stage = "rows"
      BY <3>1 DEF MadeInv
    <3>3. FinalInv'
      BY <3>2 DEF FinalInv
    <3>4. MadeInv' /\ \A p \in Positions' : FoldInv(p)'
      BY <3>1, <3>2 DEF DualsInv, MadeInv, FoldInv, Positions, FreeColumns
    <3> QED BY <3>1, <3>2, <3>3, <3>4
            DEF DualsInv, SolIs, Positions, Basics, BasicCols, BasicRows
  <2> QED BY <2>1, <2>2
<1>6. ~(PresolveNext \/ SolveReduced \/ Scatter \/ ReplayValue \/ ToDuals \/ RecomputeCosts)
  BY DEF PresolveNext, FixColumn, DropEmptyColumn, EliminateFreeColumn, KeepColumn, DropRow,
         TurnIntoBound, SubstituteDoubleton, KeepRow, SkipDead, ProveInfeasible, ToRows, NextPass,
         Compact, AtColumn, AtRow, SolveReduced, Scatter, ReplayValue, ToDuals, RecomputeCosts
<1> QED BY <1>1, <1>2, <1>3, <1>4, <1>5, <1>6 DEF Next

-----------------------------------------------------------------------------
\* The invariant

LEMMA InitIInv == Init => IInv
<1> SUFFICES ASSUME Init PROVE IInv
  OBVIOUS
<1>1. /\ model \in Models /\ records = <<>> /\ pc = "columns" /\ work = Workspace(model)
  BY DEF Init, PresolveInit
<1>2. /\ WorkIs(work) /\ work.cols = Cols(model) /\ work.rows = Rows(model)
      /\ work.doubleton = {} /\ work.singleton = {}
  BY <1>1 DEF Workspace, WorkIs
<1>3. Positions = {} /\ records \in Seq({})
  BY <1>1 DEF Positions
<1>4. RecordsInv
  BY <1>1, <1>2, <1>3 DEF RecordsInv
<1> QED BY <1>1, <1>4 DEF IInv, StatusInv

\* After presolve its records stay.
LEMMA RecordsKept == RecordsInv /\ UNCHANGED <<model, work, records>> => RecordsInv'
BY DEF RecordsInv, Positions

LEMMA NextIInv == IInv /\ [Next]_vars => IInv'
<1> SUFFICES ASSUME IInv, [Next]_vars PROVE IInv'
  OBVIOUS
<1>1. RecordsInv /\ (model.int = {} => StatusInv)
  BY DEF IInv
<1>2. CASE PresolveNext
  <2>1. RecordsInv' /\ pc' \in {"columns", "rows", "infeasible", "reduced"}
    BY <1>1, <1>2, PresolveKeeps
  <2> QED BY <2>1 DEF IInv, StatusInv
<1>3. CASE SolveReduced
  <2>1. UNCHANGED <<model, work, records>> /\ pc' = "scatter"
    BY <1>3 DEF SolveReduced
  <2>2. model.int = {} => AnswerInv'
    BY <1>1, <1>3, SolveReducedGives
  <2> QED BY <1>1, <2>1, <2>2, RecordsKept DEF IInv, StatusInv
<1>4. CASE Scatter
  <2>1. UNCHANGED <<model, work, records>> /\ pc = "scatter" /\ pc' = "values"
    BY <1>4 DEF Scatter
  <2>2. model.int = {} => ValuesInv'
    BY <1>1, <1>4, <2>1, ScatterGives DEF StatusInv
  <2> QED BY <1>1, <2>1, <2>2, RecordsKept DEF IInv, StatusInv
<1>5. CASE ReplayValue
  <2>1. UNCHANGED <<model, work, records>> /\ pc = "values" /\ pc' = "values"
    BY <1>5 DEF ReplayValue
  <2>2. model.int = {} => ValuesInv'
    BY <1>1, <1>5, <2>1, ReplayValueKeeps DEF StatusInv
  <2> QED BY <1>1, <2>1, <2>2, RecordsKept DEF IInv, StatusInv
<1>6. CASE ToDuals
  <2>1. UNCHANGED <<model, work, records>> /\ pc = "values"
    BY <1>6 DEF ToDuals
  <2>2. model.int = {} => DualsInv' /\ pc' = "duals"
    BY <1>1, <1>6, <2>1, ToDualsGives DEF StatusInv
  <2> QED BY <1>1, <2>1, <2>2, RecordsKept DEF IInv, StatusInv
<1>7. CASE PriceSingletonRow \/ PriceFoldedRow \/ SkipRecord \/ NextStage \/ EndDualPass
  <2>1. UNCHANGED <<model, work, records>> /\ pc = "duals" /\ Next
    BY <1>7 DEF PriceSingletonRow, PriceFoldedRow, SkipRecord, NextStage, EndDualPass, Next
  <2>2. model.int = {} =>
          \/ pc' = "duals" /\ DualsInv'
          \/ pc' = "costs" /\ SolIs' /\ Basics(sol)' = Cardinality(Rows(model'))
    BY <1>1, <2>1, DualsKeep DEF StatusInv
  <2> QED BY <1>1, <2>1, <2>2, RecordsKept DEF IInv, StatusInv
<1>8. CASE RecomputeCosts
  <2>1. UNCHANGED <<model, work, records>> /\ pc = "costs" /\ pc' = "done"
    BY <1>8 DEF RecomputeCosts
  <2>2. \E d : sol' = [sol EXCEPT !.d = d]
    BY <1>8, Zenon DEF RecomputeCosts
  <2>3. model.int = {} => SolIs /\ Basics(sol) = Cardinality(Rows(model))
    BY <1>1, <2>1 DEF StatusInv
  <2>4. model.int = {} => SolIs' /\ Basics(sol)' = Cardinality(Rows(model'))
    BY <2>1, <2>2, <2>3 DEF SolIs, Basics, BasicCols, BasicRows
  <2> QED BY <1>1, <2>1, <2>4, RecordsKept DEF IInv, StatusInv
<1>9. CASE UNCHANGED vars
  BY <1>1, <1>9 DEF vars, IInv, RecordsInv, StatusInv, Positions, AnswerInv, ValuesInv, DualsInv,
     SolIs, MadeInv, FinalInv, FoldInv, FreeColumns, Pending, Basics, BasicCols, BasicRows
<1> QED BY <1>2, <1>3, <1>4, <1>5, <1>6, <1>7, <1>8, <1>9 DEF Next

\* The inductive invariant holds of every behaviour.
THEOREM PostsolveInvariant == Spec => []IInv
BY InitIInv, NextIInv, PTL DEF Spec

\* No column and no row is removed twice, and what a record removed is not in the reduced
\* model: postsolve restores each of them once.
RemovedOnce ==
  /\ \A p \in Positions :
       /\ records[p].kind \in ColumnKinds => ColumnOf(records[p]) \in Cols(model) \ work.cols
       /\ records[p].kind \in RowKinds => records[p].index \in Rows(model) \ work.rows
  /\ \A p, q \in Positions : p < q =>
       /\ records[p].kind \in ColumnKinds /\ records[q].kind \in ColumnKinds =>
            ColumnOf(records[p]) # ColumnOf(records[q])
       /\ records[p].kind \in RowKinds /\ records[q].kind \in RowKinds =>
            records[p].index # records[q].index

THEOREM RestoredOnce == Spec => []RemovedOnce
<1>1. IInv => RemovedOnce
  BY DEF IInv, RecordsInv, RecordInv, PairInv, RemovedOnce
<1> QED BY <1>1, PostsolveInvariant, PTL

\* Every restored row adds one basic entry, so the statuses handed back are a basis.
THEOREM BasisIsWhole == Spec => []BasisWhole
<1>1. IInv => BasisWhole
  BY DEF IInv, StatusInv, Basics, BasicCols, BasicRows, BasicIn, BasisWhole
<1> QED BY <1>1, PostsolveInvariant, PTL
=============================================================================
