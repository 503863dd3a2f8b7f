--------------------------- MODULE CutRows_proofs ---------------------------
(***************************************************************************)
(* The stored bases fit the rows of the working model, the bounds a round  *)
(* separates under hold at every feasible point, and so does every row the *)
(* separators add, for any models, rows per round, ages and number of      *)
(* nodes: tightened rows, lifted covers, mixed-integer rounding of         *)
(* aggregates, cliques, {0,1/2} cuts and Gomory mixed-integer cuts.  The   *)
(* objective step is one.                                                  *)
(***************************************************************************)
EXTENDS CutRows, SequenceTheorems, FiniteSetTheorems, WellFoundedInduction, TLAPS

-----------------------------------------------------------------------------
\* The inductive invariant

IsSeq(s) == s \in Seq(ToSet(s))

\* A basis of n rows: a status of each, and as many basic variables as rows.
Fits(basis, n) ==
  /\ basis = [cols |-> basis.cols, rows |-> basis.rows]
  /\ basis.cols \in Nat /\ basis.rows \in [1 .. n -> BOOLEAN]
  /\ basis.cols + BasicRows(basis) = n

ShapeInv ==
  /\ IsSeq(rows) /\ IsSeq(pool) /\ IsSeq(ages) /\ IsSeq(freed) /\ IsSeq(stored)
  /\ Len(pool) <= Len(rows) /\ Len(ages) = Len(pool) /\ Len(freed) = Len(pool)

\* The pool holds the last rows.
PoolInv == \A k \in 1 .. Len(pool) : rows[Len(rows) - Len(pool) + k].coef = pool[k].coef

StoredInv ==
  /\ Fits(current, Len(rows))
  /\ \A k \in 1 .. Len(stored) : Fits(stored[k], Len(rows))

\* What a rollback would go back to: the rows before the round, in every stored basis of
\* which the rows of the round are basic.
BeforeInv ==
  at = "resolve" =>
    /\ IsSeq(before.rows) /\ before.pool \in 0 .. Len(pool)
    /\ Len(rows) = Len(before.rows) + (Len(pool) - before.pool)
    /\ \A i \in 1 .. Len(before.rows) : rows[i] = before.rows[i]
    /\ Fits(before.current, Len(before.rows))
    /\ \A k \in 1 .. Len(stored) :
         \A i \in Len(before.rows) + 1 .. Len(rows) : stored[k].rows[i]

IInv == ShapeInv /\ PoolInv /\ StoredInv /\ BeforeInv

-----------------------------------------------------------------------------
\* Sequences

\* A function over 1 .. n is a sequence.
LEMMA FunctionIsSeq ==
  ASSUME NEW s, NEW n \in Nat, s = [i \in 1 .. n |-> s[i]]
  PROVE  IsSeq(s) /\ Len(s) = n /\ DOMAIN s = 1 .. n
<1>1. DOMAIN s = 1 .. n
  OBVIOUS
<1>2. s \in [1 .. n -> ToSet(s)]
  BY <1>1 DEF ToSet
<1>3. s \in Seq(ToSet(s))
  BY <1>2
<1> QED BY <1>1, <1>3, LenProperties DEF IsSeq

\* What a sequence is.
LEMMA SeqIs ==
  ASSUME NEW s, IsSeq(s)
  PROVE  Len(s) \in Nat /\ DOMAIN s = 1 .. Len(s) /\ s = [i \in 1 .. Len(s) |-> s[i]]
BY LenProperties DEF IsSeq

\* What appending does.
LEMMA ConcatIs ==
  ASSUME NEW s, NEW t, IsSeq(s), IsSeq(t)
  PROVE  /\ IsSeq(s \o t) /\ Len(s \o t) = Len(s) + Len(t)
         /\ \A i \in 1 .. Len(s) : (s \o t)[i] = s[i]
         /\ \A i \in 1 .. Len(t) : (s \o t)[Len(s) + i] = t[i]
<1> DEFINE S == ToSet(s) \cup ToSet(t)
<1>1. s \in Seq(S) /\ t \in Seq(S)
  BY SeqMonotonic DEF IsSeq
<1> HIDE DEF S
<1>2. s \o t \in Seq(S) /\ Len(s \o t) = Len(s) + Len(t)
  BY <1>1, ConcatProperties
<1>3. \A i \in 1 .. Len(s) + Len(t) :
        (s \o t)[i] = IF i <= Len(s) THEN s[i] ELSE t[i - Len(s)]
  BY <1>1, ConcatProperties
<1>4. Len(s) \in Nat /\ Len(t) \in Nat
  BY <1>1, LenProperties
<1>5. IsSeq(s \o t)
  <2>1. s \o t = [i \in 1 .. Len(s) + Len(t) |-> (s \o t)[i]]
    BY <1>2, LenProperties
  <2> QED BY <1>4, <2>1, FunctionIsSeq
<1>6. ASSUME NEW i \in 1 .. Len(s) PROVE (s \o t)[i] = s[i]
  BY <1>3, <1>4
<1>7. ASSUME NEW i \in 1 .. Len(t) PROVE (s \o t)[Len(s) + i] = t[i]
  <2>1. Len(s) + i \in 1 .. Len(s) + Len(t) /\ ~(Len(s) + i <= Len(s)) /\ Len(s) + i - Len(s) = i
    BY <1>4
  <2> QED BY <1>3, <2>1
<1> QED BY <1>2, <1>5, <1>6, <1>7

\* What a prefix is.
LEMMA PrefixIs ==
  ASSUME NEW s, IsSeq(s), NEW n \in 0 .. Len(s)
  PROVE  /\ IsSeq(SubSeq(s, 1, n)) /\ Len(SubSeq(s, 1, n)) = n
         /\ \A i \in 1 .. n : SubSeq(s, 1, n)[i] = s[i]
<1>1. SubSeq(s, 1, n) = [i \in 1 .. n |-> s[i]]
  BY SeqIs, SMT
<1> DEFINE t == SubSeq(s, 1, n)
<1>2. t = [i \in 1 .. n |-> t[i]] /\ n \in Nat /\ \A i \in 1 .. n : t[i] = s[i]
  BY <1>1, SeqIs
<1> HIDE DEF t
<1>3. IsSeq(t) /\ Len(t) = n
  BY <1>2, FunctionIsSeq
<1> QED BY <1>2, <1>3 DEF t

-----------------------------------------------------------------------------
\* Bases

\* The statuses of a basis that fits.
LEMMA RowsOfFit ==
  ASSUME NEW basis, NEW n \in Nat, Fits(basis, n)
  PROVE  /\ DOMAIN basis.rows = 1 .. n /\ Len(basis.rows) = n
         /\ BasicRows(basis) = Cardinality({i \in 1 .. n : basis.rows[i]})
<1>1. basis.rows = [i \in 1 .. n |-> basis.rows[i]]
  BY DEF Fits
<1> QED BY <1>1, FunctionIsSeq DEF BasicRows

\* The rows of 1 .. n + m that are basic, when all after n are.
LEMMA CountLast ==
  ASSUME NEW n \in Nat, NEW m \in Nat, NEW status \in [1 .. n + m -> BOOLEAN],
         \A i \in n + 1 .. n + m : status[i]
  PROVE  Cardinality({i \in 1 .. n + m : status[i]}) = Cardinality({i \in 1 .. n : status[i]}) + m
<1> DEFINE S == {i \in 1 .. n : status[i]}
           T == n + 1 .. n + m
<1>1. {i \in 1 .. n + m : status[i]} = S \cup T
  OBVIOUS
<1>2. S \cap T = {}
  OBVIOUS
<1>3. IsFiniteSet(S)
  <2>1. IsFiniteSet(1 .. n) /\ S \subseteq 1 .. n
    BY FS_Interval
  <2> QED BY <2>1, FS_Subset
<1>4. IsFiniteSet(T) /\ Cardinality(T) = m
  <2>1. n + 1 \in Int /\ n + m \in Int
    OBVIOUS
  <2>2. IsFiniteSet(T) /\ Cardinality(T) = IF n + 1 > n + m THEN 0 ELSE n + m - (n + 1) + 1
    BY <2>1, FS_Interval
  <2> QED BY <2>2
<1>5. Cardinality(S \cap T) = 0
  BY <1>2, FS_EmptySet
<1>6. Cardinality(S) \in Nat
  BY <1>3, FS_CardinalityType
<1>7. Cardinality(S \cup T) = Cardinality(S) + Cardinality(T) - Cardinality(S \cap T)
  BY <1>3, <1>4, FS_Union
<1> HIDE DEF S, T
<1>8. Cardinality({i \in 1 .. n + m : status[i]}) = Cardinality(S) + m
  <2>1. Cardinality(S \cup T) = Cardinality(S) + m
    BY <1>4, <1>5, <1>6, <1>7
  <2> QED BY <1>1, <2>1, Zenon
<1> QED BY <1>8 DEF S

\* New rows are basic: a basis that fitted n rows fits n + m.
LEMMA Extended ==
  ASSUME NEW basis, NEW n \in Nat, NEW m \in Nat, Fits(basis, n)
  PROVE  /\ Fits(Resized(basis, n + m), n + m)
         /\ \A i \in n + 1 .. n + m : Resized(basis, n + m).rows[i]
<1> DEFINE status == [i \in 1 .. n + m |-> IF i \in DOMAIN basis.rows THEN basis.rows[i] ELSE TRUE]
<1>1. DOMAIN basis.rows = 1 .. n /\ basis.rows \in [1 .. n -> BOOLEAN] /\ basis.cols \in Nat
  BY RowsOfFit DEF Fits
<1>2. Resized(basis, n + m) = [basis EXCEPT !.rows = status]
  BY Zenon DEF Resized
<1>3. status \in [1 .. n + m -> BOOLEAN]
  BY <1>1
<1>4. \A i \in n + 1 .. n + m : status[i]
  BY <1>1
<1>5. \A i \in 1 .. n : status[i] = basis.rows[i]
  BY <1>1
<1> HIDE DEF status
<1>6. /\ Resized(basis, n + m) = [cols |-> basis.cols, rows |-> status]
      /\ Resized(basis, n + m).rows = status /\ DOMAIN status = 1 .. n + m
  BY <1>2, <1>3 DEF Fits
<1>7. Cardinality({i \in 1 .. n + m : status[i]}) = BasicRows(basis) + m
  <2>1. {i \in 1 .. n : status[i]} = {i \in 1 .. n : basis.rows[i]}
    BY <1>5
  <2>2. Cardinality({i \in 1 .. n + m : status[i]}) = Cardinality({i \in 1 .. n : status[i]}) + m
    BY <1>3, <1>4, CountLast
  <2>3. BasicRows(basis) = Cardinality({i \in 1 .. n : basis.rows[i]})
    BY RowsOfFit
  <2> QED BY <2>1, <2>2, <2>3
<1>8. BasicRows(Resized(basis, n + m)) = BasicRows(basis) + m
  BY <1>6, <1>7, Zenon DEF BasicRows
<1>9. basis.cols + BasicRows(basis) = n
  BY DEF Fits
<1>10. BasicRows(basis) \in Nat
  <2>1. IsFiniteSet(1 .. n) /\ {i \in 1 .. n : basis.rows[i]} \subseteq 1 .. n
    BY FS_Interval
  <2>2. Cardinality({i \in 1 .. n : basis.rows[i]}) \in Nat
    BY <2>1, FS_Subset, FS_CardinalityType
  <2> QED BY <2>2, RowsOfFit
<1>11. basis.cols + BasicRows(Resized(basis, n + m)) = n + m
  BY <1>1, <1>8, <1>9, <1>10
<1> QED BY <1>1, <1>3, <1>4, <1>6, <1>11 DEF Fits

\* Rows that are basic may be taken back: a basis that fitted n + m rows fits n.
LEMMA CutBack ==
  ASSUME NEW basis, NEW n \in Nat, NEW m \in Nat, Fits(basis, n + m),
         \A i \in n + 1 .. n + m : basis.rows[i]
  PROVE  Fits(Resized(basis, n), n)
<1> DEFINE status == [i \in 1 .. n |-> IF i \in DOMAIN basis.rows THEN basis.rows[i] ELSE TRUE]
<1>1. n + m \in Nat
  OBVIOUS
<1>2. /\ DOMAIN basis.rows = 1 .. n + m /\ basis.rows \in [1 .. n + m -> BOOLEAN]
      /\ basis.cols \in Nat /\ basis.cols + BasicRows(basis) = n + m
      /\ BasicRows(basis) = Cardinality({i \in 1 .. n + m : basis.rows[i]})
  BY <1>1, RowsOfFit DEF Fits
<1>3. Resized(basis, n) = [basis EXCEPT !.rows = status]
  BY Zenon DEF Resized
<1>4. status \in [1 .. n -> BOOLEAN]
  <2>1. \A i \in 1 .. n : i \in 1 .. n + m
    OBVIOUS
  <2>2. \A i \in 1 .. n : basis.rows[i] \in BOOLEAN
    BY <1>2, <2>1
  <2> QED BY <2>2
<1>5. \A i \in 1 .. n : status[i] = basis.rows[i]
  <2>1. \A i \in 1 .. n : i \in 1 .. n + m
    OBVIOUS
  <2> QED BY <1>2, <2>1
<1> HIDE DEF status
<1>6. BasicRows(basis) = Cardinality({i \in 1 .. n : basis.rows[i]}) + m
  BY <1>2, CountLast
<1>7. /\ Resized(basis, n) = [cols |-> basis.cols, rows |-> status]
      /\ Resized(basis, n).rows = status /\ DOMAIN status = 1 .. n
  BY <1>3, <1>4 DEF Fits
<1>8. BasicRows(Resized(basis, n)) = Cardinality({i \in 1 .. n : basis.rows[i]})
  <2>1. {i \in 1 .. n : status[i]} = {i \in 1 .. n : basis.rows[i]}
    BY <1>5
  <2> QED BY <1>7, <2>1, Zenon DEF BasicRows
<1>9. Cardinality({i \in 1 .. n : basis.rows[i]}) \in Nat
  <2>1. IsFiniteSet(1 .. n) /\ {i \in 1 .. n : basis.rows[i]} \subseteq 1 .. n
    BY FS_Interval
  <2> QED BY <2>1, FS_Subset, FS_CardinalityType
<1>10. basis.cols + BasicRows(Resized(basis, n)) = n
  BY <1>2, <1>6, <1>8, <1>9
<1> QED BY <1>2, <1>4, <1>7, <1>10 DEF Fits

\* What a relaxation leaves fits the rows it was solved with.
LEMMA BasesFitRows ==
  ASSUME IsSeq(rows), NEW basis \in Bases
  PROVE  Fits(basis, Len(rows))
<1>1. PICK status \in [DOMAIN rows -> BOOLEAN] :
        basis = [cols |-> Cardinality({i \in DOMAIN rows : ~status[i]}), rows |-> status]
  BY DEF Bases
<1> DEFINE S == {i \in DOMAIN rows : status[i]}
           T == {i \in DOMAIN rows : ~status[i]}
<1>2. DOMAIN rows = 1 .. Len(rows) /\ Len(rows) \in Nat
  BY SeqIs
<1>3. IsFiniteSet(DOMAIN rows) /\ Cardinality(DOMAIN rows) = Len(rows)
  <2>1. Cardinality(1 .. Len(rows)) = IF 1 > Len(rows) THEN 0 ELSE Len(rows) - 1 + 1
    BY <1>2, FS_Interval
  <2> QED BY <1>2, <2>1, FS_Interval
<1>4. IsFiniteSet(S) /\ IsFiniteSet(T)
  BY <1>3, FS_Subset
<1>5. S \cup T = DOMAIN rows /\ S \cap T = {}
  OBVIOUS
<1>6. Cardinality(S \cup T) = Cardinality(S) + Cardinality(T) - Cardinality(S \cap T)
  BY <1>4, FS_Union
<1>7. Cardinality(S) \in Nat /\ Cardinality(T) \in Nat /\ Cardinality(S \cap T) = 0
  BY <1>4, <1>5, FS_CardinalityType, FS_EmptySet
<1>8. Cardinality(T) + Cardinality(S) = Len(rows)
  BY <1>3, <1>5, <1>6, <1>7
<1>9. basis.cols = Cardinality(T) /\ basis.rows = status /\ BasicRows(basis) = Cardinality(S)
  BY <1>1 DEF BasicRows
<1> QED BY <1>1, <1>2, <1>7, <1>8, <1>9 DEF Fits

-----------------------------------------------------------------------------
\* The initial states

\* Tightening keeps the number of rows.
LEMMA TightenedRows ==
  ASSUME NEW m \in Models
  PROVE  RowsOf(TightenIntegralRows(m)) =
           [i \in 1 .. Len(m.rl) |-> RowsOf(TightenIntegralRows(m))[i]]
<1> DEFINE eligible(r) == Support(ModelRow(m, r)) # {} /\ Support(ModelRow(m, r)) \subseteq m.int
           lower == [r \in DOMAIN m.rl |-> IF eligible(r) THEN RoundUp(m.rl[r]) ELSE m.rl[r]]
           upper == [r \in DOMAIN m.ru |-> IF eligible(r) THEN RoundDown(m.ru[r]) ELSE m.ru[r]]
           t == [m EXCEPT !.rl = lower, !.ru = upper]
<1>1. TightenIntegralRows(m) = t
  BY Zenon DEF TightenIntegralRows
<1>2. {"rl", "ru"} \subseteq DOMAIN m /\ m.rl \in Seq(Int)
  BY CutRowsAssumption DEF WellFormed
<1>3. DOMAIN m.rl = 1 .. Len(m.rl) /\ DOMAIN lower = DOMAIN m.rl
  BY <1>2, LenProperties
<1> HIDE DEF lower, upper, eligible
<1>4. t.rl = lower
  BY <1>2
<1> HIDE DEF t
<1>5. DOMAIN TightenIntegralRows(m).rl = 1 .. Len(m.rl)
  BY <1>1, <1>3, <1>4, Zenon
<1> QED BY <1>5 DEF RowsOf

\* The empty sequence is one.
LEMMA EmptyIs == IsSeq(<<>>) /\ Len(<<>>) = 0
BY DEF IsSeq, ToSet

\* The search starts with the rows of the model, no cut and no open node.
LEMMA InitIInv == Init => IInv
<1> SUFFICES ASSUME Init PROVE IInv
  OBVIOUS
<1> DEFINE n == Len(rows)
<1>1. IsSeq(rows) /\ n \in Nat /\ DOMAIN rows = 1 .. n
  <2>1. rows = [i \in 1 .. Len(model.rl) |-> rows[i]] /\ Len(model.rl) \in Nat
    <3>1. model \in Models /\ rows = RowsOf(TightenIntegralRows(model))
      BY Zenon DEF Init
    <3>2. rows = [i \in 1 .. Len(model.rl) |-> rows[i]]
      BY <3>1, TightenedRows, Zenon
    <3>3. Len(model.rl) \in Nat
      BY <3>1, CutRowsAssumption, LenProperties DEF WellFormed
    <3> QED BY <3>2, <3>3
  <2> QED BY <2>1, FunctionIsSeq
<1>2. pool = <<>> /\ ages = <<>> /\ freed = <<>> /\ stored = <<>> /\ at = "round"
  BY Zenon DEF Init
<1>3. ShapeInv
  BY <1>1, <1>2, EmptyIs DEF ShapeInv
<1>4. PoolInv /\ BeforeInv
  BY <1>2, EmptyIs DEF PoolInv, BeforeInv
<1>5. Fits(current, n)
  <2>1. current = [cols |-> 0, rows |-> [i \in 1 .. n |-> TRUE]]
    BY <1>1, Zenon DEF Init
  <2> DEFINE S == {i \in 1 .. n : TRUE}
  <2>2. current.cols = 0 /\ current.rows = [i \in 1 .. n |-> TRUE]
    BY <2>1
  <2>3. BasicRows(current) = Cardinality(1 .. n)
    <3>1. {i \in DOMAIN current.rows : current.rows[i]} = 1 .. n
      BY <2>2
    <3> QED BY <3>1, Zenon DEF BasicRows
  <2>4. Cardinality(1 .. n) = n
    <3>1. Cardinality(1 .. n) = IF 1 > n THEN 0 ELSE n - 1 + 1
      BY <1>1, FS_Interval
    <3> QED BY <1>1, <3>1
  <2> HIDE DEF n
  <2> QED BY <1>1, <2>1, <2>2, <2>3, <2>4 DEF Fits
<1>6. StoredInv
  BY <1>2, <1>5, EmptyIs DEF StoredInv
<1> QED BY <1>3, <1>4, <1>6 DEF IInv

-----------------------------------------------------------------------------
\* The steps

\* Where a step of the invariant speaks of: the lengths, as numbers.
LEMMA Lengths ==
  ASSUME IInv
  PROVE  /\ Len(rows) \in Nat /\ Len(pool) \in Nat /\ Len(ages) = Len(pool)
         /\ Len(freed) = Len(pool) /\ Len(stored) \in Nat /\ Len(pool) <= Len(rows)
         /\ DOMAIN rows = 1 .. Len(rows) /\ DOMAIN pool = 1 .. Len(pool)
         /\ DOMAIN ages = 1 .. Len(pool) /\ DOMAIN freed = 1 .. Len(pool)
         /\ DOMAIN stored = 1 .. Len(stored)
BY SeqIs DEF IInv, ShapeInv

\* A round appends as many rows to the model as to the pool, and to every basis.
LEMMA RoundStep == IInv /\ Round => IInv'
<1> SUFFICES ASSUME IInv, Round PROVE IInv'
  OBVIOUS
<1> DEFINE n == Len(rows)
           p == Len(pool)
<1>1. PICK m, S, accepted :
        /\ m \in 1 .. RowsPerRound /\ accepted \in [1 .. m -> S]
        /\ AppendCutRows(accepted)
  <2>1. PICK x \in Relaxations, m \in 1 .. RowsPerRound :
          \E accepted \in [1 .. m -> Violated(Candidates(x), x)] : AppendCutRows(accepted)
    BY Zenon DEF Round
  <2> QED BY <2>1, Zenon
<1>2. /\ before' = [rows |-> rows, pool |-> p, current |-> current]
      /\ at' = "resolve"
  BY Zenon DEF Round
<1>3. m \in Nat
  BY <1>1, CutRowsAssumption
<1>4. IsSeq(accepted) /\ Len(accepted) = m /\ DOMAIN accepted = 1 .. m
  <2>1. accepted = [i \in 1 .. m |-> accepted[i]]
    BY <1>1
  <2> QED BY <1>3, <2>1, FunctionIsSeq
<1>5. /\ n \in Nat /\ p \in Nat /\ p <= n /\ Len(ages) = p /\ Len(freed) = p
      /\ IsSeq(rows) /\ IsSeq(pool) /\ IsSeq(ages) /\ IsSeq(freed) /\ IsSeq(stored)
      /\ Len(stored) \in Nat /\ DOMAIN stored = 1 .. Len(stored)
  BY Lengths DEF IInv, ShapeInv
<1>6. /\ rows' = rows \o accepted /\ pool' = pool \o accepted
      /\ ages' = ages \o [i \in 1 .. m |-> 0] /\ freed' = freed \o [i \in 1 .. m |-> FALSE]
      /\ stored' = [k \in DOMAIN stored |-> Resized(stored[k], n + m)]
      /\ current' = Resized(current, n + m)
  BY <1>1, <1>4, Zenon DEF AppendCutRows
<1>7. /\ IsSeq(rows') /\ Len(rows') = n + m /\ IsSeq(pool') /\ Len(pool') = p + m
      /\ \A i \in 1 .. n : rows'[i] = rows[i]
      /\ \A i \in 1 .. m : rows'[n + i] = accepted[i]
      /\ \A i \in 1 .. p : pool'[i] = pool[i]
      /\ \A i \in 1 .. m : pool'[p + i] = accepted[i]
  <2>1. /\ IsSeq(rows \o accepted) /\ Len(rows \o accepted) = n + m
        /\ \A i \in 1 .. n : (rows \o accepted)[i] = rows[i]
        /\ \A i \in 1 .. m : (rows \o accepted)[n + i] = accepted[i]
    BY <1>4, <1>5, ConcatIs
  <2>2. /\ IsSeq(pool \o accepted) /\ Len(pool \o accepted) = p + m
        /\ \A i \in 1 .. p : (pool \o accepted)[i] = pool[i]
        /\ \A i \in 1 .. m : (pool \o accepted)[p + i] = accepted[i]
    BY <1>4, <1>5, ConcatIs
  <2> QED BY <1>6, <2>1, <2>2, Zenon
<1>8. IsSeq(ages') /\ Len(ages') = p + m
  <2> DEFINE new == [i \in 1 .. m |-> 0]
  <2>1. IsSeq(new) /\ Len(new) = m
    <3>1. new = [i \in 1 .. m |-> new[i]]
      OBVIOUS
    <3> QED BY <1>3, <3>1, FunctionIsSeq
  <2> HIDE DEF new
  <2>2. IsSeq(ages \o new) /\ Len(ages \o new) = p + m
    BY <1>5, <2>1, ConcatIs
  <2> QED BY <1>6, <2>2, Zenon DEF new
<1>9. IsSeq(freed') /\ Len(freed') = p + m
  <2> DEFINE new == [i \in 1 .. m |-> FALSE]
  <2>1. IsSeq(new) /\ Len(new) = m
    <3>1. new = [i \in 1 .. m |-> new[i]]
      OBVIOUS
    <3> QED BY <1>3, <3>1, FunctionIsSeq
  <2> HIDE DEF new
  <2>2. IsSeq(freed \o new) /\ Len(freed \o new) = p + m
    BY <1>5, <2>1, ConcatIs
  <2> QED BY <1>6, <2>2, Zenon DEF new
<1>10. /\ IsSeq(stored') /\ Len(stored') = Len(stored)
       /\ \A k \in 1 .. Len(stored) : stored'[k] = Resized(stored[k], n + m)
  <2>1. stored' = [k \in 1 .. Len(stored) |-> Resized(stored[k], n + m)]
    BY <1>5, <1>6
  <2>2. stored' = [k \in 1 .. Len(stored) |-> stored'[k]]
    BY <2>1
  <2> QED BY <1>5, <2>1, <2>2, FunctionIsSeq
<1>11. PoolInv'
  <2> SUFFICES ASSUME NEW k \in 1 .. p + m PROVE rows'[n - p + k].coef = pool'[k].coef
    BY <1>3, <1>5, <1>7 DEF PoolInv
  <2>1. CASE k \in 1 .. p
    <3>1. n - p + k \in 1 .. n
      BY <1>5, <2>1
    <3>2. rows[n - p + k].coef = pool[k].coef
      BY <2>1 DEF IInv, PoolInv
    <3> QED BY <1>7, <2>1, <3>1, <3>2
  <2>2. CASE k \notin 1 .. p
    <3>1. k - p \in 1 .. m /\ n - p + k = n + (k - p) /\ k = p + (k - p)
      BY <1>3, <1>5, <2>2
    <3>2. rows'[n + (k - p)] = accepted[k - p] /\ pool'[p + (k - p)] = accepted[k - p]
      BY <1>7, <3>1
    <3> QED BY <3>1, <3>2
  <2> QED BY <2>1, <2>2
<1>12. Fits(current, n) /\ \A k \in 1 .. Len(stored) : Fits(stored[k], n)
  BY DEF IInv, StoredInv
<1>13. StoredInv'
  <2>1. Fits(Resized(current, n + m), n + m)
    BY <1>3, <1>5, <1>12, Extended
  <2>2. ASSUME NEW k \in 1 .. Len(stored) PROVE Fits(stored'[k], n + m)
    <3>1. Fits(stored[k], n)
      BY <1>12
    <3>2. Fits(Resized(stored[k], n + m), n + m)
      BY <1>3, <1>5, <3>1, Extended
    <3> QED BY <1>10, <3>2
  <2> QED BY <1>6, <1>7, <1>10, <2>1, <2>2 DEF StoredInv
<1>14. BeforeInv'
  <2>1. before'.rows = rows /\ before'.pool = p /\ before'.current = current
    BY <1>2
  <2>2. p \in 0 .. p + m /\ n + m = n + ((p + m) - p)
    BY <1>3, <1>5
  <2>3. ASSUME NEW k \in 1 .. Len(stored), NEW i \in n + 1 .. n + m PROVE stored'[k].rows[i]
    <3>1. Fits(stored[k], n)
      BY <1>12
    <3>2. Resized(stored[k], n + m).rows[i]
      BY <1>3, <1>5, <3>1, Extended
    <3> QED BY <1>10, <3>2
  <2> QED BY <1>5, <1>7, <1>10, <1>12, <2>1, <2>2, <2>3 DEF BeforeInv
<1>15. ShapeInv'
  BY <1>3, <1>5, <1>7, <1>8, <1>9, <1>10 DEF ShapeInv
<1> QED BY <1>11, <1>13, <1>14, <1>15 DEF IInv

\* The node LP ends optimal: its basis is of the rows it was solved with.
LEMMA ResolvedStep == IInv /\ Resolved => IInv'
<1> SUFFICES ASSUME IInv, Resolved PROVE IInv'
  OBVIOUS
<1>1. /\ current' \in Bases /\ at' = "age"
      /\ rows' = rows /\ ages' = ages /\ freed' = freed /\ stored' = stored /\ pool' = pool
  BY Zenon DEF Resolved
<1>2. Fits(current', Len(rows))
  BY <1>1, BasesFitRows DEF IInv, ShapeInv
<1>3. ShapeInv' /\ PoolInv'
  BY <1>1, Zenon DEF IInv, ShapeInv, PoolInv
<1>4. StoredInv'
  BY <1>1, <1>2, Zenon DEF IInv, StoredInv
<1>5. BeforeInv'
  BY <1>1 DEF BeforeInv
<1> QED BY <1>3, <1>4, <1>5 DEF IInv

\* A rollback: the rows taken back were the last of the pool, and basic in every basis.
LEMMA RollBackStep == IInv /\ RollBack => IInv'
<1> SUFFICES ASSUME IInv, RollBack PROVE IInv'
  OBVIOUS
<1> DEFINE n == Len(before.rows)
           p == before.pool
<1>1. /\ at = "resolve" /\ at' = "age"
      /\ rows' = before.rows /\ pool' = SubSeq(pool, 1, p)
      /\ ages' = SubSeq(ages, 1, p) /\ freed' = SubSeq(freed, 1, p)
      /\ stored' = [k \in DOMAIN stored |-> Resized(stored[k], n)]
      /\ current' = before.current
  BY Zenon DEF RollBack
<1>2. /\ IsSeq(before.rows) /\ p \in 0 .. Len(pool)
      /\ Len(rows) = n + (Len(pool) - p)
      /\ \A i \in 1 .. n : rows[i] = before.rows[i]
      /\ Fits(before.current, n)
      /\ \A k \in 1 .. Len(stored) : \A i \in n + 1 .. Len(rows) : stored[k].rows[i]
  BY <1>1 DEF IInv, BeforeInv
<1>3. /\ IsSeq(rows) /\ IsSeq(pool) /\ IsSeq(ages) /\ IsSeq(freed) /\ IsSeq(stored)
      /\ Len(rows) \in Nat /\ Len(pool) \in Nat /\ Len(pool) <= Len(rows)
      /\ Len(ages) = Len(pool) /\ Len(freed) = Len(pool)
      /\ Len(stored) \in Nat /\ DOMAIN stored = 1 .. Len(stored) /\ n \in Nat
  BY <1>2, Lengths, SeqIs DEF IInv, ShapeInv
<1>4. /\ IsSeq(pool') /\ Len(pool') = p /\ \A i \in 1 .. p : pool'[i] = pool[i]
  BY <1>1, <1>2, <1>3, PrefixIs
<1>5. IsSeq(ages') /\ Len(ages') = p /\ IsSeq(freed') /\ Len(freed') = p
  BY <1>1, <1>2, <1>3, PrefixIs
<1>6. /\ IsSeq(stored') /\ Len(stored') = Len(stored)
      /\ \A k \in 1 .. Len(stored) : stored'[k] = Resized(stored[k], n)
  <2>1. stored' = [k \in 1 .. Len(stored) |-> Resized(stored[k], n)]
    BY <1>1, <1>3
  <2>2. stored' = [k \in 1 .. Len(stored) |-> stored'[k]]
    BY <2>1
  <2> QED BY <1>3, <2>1, <2>2, FunctionIsSeq
<1>7. p \in Nat /\ p <= n
  BY <1>2, <1>3
<1>8. ShapeInv'
  BY <1>1, <1>2, <1>4, <1>5, <1>6, <1>7 DEF ShapeInv
<1>9. PoolInv'
  <2> SUFFICES ASSUME NEW k \in 1 .. p PROVE before.rows[n - p + k].coef = pool'[k].coef
    BY <1>1, <1>4 DEF PoolInv
  <2>1. k \in 1 .. Len(pool) /\ Len(rows) - Len(pool) + k = n - p + k /\ n - p + k \in 1 .. n
    BY <1>2, <1>3, <1>7
  <2>2. rows[Len(rows) - Len(pool) + k].coef = pool[k].coef
    BY <2>1 DEF IInv, PoolInv
  <2> QED BY <1>2, <1>4, <2>1, <2>2
<1>10. StoredInv'
  <2>1. ASSUME NEW k \in 1 .. Len(stored) PROVE Fits(stored'[k], n)
    <3> DEFINE m == Len(pool) - p
    <3>1. m \in Nat /\ Len(rows) = n + m
      BY <1>2, <1>3
    <3> HIDE DEF m
    <3>2. Fits(stored[k], n + m) /\ \A i \in n + 1 .. n + m : stored[k].rows[i]
      BY <1>2, <3>1 DEF IInv, StoredInv
    <3>3. Fits(Resized(stored[k], n), n)
      BY <1>3, <3>1, <3>2, CutBack
    <3> QED BY <1>6, <3>3
  <2> QED BY <1>1, <1>2, <1>6, <2>1 DEF StoredInv
<1>11. BeforeInv'
  BY <1>1 DEF BeforeInv
<1> QED BY <1>8, <1>9, <1>10, <1>11 DEF IInv

\* Ageing frees rows in place: their number and their coefficients stay.
LEMMA AgeStep == IInv /\ Age => IInv'
<1> SUFFICES ASSUME IInv, Age PROVE IInv'
  OBVIOUS
<1> DEFINE first == Len(rows) - Len(pool)
           slack(k) == current.rows[first + k]
           older == [k \in DOMAIN ages |-> IF freed[k] THEN ages[k]
                                           ELSE IF slack(k) THEN ages[k] + 1 ELSE 0]
           out == {k \in DOMAIN ages : ~freed[k] /\ older[k] >= CutRowAgeLimit}
<1>a. older = [k \in DOMAIN ages |-> older[k]]
  OBVIOUS
<1>b. /\ ages' = older
      /\ freed' = [k \in DOMAIN freed |-> freed[k] \/ k \in out]
      /\ rows' = [i \in DOMAIN rows |-> IF i - first \in out THEN Free(rows[i]) ELSE rows[i]]
  BY Zenon DEF Age
<1> HIDE DEF first, slack, older, out
<1>1. /\ ages' = [k \in DOMAIN ages |-> older[k]]
      /\ freed' = [k \in DOMAIN freed |-> freed[k] \/ k \in out]
      /\ rows' = [i \in DOMAIN rows |-> IF i - first \in out THEN Free(rows[i]) ELSE rows[i]]
  BY <1>a, <1>b, Zenon
<1>2. at' = "branch" /\ stored' = stored /\ current' = current /\ pool' = pool
  BY Zenon DEF Age
<1>3. /\ IsSeq(pool) /\ IsSeq(stored)
      /\ Len(rows) \in Nat /\ Len(pool) \in Nat /\ Len(pool) <= Len(rows)
      /\ DOMAIN rows = 1 .. Len(rows)
      /\ DOMAIN ages = 1 .. Len(pool) /\ DOMAIN freed = 1 .. Len(pool)
  BY Lengths DEF IInv, ShapeInv
<1>4. IsSeq(ages') /\ Len(ages') = Len(pool)
  <2>1. ages' = [k \in 1 .. Len(pool) |-> ages'[k]]
    BY <1>1, <1>3
  <2> QED BY <1>3, <2>1, FunctionIsSeq
<1>5. IsSeq(freed') /\ Len(freed') = Len(pool)
  <2>1. freed' = [k \in 1 .. Len(pool) |-> freed'[k]]
    BY <1>1, <1>3
  <2> QED BY <1>3, <2>1, FunctionIsSeq
<1>6. IsSeq(rows') /\ Len(rows') = Len(rows)
  <2>1. rows' = [i \in 1 .. Len(rows) |-> rows'[i]]
    BY <1>1, <1>3
  <2> QED BY <1>3, <2>1, FunctionIsSeq
<1>7. \A i \in 1 .. Len(rows) : rows'[i].coef = rows[i].coef
  <2> SUFFICES ASSUME NEW i \in 1 .. Len(rows) PROVE rows'[i].coef = rows[i].coef
    OBVIOUS
  <2>1. rows'[i] = IF i - first \in out THEN Free(rows[i]) ELSE rows[i]
    BY <1>1, <1>3
  <2>2. Free(rows[i]).coef = rows[i].coef
    BY DEF Free
  <2> QED BY <2>1, <2>2
<1>8. ShapeInv'
  BY <1>2, <1>3, <1>4, <1>5, <1>6 DEF ShapeInv
<1>9. PoolInv'
  <2> SUFFICES ASSUME NEW k \in 1 .. Len(pool)
               PROVE  rows'[Len(rows) - Len(pool) + k].coef = pool[k].coef
    BY <1>2, <1>6 DEF PoolInv
  <2>1. Len(rows) - Len(pool) + k \in 1 .. Len(rows)
    BY <1>3
  <2>2. rows[Len(rows) - Len(pool) + k].coef = pool[k].coef
    BY DEF IInv, PoolInv
  <2> QED BY <1>7, <2>1, <2>2
<1>10. StoredInv'
  BY <1>2, <1>6 DEF IInv, StoredInv
<1>11. BeforeInv'
  BY <1>2 DEF BeforeInv
<1> QED BY <1>8, <1>9, <1>10, <1>11 DEF IInv

\* The children's bases are the relaxation's.
LEMMA BranchStep == IInv /\ Branch => IInv'
<1> SUFFICES ASSUME IInv, Branch PROVE IInv'
  OBVIOUS
<1>1. /\ stored' = stored \/ stored' = stored \o <<current, current>>
      /\ at' = "pick" /\ rows' = rows /\ ages' = ages /\ freed' = freed
      /\ current' = current /\ pool' = pool
  BY Zenon DEF Branch
<1> DEFINE pair == <<current, current>>
<1>2. PICK two : two = pair /\ IsSeq(two) /\ Len(two) = 2 /\ \A i \in 1 .. 2 : two[i] = current
  <2>1. pair = [i \in 1 .. 2 |-> pair[i]] /\ \A i \in 1 .. 2 : pair[i] = current
    OBVIOUS
  <2> HIDE DEF pair
  <2>2. IsSeq(pair) /\ Len(pair) = 2
    BY <2>1, FunctionIsSeq
  <2> QED BY <2>1, <2>2
<1>3. IsSeq(stored) /\ Len(stored) \in Nat /\ Len(rows) \in Nat
  BY Lengths DEF IInv, ShapeInv
<1>4. Fits(current, Len(rows)) /\ \A k \in 1 .. Len(stored) : Fits(stored[k], Len(rows))
  BY DEF IInv, StoredInv
<1>5. IsSeq(stored') /\ \A k \in 1 .. Len(stored') : Fits(stored'[k], Len(rows))
  <2>1. CASE stored' = stored
    BY <1>3, <1>4, <2>1
  <2>2. CASE stored' = stored \o two
    <3>1. /\ IsSeq(stored') /\ Len(stored') = Len(stored) + 2
          /\ \A i \in 1 .. Len(stored) : stored'[i] = stored[i]
          /\ \A i \in 1 .. 2 : stored'[Len(stored) + i] = two[i]
      <4>1. /\ IsSeq(stored \o two) /\ Len(stored \o two) = Len(stored) + 2
            /\ \A i \in 1 .. Len(stored) : (stored \o two)[i] = stored[i]
            /\ \A i \in 1 .. 2 : (stored \o two)[Len(stored) + i] = two[i]
        <5>1. IsSeq(stored) /\ IsSeq(two)
          BY <1>2, <1>3
        <5>2. /\ IsSeq(stored \o two) /\ Len(stored \o two) = Len(stored) + Len(two)
              /\ \A i \in 1 .. Len(stored) : (stored \o two)[i] = stored[i]
              /\ \A i \in 1 .. Len(two) : (stored \o two)[Len(stored) + i] = two[i]
          BY <5>1, ConcatIs
        <5> QED BY <1>2, <5>2, Zenon
      <4> QED BY <2>2, <4>1, Zenon
    <3>2. ASSUME NEW k \in 1 .. Len(stored) + 2 PROVE Fits(stored'[k], Len(rows))
      <4>1. CASE k \in 1 .. Len(stored)
        BY <1>4, <3>1, <4>1
      <4>2. CASE k \notin 1 .. Len(stored)
        <5>1. k - Len(stored) \in 1 .. 2 /\ k = Len(stored) + (k - Len(stored))
          BY <1>3, <4>2
        <5>2. stored'[k] = current
          BY <1>2, <3>1, <5>1
        <5> QED BY <1>4, <5>2
      <4> QED BY <4>1, <4>2
    <3> QED BY <3>1, <3>2
  <2> QED BY <1>1, <1>2, <2>1, <2>2
<1>6. ShapeInv' /\ PoolInv'
  BY <1>1, <1>5 DEF IInv, ShapeInv, PoolInv
<1>7. StoredInv'
  BY <1>1, <1>4, <1>5 DEF StoredInv
<1>8. BeforeInv'
  BY <1>1 DEF BeforeInv
<1> QED BY <1>6, <1>7, <1>8 DEF IInv

\* The node taken is the last; its relaxation leaves a basis of the rows.
LEMMA PickStep == IInv /\ Pick => IInv'
<1> SUFFICES ASSUME IInv, Pick PROVE IInv'
  OBVIOUS
<1>1. /\ stored # <<>> /\ current' \in Bases /\ stored' = Front(stored) /\ at' = "round"
      /\ rows' = rows /\ ages' = ages /\ freed' = freed /\ pool' = pool
  BY Zenon DEF Pick
<1>2. IsSeq(stored) /\ Len(stored) \in Nat /\ Len(rows) \in Nat /\ IsSeq(rows)
  BY Lengths DEF IInv, ShapeInv
<1>3. Len(stored) - 1 \in 0 .. Len(stored)
  <2>1. Len(stored) # 0
    BY <1>1, EmptySeq DEF IsSeq, IInv, ShapeInv
  <2> QED BY <1>2, <2>1
<1>4. /\ IsSeq(stored') /\ Len(stored') = Len(stored) - 1
      /\ \A i \in 1 .. Len(stored) - 1 : stored'[i] = stored[i]
  <2>1. stored' = SubSeq(stored, 1, Len(stored) - 1)
    BY <1>1, Zenon DEF Front
  <2> QED BY <1>2, <1>3, <2>1, PrefixIs
<1>5. Fits(current', Len(rows))
  BY <1>1, <1>2, BasesFitRows
<1>6. \A k \in 1 .. Len(stored) - 1 : Fits(stored'[k], Len(rows))
  <2>1. \A k \in 1 .. Len(stored) - 1 : k \in 1 .. Len(stored)
    BY <1>2
  <2> QED BY <1>4, <2>1 DEF IInv, StoredInv
<1>7. ShapeInv' /\ PoolInv'
  BY <1>1, <1>4 DEF IInv, ShapeInv, PoolInv
<1>8. StoredInv'
  BY <1>1, <1>4, <1>5, <1>6 DEF StoredInv
<1>9. BeforeInv'
  BY <1>1 DEF BeforeInv
<1> QED BY <1>7, <1>8, <1>9 DEF IInv

\* Every step preserves the invariant.
LEMMA NextIInv == IInv /\ [Next]_vars => IInv'
<1> SUFFICES ASSUME IInv, [Next]_vars PROVE IInv'
  OBVIOUS
<1>1. ASSUME UNCHANGED <<rows, ages, freed, stored, current, before, pool>>,
             at' # "resolve" \/ at' = at
      PROVE  IInv'
  BY <1>1 DEF IInv, ShapeInv, PoolInv, StoredInv, BeforeInv
<1>2. CASE NoRound
  BY <1>1, <1>2 DEF NoRound
<1>3. CASE Over
  BY <1>1, <1>3 DEF Over
<1>4. CASE UNCHANGED vars
  BY <1>1, <1>4 DEF vars
<1> QED BY <1>2, <1>3, <1>4, RoundStep, ResolvedStep, RollBackStep, AgeStep, BranchStep,
           PickStep DEF Next

\* What the invariant says of the bases, and of the pool, is what the property asks.
LEMMA IInvBasesFit == IInv => BasesFit
<1> SUFFICES ASSUME IInv PROVE BasesFit
  OBVIOUS
<1>1. Len(pool) = Len(ages) /\ Len(pool) = Len(freed)
  BY Lengths
<1>2. \A k \in DOMAIN pool : rows[Len(rows) - Len(pool) + k].coef = pool[k].coef
  BY Lengths DEF IInv, PoolInv
<1>3. ASSUME NEW k \in DOMAIN stored
      PROVE  /\ Len(stored[k].rows) = Len(rows)
             /\ stored[k].cols + BasicRows(stored[k]) = Len(rows)
  <2>1. Fits(stored[k], Len(rows)) /\ Len(rows) \in Nat
    BY Lengths DEF IInv, StoredInv
  <2> QED BY <2>1, RowsOfFit DEF Fits
<1> QED BY <1>1, <1>2, <1>3 DEF BasesFit

\* Every open node's basis fits the working model, and the pool lines up with its last rows,
\* after any rounds, rollbacks and ageing.
THEOREM StoredBasesFit == Spec => []BasesFit
<1>1. Spec => []IInv
  BY InitIInv, NextIInv, PTL DEF Spec
<1> QED BY <1>1, IInvBasesFit, PTL

-----------------------------------------------------------------------------
\* The bounds the separators lean on

\* A nonempty set of integers with a lower bound has a least element.
LEMMA LeastInteger ==
  ASSUME NEW S \in SUBSET Int, S # {}, NEW b \in Int, \A v \in S : b <= v
  PROVE  \E m \in S : \A v \in S : m <= v
<1> DEFINE T == {v - b : v \in S}
<1>1. T \subseteq Nat /\ T # {}
  <2>1. \A v \in S : v - b \in Nat
    OBVIOUS
  <2> QED BY <2>1
<1>2. PICK t \in T : \A u \in T : ~(<<u, t>> \in OpToRel(<, Nat))
  BY <1>1, NatLessThanWellFounded, WFMin, Zenon
<1>3. \A u \in T : t <= u
  <2> SUFFICES ASSUME NEW u \in T PROVE t <= u
    OBVIOUS
  <2>1. t \in Nat /\ u \in Nat
    BY <1>1
  <2>2. OpToRel(<, Nat) = {ss \in Nat \X Nat : ss[1] < ss[2]}
    BY Zenon DEF OpToRel
  <2>3. ~(<<u, t>> \in {ss \in Nat \X Nat : ss[1] < ss[2]})
    BY <1>2, <2>2, Zenon
  <2>4. ~(u < t)
    BY <2>1, <2>3
  <2> QED BY <2>1, <2>4
<1>4. PICK m \in S : t = m - b
  OBVIOUS
<1>5. \A v \in S : m <= v
  BY <1>3, <1>4
<1> QED BY <1>5

\* Min and Max of a nonempty set of enumerated values bound it.
LEMMA Extremes ==
  ASSUME NEW S, S \subseteq -Reach .. Reach, NEW v \in S
  PROVE  Min(S) <= v /\ v <= Max(S)
<1>1. Reach \in Nat /\ S \subseteq Int /\ S # {}
  BY CutRowsAssumption
<1>2. \E m \in S : \A w \in S : m <= w
  <2>1. -Reach \in Int /\ \A w \in S : -Reach <= w
    BY <1>1
  <2> QED BY <1>1, <2>1, LeastInteger
<1>3. \E m \in S : \A w \in S : m >= w
  <2> DEFINE N == {-w : w \in S}
  <2>1. N \subseteq Int /\ N # {} /\ -Reach \in Int /\ \A w \in N : -Reach <= w
    BY <1>1
  <2> HIDE DEF N
  <2>2. PICK n \in N : \A w \in N : n <= w
    BY <2>1, LeastInteger
  <2>3. PICK m \in S : n = -m
    BY DEF N
  <2>4. \A w \in S : m >= w
    BY <1>1, <2>2, <2>3 DEF N
  <2> QED BY <2>4
<1>4. Min(S) <= v
  BY <1>2 DEF Min
<1>5. Max(S) >= v /\ Max(S) \in S
  BY <1>3 DEF Max
<1> QED BY <1>1, <1>4, <1>5

\* The bounds hold at every feasible point of the caller's model.
HoldsEverywhere(b) == \A x \in points, c \in Cols(model) : b.lo[c] <= x[c] /\ x[c] <= b.up[c]

\* Before the first node the working bounds are the model's, or what propagation made of
\* them; points are the feasible points throughout.
BoundsInv ==
  /\ points = FeasiblePoints(model)
  /\ nodes \in Nat
  /\ AtRoot => HoldsEverywhere(box)

\* The bounds a round separates under.
SeparatesGlobally == HoldsEverywhere(SeparationBox)

\* The model's own bounds and the hull of its feasible points hold at those points.
LEMMA GlobalHolds ==
  ASSUME points = FeasiblePoints(model)
  PROVE  HoldsEverywhere(Global(model)) /\ HoldsEverywhere(Hull(model))
<1> SUFFICES ASSUME NEW x \in points, NEW c \in Cols(model)
             PROVE  /\ Global(model).lo[c] <= x[c] /\ x[c] <= Global(model).up[c]
                    /\ Hull(model).lo[c] <= x[c] /\ x[c] <= Hull(model).up[c]
  BY DEF HoldsEverywhere
<1>1. \A y \in points : y \in [Cols(model) -> -Reach .. Reach] /\ y[c] \in Grid(c, Global(model))
  BY DEF FeasiblePoints, Points
<1>2. Global(model).lo[c] <= x[c] /\ x[c] <= Global(model).up[c]
  BY <1>1 DEF Grid
<1> DEFINE S == {y[c] : y \in points}
<1>3. S \subseteq -Reach .. Reach /\ x[c] \in S
  BY <1>1
<1>4. Hull(model).lo[c] = Min(S) /\ Hull(model).up[c] = Max(S)
  BY Zenon DEF Hull
<1> HIDE DEF S
<1>5. Min(S) <= x[c] /\ x[c] <= Max(S)
  BY <1>3, Extremes
<1> QED BY <1>2, <1>4, <1>5

\* The first bounds, and every step.
LEMMA BoundsHold == Spec => []BoundsInv
<1>1. Init => BoundsInv
  <2> SUFFICES ASSUME Init PROVE BoundsInv
    OBVIOUS
  <2>1. points = FeasiblePoints(model) /\ box \in {Global(model), Hull(model)} /\ nodes = 0
    BY Zenon DEF Init
  <2>2. HoldsEverywhere(box)
    BY <2>1, GlobalHolds
  <2> QED BY <2>1, <2>2 DEF BoundsInv
<1>2. BoundsInv /\ [Next]_vars => BoundsInv'
  <2> SUFFICES ASSUME BoundsInv, [Next]_vars PROVE BoundsInv'
    OBVIOUS
  <2>1. ASSUME UNCHANGED <<model, points, box, nodes>> PROVE BoundsInv'
    BY <2>1 DEF BoundsInv, AtRoot, HoldsEverywhere
  <2>2. CASE Pick
    <3>1. model' = model /\ points' = points /\ nodes' = nodes + 1
      BY <2>2, Zenon DEF Pick
    <3>2. ~AtRoot' /\ nodes' \in Nat
      BY <3>1 DEF BoundsInv, AtRoot
    <3>3. points' = FeasiblePoints(model')
      BY <3>1 DEF BoundsInv
    <3>4. FeasiblePoints(model)' = FeasiblePoints(model')
      BY Zenon DEF FeasiblePoints, Points, Grid, Global
    <3> QED BY <3>2, <3>3, <3>4 DEF BoundsInv
  <2>3. CASE Round \/ NoRound \/ Resolved \/ RollBack \/ Age \/ Branch \/ Over
    <3>1. UNCHANGED <<model, points, box, nodes>>
      BY <2>3, Zenon DEF Round, NoRound, Resolved, RollBack, Age, Branch, Over
    <3> QED BY <2>1, <3>1
  <2>4. CASE UNCHANGED vars
    BY <2>1, <2>4 DEF vars
  <2> QED BY <2>2, <2>3, <2>4 DEF Next
<1> QED BY <1>1, <1>2, PTL DEF Spec

\* Whatever node is open and however far propagation tightened it, the bounds a round takes
\* its cuts from hold at every feasible point of the caller's model: a cut that follows from
\* them and from valid rows is valid in the whole tree (root_cut_round(), tree_cut_round()).
THEOREM RoundsUseGlobalBounds == Spec => []SeparatesGlobally
<1>1. BoundsInv => SeparatesGlobally
  BY GlobalHolds DEF BoundsInv, SeparatesGlobally, SeparationBox
<1> QED BY <1>1, BoundsHold, PTL

-----------------------------------------------------------------------------
\* Induction over whole numbers and over finite sets

\* What holds of 0, and of the next number with each, holds up to n.
LEMMA Climb ==
  ASSUME NEW n \in Nat, NEW P, 0 \in P, \A k \in 0 .. n - 1 : k \in P => k + 1 \in P
  PROVE  \A k \in 0 .. n : k \in P
<1> DEFINE T == {k \in 0 .. n : k \notin P}
<1> SUFFICES ASSUME T # {} PROVE FALSE
  OBVIOUS
<1>1. T \in SUBSET Int /\ T # {} /\ 0 \in Int /\ \A k \in T : 0 <= k
  OBVIOUS
<1>2. PICK m \in T : \A k \in T : m <= k
  <2> HIDE DEF T
  <2> QED BY <1>1, LeastInteger
<1>3. m \in 0 .. n /\ m \notin P /\ m # 0
  OBVIOUS
<1>4. m - 1 \in 0 .. n - 1 /\ m - 1 \notin T
  BY <1>2, <1>3
<1> QED BY <1>3, <1>4

\* What holds of a part of a finite set when it holds of all smaller parts holds of the set.
LEMMA SetClimb ==
  ASSUME NEW S, IsFiniteSet(S), NEW P,
         \A T \in SUBSET S : (\A U \in SUBSET T : U # T => U \in P) => T \in P
  PROVE  \A T \in SUBSET S : T \in P
<1> DEFINE Bad == {T \in SUBSET S : T \notin P}
           sizes == {Cardinality(T) : T \in Bad}
<1> SUFFICES ASSUME Bad # {} PROVE FALSE
  OBVIOUS
<1>1. \A T \in SUBSET S : IsFiniteSet(T) /\ Cardinality(T) \in Nat
  BY FS_Subset, FS_CardinalityType
<1>2. sizes \in SUBSET Int /\ sizes # {} /\ 0 \in Int /\ \A k \in sizes : 0 <= k
  BY <1>1
<1>3. PICK m \in sizes : \A k \in sizes : m <= k
  <2> HIDE DEF sizes
  <2> QED BY <1>2, LeastInteger
<1>4. PICK T \in Bad : m = Cardinality(T)
  OBVIOUS
<1>5. ASSUME NEW U \in SUBSET T, U # T PROVE U \in P
  <2>1. IsFiniteSet(T) /\ U \in SUBSET S
    BY <1>1
  <2>2. Cardinality(U) <= Cardinality(T) /\ Cardinality(U) # Cardinality(T)
    BY <2>1, <1>5, FS_Subset
  <2>3. Cardinality(U) \notin sizes
    <3>1. Cardinality(U) \in Nat /\ Cardinality(T) \in Nat
      BY <1>1, <2>1
    <3> HIDE DEF sizes
    <3> QED BY <1>3, <1>4, <2>2, <3>1
  <2> QED BY <2>1, <2>3
<1> QED BY <1>5

\* The same from the empty set on.
LEMMA SetGrow ==
  ASSUME NEW S, IsFiniteSet(S), NEW P, {} \in P,
         \A T \in SUBSET S : \A x \in S \ T : T \in P => T \cup {x} \in P
  PROVE  S \in P
<1>1. ASSUME NEW T \in SUBSET S, \A U \in SUBSET T : U # T => U \in P PROVE T \in P
  <2>1. CASE T = {}
    BY <2>1
  <2>2. CASE T # {}
    <3>1. PICK x \in T : TRUE
      BY <2>2
    <3>2. T \ {x} \in P /\ T \ {x} \in SUBSET S /\ x \in S \ (T \ {x})
      BY <1>1
    <3>3. (T \ {x}) \cup {x} = T
      OBVIOUS
    <3> QED BY <3>2, <3>3
  <2> QED BY <2>1, <2>2
<1>2. S \in SUBSET S
  OBVIOUS
<1> QED BY <1>1, <1>2, SetClimb

-----------------------------------------------------------------------------
\* Sums over finite sets

\* The sum of f over S.
Total(f, S) == SumFunctionOnSet(f, S)

\* The element the fold of a set takes first.
First(s) == CHOOSE x \in s : TRUE
\* The function a sum over S is read from, on the parts of S.
Sums(g, f, S) == g = [s \in SUBSET S |-> IF s = {} THEN 0 ELSE f[First(s)] + g[s \ {First(s)}]]

\* The same of any operation, given as a function of pairs, with values in V.
Combines(g, o, base, f, S) ==
  g = [s \in SUBSET S |-> IF s = {} THEN base ELSE o[<<f[First(s)], g[s \ {First(s)}]>>]]

\* There is such a function.
LEMMA CombinesExist ==
  ASSUME NEW S, IsFiniteSet(S), NEW f, NEW V, NEW base \in V, NEW o,
         \A x \in S, v \in V : o[<<f[x], v>>] \in V
  PROVE  \E g \in [SUBSET S -> V] : Combines(g, o, base, f, S)
<1> DEFINE n == Cardinality(S)
           Upto(k) == {s \in SUBSET S : Cardinality(s) <= k}
           Good(g, k) == \A s \in Upto(k) :
                           g[s] = IF s = {} THEN base ELSE o[<<f[First(s)], g[s \ {First(s)}]>>]
           P == {k \in 0 .. n : \E g \in [Upto(k) -> V] : Good(g, k)}
<1>1. n \in Nat
  BY FS_CardinalityType
<1>2. \A s \in SUBSET S : IsFiniteSet(s) /\ Cardinality(s) \in Nat /\ Cardinality(s) <= n
  BY FS_Subset, FS_CardinalityType
<1>3. \A s \in SUBSET S : s # {} =>
        /\ First(s) \in s /\ s \ {First(s)} \in SUBSET S
        /\ Cardinality(s \ {First(s)}) = Cardinality(s) - 1
  <2> SUFFICES ASSUME NEW s \in SUBSET S, s # {}
               PROVE  First(s) \in s /\ Cardinality(s \ {First(s)}) = Cardinality(s) - 1
    OBVIOUS
  <2>1. First(s) \in s
    BY DEF First
  <2> QED BY <2>1, <1>2, FS_RemoveElement
<1>4. \A s \in SUBSET S : Cardinality(s) = 0 <=> s = {}
  BY <1>2, FS_EmptySet
<1>5. 0 \in P
  <2> DEFINE g == [s \in Upto(0) |-> base]
  <2>1. \A s \in Upto(0) : s = {}
    BY <1>2, <1>4
  <2>2. g \in [Upto(0) -> V] /\ Good(g, 0)
    BY <2>1
  <2>3. 0 \in 0 .. n
    BY <1>1
  <2> HIDE DEF g
  <2> QED BY <2>2, <2>3
<1>6. ASSUME NEW k \in 0 .. n - 1, k \in P PROVE k + 1 \in P
  <2>1. PICK g \in [Upto(k) -> V] : Good(g, k)
    BY <1>6
  <2> DEFINE h == [s \in Upto(k + 1) |->
                     IF s \in Upto(k) THEN g[s] ELSE o[<<f[First(s)], g[s \ {First(s)}]>>]]
  <2>2. ASSUME NEW s \in Upto(k + 1), s \notin Upto(k)
        PROVE  s # {} /\ First(s) \in S /\ s \ {First(s)} \in Upto(k)
    BY <1>1, <1>2, <1>3, <1>4, <2>2
  <2>3. ASSUME NEW s \in Upto(k), s # {}
        PROVE  s \ {First(s)} \in Upto(k)
    BY <1>1, <1>2, <1>3, <2>3
  <2>4. \A s \in Upto(k) : s \in Upto(k + 1)
    BY <1>1, <1>2
  <2>5. h \in [Upto(k + 1) -> V]
    <3> SUFFICES ASSUME NEW s \in Upto(k + 1) PROVE h[s] \in V
      OBVIOUS
    <3>1. CASE s \in Upto(k)
      BY <3>1
    <3>2. CASE s \notin Upto(k)
      BY <3>2, <2>2
    <3> QED BY <3>1, <3>2
  <2>6. Good(h, k + 1)
    <3> SUFFICES ASSUME NEW s \in Upto(k + 1)
                 PROVE  h[s] = IF s = {} THEN base ELSE o[<<f[First(s)], h[s \ {First(s)}]>>]
      OBVIOUS
    <3>1. CASE s \in Upto(k)
      BY <3>1, <2>1, <2>3, <2>4
    <3>2. CASE s \notin Upto(k)
      BY <3>2, <2>2, <2>4
    <3> QED BY <3>1, <3>2
  <2>7. k + 1 \in 0 .. n
    BY <1>1
  <2> QED BY <2>5, <2>6, <2>7
<1> HIDE DEF P
<1>7. n \in P
  BY <1>1, <1>5, <1>6, Climb, n \in 0 .. n
<1>8. PICK g \in [Upto(n) -> V] : Good(g, n)
  BY <1>7 DEF P
<1>9. Upto(n) = SUBSET S
  BY <1>2
<1>10. Combines(g, o, base, f, S)
  <2>1. g = [s \in SUBSET S |-> g[s]]
    BY <1>9
  <2> QED BY <1>8, <1>9, <2>1 DEF Combines
<1> QED BY <1>8, <1>9, <1>10

\* There is a function a sum is read from.
LEMMA SumsExist ==
  ASSUME NEW S, IsFiniteSet(S), NEW f, \A x \in S : f[x] \in Int
  PROVE  \E g \in [SUBSET S -> Int] : Sums(g, f, S)
<1> DEFINE o == [w \in Int \X Int |-> w[1] + w[2]]
<1>1. \A u \in Int, v \in Int : o[<<u, v>>] = u + v /\ o[<<u, v>>] \in Int
  OBVIOUS
<1> HIDE DEF o
<1>2. \A x \in S, v \in Int : o[<<f[x], v>>] \in Int
  BY <1>1
<1>3. PICK g \in [SUBSET S -> Int] : Combines(g, o, 0, f, S)
  BY <1>2, CombinesExist, 0 \in Int
<1>4. ASSUME NEW s \in SUBSET S, s # {}
      PROVE  o[<<f[First(s)], g[s \ {First(s)}]>>] = f[First(s)] + g[s \ {First(s)}]
  <2>1. First(s) \in S /\ s \ {First(s)} \in SUBSET S
    BY <1>4 DEF First
  <2>2. f[First(s)] \in Int /\ g[s \ {First(s)}] \in Int
    BY <2>1
  <2> QED BY <1>1, <2>2
<1>5. Sums(g, f, S)
  <2>1. \A s \in SUBSET S : g[s] = IF s = {} THEN 0 ELSE f[First(s)] + g[s \ {First(s)}]
    BY <1>3, <1>4 DEF Combines
  <2>2. g = [s \in SUBSET S |-> g[s]]
    OBVIOUS
  <2> QED BY <2>1, <2>2 DEF Sums
<1> QED BY <1>5

\* Two of them agree wherever both are defined, whatever they say outside.
LEMMA SumsAgree ==
  ASSUME NEW S, NEW T \in SUBSET S, IsFiniteSet(T), NEW f, NEW f2, \A x \in T : f[x] = f2[x],
         NEW g, Sums(g, f, S), NEW h, Sums(h, f2, T)
  PROVE  g[T] = h[T]
<1> DEFINE P == {s \in SUBSET T : g[s] = h[s]}
<1>1. ASSUME NEW s \in SUBSET T, \A u \in SUBSET s : u # s => u \in P PROVE s \in P
  <2>1. g[s] = IF s = {} THEN 0 ELSE f[First(s)] + g[s \ {First(s)}]
    BY s \in SUBSET S DEF Sums
  <2>2. h[s] = IF s = {} THEN 0 ELSE f2[First(s)] + h[s \ {First(s)}]
    BY DEF Sums
  <2>3. CASE s = {}
    BY <2>1, <2>2, <2>3
  <2>4. CASE s # {}
    <3>1. First(s) \in s
      BY <2>4 DEF First
    <3>2. s \ {First(s)} \in P
      BY <1>1, <3>1
    <3> QED BY <2>1, <2>2, <2>4, <3>1, <3>2
  <2> QED BY <2>3, <2>4
<1>2. T \in SUBSET T
  OBVIOUS
<1> HIDE DEF P
<1>3. T \in P
  BY <1>1, <1>2, SetClimb
<1> QED BY <1>3 DEF P

\* The sums over all parts of S are read from such a function.
Reads(g, f, S) ==
  /\ g \in [SUBSET S -> Int] /\ Sums(g, f, S)
  /\ \A T \in SUBSET S : Total(f, T) = g[T]

\* A sum over S is read from such a function.
LEMMA SumIs ==
  ASSUME NEW S, IsFiniteSet(S), NEW f, \A x \in S : f[x] \in Int
  PROVE  \E g : Reads(g, f, S)
<1>1. ASSUME NEW T \in SUBSET S
      PROVE  \E g \in [SUBSET T -> Int] : Sums(g, f, T) /\ Total(f, T) = g[T]
  <2> DEFINE Eq(g) == g = [s \in SUBSET T |->
                            IF s = {} THEN 0
                            ELSE f[CHOOSE x \in s : TRUE] + g[s \ {CHOOSE x \in s : TRUE}]]
             iter == CHOOSE g : Eq(g)
  <2>1. IsFiniteSet(T)
    BY FS_Subset
  <2>2. PICK g \in [SUBSET T -> Int] : Sums(g, f, T)
    BY <2>1, SumsExist
  <2>3. Eq(g)
    BY <2>2 DEF Sums, First
  <2>4. Eq(iter)
    BY <2>3, Zenon
  <2>5. SumFunctionOnSet(f, T) = iter[T]
    BY Zenon DEF SumFunctionOnSet, FoldFunctionOnSet, MapThenFoldSet
  <2>6. Sums(iter, f, T)
    BY <2>4, Zenon DEF Sums, First
  <2> HIDE DEF iter
  <2>7. T \in SUBSET T /\ \A x \in T : f[x] = f[x]
    OBVIOUS
  <2>8. g[T] = iter[T]
    BY <2>1, <2>2, <2>6, <2>7, SumsAgree
  <2> QED BY <2>2, <2>5, <2>8 DEF Total
<1>2. PICK g \in [SUBSET S -> Int] : Sums(g, f, S)
  BY SumsExist
<1>3. ASSUME NEW T \in SUBSET S PROVE Total(f, T) = g[T]
  <2>1. PICK h \in [SUBSET T -> Int] : Sums(h, f, T) /\ Total(f, T) = h[T]
    BY <1>1
  <2>2. IsFiniteSet(T)
    BY FS_Subset
  <2>3. \A x \in T : f[x] = f[x]
    OBVIOUS
  <2>4. g[T] = h[T]
    BY <1>2, <2>1, <2>2, <2>3, SumsAgree
  <2> QED BY <2>1, <2>4
<1> QED BY <1>2, <1>3 DEF Reads

\* A sum is an integer, none is 0, and any member may be taken out of it.
LEMMA SumTake ==
  ASSUME NEW S, IsFiniteSet(S), NEW f, \A x \in S : f[x] \in Int
  PROVE  /\ Total(f, {}) = 0 /\ Total(f, S) \in Int
         /\ \A x \in S : Total(f, S) = f[x] + Total(f, S \ {x})
<1>0. PICK g : Reads(g, f, S)
  BY SumIs
<1>1. /\ g \in [SUBSET S -> Int] /\ Sums(g, f, S)
      /\ \A T \in SUBSET S : Total(f, T) = g[T]
  BY <1>0 DEF Reads
<1>2. \A s \in SUBSET S : g[s] = IF s = {} THEN 0 ELSE f[First(s)] + g[s \ {First(s)}]
  BY <1>1 DEF Sums
<1>3. \A s \in SUBSET S : g[s] \in Int
  BY <1>1
<1> DEFINE P == {s \in SUBSET S : \A x \in s : g[s] = f[x] + g[s \ {x}]}
<1>4. ASSUME NEW s \in SUBSET S, \A u \in SUBSET s : u # s => u \in P PROVE s \in P
  <2> SUFFICES ASSUME NEW x \in s PROVE g[s] = f[x] + g[s \ {x}]
    OBVIOUS
  <2> DEFINE y == First(s)
  <2>1. y \in s
    BY DEF First
  <2>2. g[s] = f[y] + g[s \ {y}]
    BY <1>2
  <2>3. CASE x = y
    BY <2>2, <2>3
  <2>4. CASE x # y
    <3>1. s \ {y} \in P /\ s \ {x} \in P
      BY <1>4, <2>1
    <3> HIDE DEF y
    <3>2. g[s \ {y}] = f[x] + g[(s \ {y}) \ {x}]
      BY <3>1, <2>1, <2>4
    <3>3. g[s \ {x}] = f[y] + g[(s \ {x}) \ {y}]
      BY <3>1, <2>1, <2>4
    <3>4. (s \ {y}) \ {x} = (s \ {x}) \ {y}
      OBVIOUS
    <3>5. (s \ {y}) \ {x} \in SUBSET S /\ f[x] \in Int /\ f[y] \in Int
      BY <2>1
    <3>6. g[(s \ {y}) \ {x}] \in Int
      BY <1>3, <3>5
    <3>7. g[s] = f[y] + (f[x] + g[(s \ {y}) \ {x}])
      BY <2>2, <3>2
    <3>8. g[s \ {x}] = f[y] + g[(s \ {y}) \ {x}]
      BY <3>3, <3>4
    <3> QED BY <3>5, <3>6, <3>7, <3>8
  <2> QED BY <2>3, <2>4
<1>5. S \in SUBSET S
  OBVIOUS
<1> HIDE DEF P
<1>6. S \in P
  BY <1>4, <1>5, SetClimb
<1>7. {} \in SUBSET S
  OBVIOUS
<1> QED BY <1>1, <1>2, <1>3, <1>5, <1>6, <1>7 DEF P

\* The sum over a set with one more member.
LEMMA TotalGrow ==
  ASSUME NEW S, IsFiniteSet(S), NEW f, \A x \in S : f[x] \in Int,
         NEW T \in SUBSET S, NEW x \in S \ T
  PROVE  /\ Total(f, T) \in Int /\ Total(f, T \cup {x}) = f[x] + Total(f, T)
         /\ f[x] \in Int
<1>1. IsFiniteSet(T) /\ IsFiniteSet(T \cup {x})
  BY FS_Subset, T \cup {x} \in SUBSET S
<1>2. (T \cup {x}) \ {x} = T /\ x \in T \cup {x}
  OBVIOUS
<1>3. \A y \in T \cup {x} : f[y] \in Int
  OBVIOUS
<1>4. \A y \in T \cup {x} : Total(f, T \cup {x}) = f[y] + Total(f, (T \cup {x}) \ {y})
  BY <1>1, <1>3, SumTake
<1>5. Total(f, T) \in Int
  BY <1>1, SumTake
<1> QED BY <1>2, <1>4, <1>5

\* A sum of nothing.
LEMMA TotalNone == \A f : Total(f, {}) = 0
<1> SUFFICES ASSUME NEW f PROVE Total(f, {}) = 0
  OBVIOUS
<1>1. IsFiniteSet({}) /\ \A x \in {} : f[x] \in Int
  BY FS_EmptySet
<1> QED BY <1>1, SumTake

\* Sums are linear.
LEMMA TotalLinear ==
  ASSUME NEW S, IsFiniteSet(S), NEW f, NEW g, NEW h, NEW a \in Int, NEW b \in Int,
         \A x \in S : f[x] \in Int /\ g[x] \in Int /\ h[x] = a * f[x] + b * g[x]
  PROVE  Total(h, S) = a * Total(f, S) + b * Total(g, S)
<1> DEFINE P == {T \in SUBSET S : Total(h, T) = a * Total(f, T) + b * Total(g, T)}
<1>1. {} \in P
  BY TotalNone
<1>2. ASSUME NEW T \in SUBSET S, NEW x \in S \ T, T \in P PROVE T \cup {x} \in P
  <2>1. \A y \in S : f[y] \in Int
    OBVIOUS
  <2>2. Total(f, T) \in Int /\ Total(f, T \cup {x}) = f[x] + Total(f, T)
    BY ONLY <2>1, TotalGrow, IsFiniteSet(S), T \in SUBSET S, x \in S \ T
  <2>10. \A y \in S : g[y] \in Int
    OBVIOUS
  <2>3. Total(g, T) \in Int /\ Total(g, T \cup {x}) = g[x] + Total(g, T)
    BY ONLY <2>10, TotalGrow, IsFiniteSet(S), T \in SUBSET S, x \in S \ T
  <2>11. \A y \in S : h[y] \in Int
    OBVIOUS
  <2>4. Total(h, T) \in Int /\ Total(h, T \cup {x}) = h[x] + Total(h, T)
    BY ONLY <2>11, TotalGrow, IsFiniteSet(S), T \in SUBSET S, x \in S \ T
  <2>5. h[x] = a * f[x] + b * g[x] /\ f[x] \in Int /\ g[x] \in Int
    OBVIOUS
  <2>6. ASSUME NEW u \in Int, NEW v \in Int, NEW p \in Int, NEW q \in Int
        PROVE  a * u + b * v + (a * p + b * q) = a * (u + p) + b * (v + q)
    OBVIOUS
  <2>7. Total(h, T) = a * Total(f, T) + b * Total(g, T)
    BY <1>2
  <2>8. Total(h, T \cup {x}) = a * (f[x] + Total(f, T)) + b * (g[x] + Total(g, T))
    BY <2>2, <2>3, <2>4, <2>5, <2>6, <2>7
  <2>9. T \cup {x} \in SUBSET S
    OBVIOUS
  <2> QED BY <2>2, <2>3, <2>8, <2>9
<1> HIDE DEF P
<1>3. S \in P
  BY <1>1, <1>2, SetGrow
<1> QED BY <1>3 DEF P

\* A sum of integers is one.
LEMMA TotalInt ==
  ASSUME NEW S, IsFiniteSet(S), NEW f, \A x \in S : f[x] \in Int
  PROVE  Total(f, S) \in Int
BY SumTake

\* Sums of the same summands agree.
LEMMA TotalSame ==
  ASSUME NEW S, IsFiniteSet(S), NEW f, NEW g, \A x \in S : f[x] \in Int /\ g[x] = f[x]
  PROVE  Total(g, S) = Total(f, S)
<1>1. \A x \in S : f[x] \in Int /\ f[x] \in Int /\ g[x] = 1 * f[x] + 0 * f[x]
  OBVIOUS
<1>2. Total(g, S) = 1 * Total(f, S) + 0 * Total(f, S)
  BY <1>1, TotalLinear
<1>3. Total(f, S) \in Int
  BY TotalInt
<1> QED BY <1>2, <1>3

\* A factor common to all summands.
LEMMA TotalScale ==
  ASSUME NEW S, IsFiniteSet(S), NEW a \in Int, NEW f, NEW g,
         \A x \in S : f[x] \in Int /\ g[x] = a * f[x]
  PROVE  Total(g, S) = a * Total(f, S)
<1>1. \A x \in S : f[x] \in Int /\ f[x] \in Int /\ g[x] = a * f[x] + 0 * f[x]
  OBVIOUS
<1>2. Total(g, S) = a * Total(f, S) + 0 * Total(f, S)
  BY <1>1, TotalLinear
<1>3. Total(f, S) \in Int
  BY TotalInt
<1> QED BY <1>2, <1>3

\* A sum of sums, summand by summand.
LEMMA TotalAdd ==
  ASSUME NEW S, IsFiniteSet(S), NEW f, NEW g, NEW h,
         \A x \in S : f[x] \in Int /\ g[x] \in Int /\ h[x] = f[x] + g[x]
  PROVE  Total(h, S) = Total(f, S) + Total(g, S)
<1>1. \A x \in S : f[x] \in Int /\ g[x] \in Int /\ h[x] = 1 * f[x] + 1 * g[x]
  OBVIOUS
<1>2. Total(h, S) = 1 * Total(f, S) + 1 * Total(g, S)
  BY <1>1, TotalLinear
<1>3. Total(f, S) \in Int /\ Total(g, S) \in Int
  BY TotalInt
<1> QED BY <1>2, <1>3

\* Larger terms, larger sums.
LEMMA TotalLe ==
  ASSUME NEW S, IsFiniteSet(S), NEW f, NEW g,
         \A x \in S : f[x] \in Int /\ g[x] \in Int /\ f[x] <= g[x]
  PROVE  Total(f, S) <= Total(g, S)
<1> DEFINE P == {T \in SUBSET S : Total(f, T) <= Total(g, T)}
<1>1. {} \in P
  BY TotalNone
<1>2. ASSUME NEW T \in SUBSET S, NEW x \in S \ T, T \in P PROVE T \cup {x} \in P
  <2>1. \A y \in S : f[y] \in Int /\ g[y] \in Int
    OBVIOUS
  <2>2. Total(f, T) \in Int /\ Total(f, T \cup {x}) = f[x] + Total(f, T)
    BY <2>1, TotalGrow
  <2>3. Total(g, T) \in Int /\ Total(g, T \cup {x}) = g[x] + Total(g, T)
    BY <2>1, TotalGrow
  <2>4. T \cup {x} \in SUBSET S /\ f[x] \in Int /\ g[x] \in Int /\ f[x] <= g[x]
    OBVIOUS
  <2> QED BY <1>2, <2>2, <2>3, <2>4
<1> HIDE DEF P
<1>3. S \in P
  BY <1>1, <1>2, SetGrow
<1> QED BY <1>3 DEF P

\* A sum of multiples is a multiple.
LEMMA TotalMultiple ==
  ASSUME NEW S, IsFiniteSet(S), NEW k \in Nat \ {0}, NEW f,
         \A x \in S : f[x] \in Int /\ f[x] % k = 0
  PROVE  Total(f, S) % k = 0
<1> DEFINE P == {T \in SUBSET S : Total(f, T) % k = 0}
<1>1. {} \in P
  BY TotalNone
<1>2. ASSUME NEW T \in SUBSET S, NEW x \in S \ T, T \in P PROVE T \cup {x} \in P
  <2>1. \A y \in S : f[y] \in Int
    OBVIOUS
  <2>2. Total(f, T) \in Int /\ Total(f, T \cup {x}) = f[x] + Total(f, T)
    BY <2>1, TotalGrow
  <2>3. T \cup {x} \in SUBSET S /\ f[x] \in Int /\ f[x] % k = 0 /\ Total(f, T) % k = 0
    BY <1>2
  <2>4. ASSUME NEW u \in Int, NEW v \in Int, u % k = 0, v % k = 0 PROVE (u + v) % k = 0
    BY <2>4
  <2> QED BY <2>2, <2>3, <2>4
<1> HIDE DEF P
<1>3. S \in P
  BY <1>1, <1>2, SetGrow
<1> QED BY <1>3 DEF P

\* The sum over a set is that over a part and over the rest.
LEMMA TotalSplit ==
  ASSUME NEW S, IsFiniteSet(S), NEW f, \A x \in S : f[x] \in Int, NEW U
  PROVE  Total(f, S) = Total(f, S \cap U) + Total(f, S \ U)
<1> DEFINE P == {T \in SUBSET S : Total(f, T) = Total(f, T \cap U) + Total(f, T \ U)}
<1>1. {} \in P
  <2>1. {} \cap U = {} /\ {} \ U = {} /\ {} \in SUBSET S
    OBVIOUS
  <2> QED BY <2>1, TotalNone
<1>2. ASSUME NEW T \in SUBSET S, NEW x \in S \ T, T \in P PROVE T \cup {x} \in P
  <2>1. Total(f, T) \in Int /\ Total(f, T \cup {x}) = f[x] + Total(f, T) /\ f[x] \in Int
    BY TotalGrow
  <2>2. T \cap U \in SUBSET S /\ T \ U \in SUBSET S /\ x \in S \ (T \cap U) /\ x \in S \ (T \ U)
    OBVIOUS
  <2>3. ASSUME NEW R \in SUBSET S, x \in S \ R
        PROVE  Total(f, R) \in Int /\ Total(f, R \cup {x}) = f[x] + Total(f, R)
    BY ONLY <2>3, TotalGrow, IsFiniteSet(S), \A y \in S : f[y] \in Int
  <2>4. /\ Total(f, T \cap U) \in Int
        /\ Total(f, (T \cap U) \cup {x}) = f[x] + Total(f, T \cap U)
        /\ Total(f, T \ U) \in Int /\ Total(f, (T \ U) \cup {x}) = f[x] + Total(f, T \ U)
    BY <2>2, <2>3
  <2>5. Total(f, T) = Total(f, T \cap U) + Total(f, T \ U)
    BY <1>2
  <2> DEFINE V == T \cup {x}
  <2>6. T \cup {x} \in SUBSET S
    OBVIOUS
  <2>7. CASE x \in U
    <3>1. V \cap U = (T \cap U) \cup {x} /\ V \ U = T \ U
      BY <2>7
    <3>2. Total(f, V \cap U) = f[x] + Total(f, T \cap U) /\ Total(f, V \ U) = Total(f, T \ U)
      BY <2>4, <3>1
    <3>3. Total(f, V) = Total(f, V \cap U) + Total(f, V \ U)
      BY <2>1, <2>4, <2>5, <3>2
    <3> QED BY <2>6, <3>3
  <2>8. CASE x \notin U
    <3>1. V \cap U = T \cap U /\ V \ U = (T \ U) \cup {x}
      BY <2>8
    <3>2. Total(f, V \cap U) = Total(f, T \cap U) /\ Total(f, V \ U) = f[x] + Total(f, T \ U)
      BY <2>4, <3>1
    <3>3. Total(f, V) = Total(f, V \cap U) + Total(f, V \ U)
      BY <2>1, <2>4, <2>5, <3>2
    <3> QED BY <2>6, <3>3
  <2> QED BY <2>7, <2>8
<1> HIDE DEF P
<1>3. S \in P
  BY <1>1, <1>2, SetGrow
<1> QED BY <1>3 DEF P

\* Zeros add nothing.
LEMMA TotalZero ==
  ASSUME NEW S, IsFiniteSet(S), NEW f, \A x \in S : f[x] = 0
  PROVE  Total(f, S) = 0
<1>1. \A x \in S : f[x] \in Int /\ f[x] = 0 * f[x]
  OBVIOUS
<1>2. Total(f, S) \in Int
  BY <1>1, TotalInt
<1>3. Total(f, S) = 0 * Total(f, S)
  BY <1>1, TotalScale
<1> QED BY <1>2, <1>3

\* Summands that are 0 do not count.
LEMMA TotalWithin ==
  ASSUME NEW S, IsFiniteSet(S), NEW T \in SUBSET S, NEW f,
         \A x \in S : f[x] \in Int, \A x \in S \ T : f[x] = 0
  PROVE  Total(f, S) = Total(f, T)
<1>1. S \cap T = T /\ IsFiniteSet(T) /\ IsFiniteSet(S \ T)
  BY FS_Subset, S \ T \in SUBSET S
<1>2. Total(f, S) = Total(f, S \cap T) + Total(f, S \ T)
  BY TotalSplit
<1>3. Total(f, S \ T) = 0 /\ Total(f, T) \in Int
  BY <1>1, TotalZero, TotalInt
<1>4. Total(f, S) = Total(f, T) + Total(f, S \ T)
  BY <1>1, <1>2
<1> QED BY <1>3, <1>4

\* A matrix with its rows and columns exchanged, and the sums of its rows.
Transposed(M, N, A, B) == \A a \in A, b \in B : M[a][b] \in Int /\ N[b][a] = M[a][b]
RowSums(F, M, A, B) == \A a \in A : F[a] = Total(M[a], B)

\* Adding up the columns of a matrix or its rows comes to the same.
LEMMA TotalSwap ==
  ASSUME NEW A, IsFiniteSet(A), NEW B, IsFiniteSet(B), NEW M, NEW N, NEW F, NEW G,
         Transposed(M, N, A, B), RowSums(F, M, A, B), RowSums(G, N, B, A)
  PROVE  Total(F, A) = Total(G, B)
<1>0. /\ \A a \in A, b \in B : M[a][b] \in Int /\ N[b][a] = M[a][b]
      /\ \A a \in A : F[a] = Total(M[a], B)
      /\ \A b \in B : G[b] = Total(N[b], A)
  BY DEF Transposed, RowSums
<1> DEFINE H(T) == [b \in B |-> Total(N[b], T)]
           P == {T \in SUBSET A : Total(F, T) = Total(H(T), B)}
<1>1. {} \in P
  <2>1. \A b \in B : H({})[b] = 0
    BY TotalNone
  <2> HIDE DEF H
  <2>2. Total(H({}), B) = 0
    BY <2>1, TotalZero
  <2> QED BY <2>2, TotalNone
<1>2. ASSUME NEW T \in SUBSET A, NEW x \in A \ T, T \in P PROVE T \cup {x} \in P
  <2>1. \A a \in A : F[a] \in Int
    <3> SUFFICES ASSUME NEW a \in A PROVE F[a] \in Int
      OBVIOUS
    <3>1. \A b \in B : M[a][b] \in Int
      BY <1>0
    <3> QED BY <1>0, <3>1, TotalInt
  <2>2. Total(F, T \cup {x}) = F[x] + Total(F, T)
    BY <2>1, TotalGrow
  <2>3. \A b \in B : /\ H(T)[b] \in Int /\ M[x][b] \in Int
                     /\ H(T \cup {x})[b] = M[x][b] + H(T)[b]
    <3> SUFFICES ASSUME NEW b \in B
                 PROVE  /\ Total(N[b], T) \in Int /\ M[x][b] \in Int
                        /\ Total(N[b], T \cup {x}) = M[x][b] + Total(N[b], T)
      OBVIOUS
    <3>1. \A a \in A : N[b][a] \in Int
      BY <1>0
    <3>2. Total(N[b], T) \in Int /\ Total(N[b], T \cup {x}) = N[b][x] + Total(N[b], T)
      BY <3>1, TotalGrow
    <3> QED BY <1>0, <3>2
  <2>6. ASSUME NEW f, NEW g, NEW h,
               \A b \in B : f[b] \in Int /\ g[b] \in Int /\ h[b] = f[b] + g[b]
        PROVE  Total(h, B) = Total(f, B) + Total(g, B)
    BY <2>6, TotalAdd
  <2> HIDE DEF H
  <2>4. Total(H(T \cup {x}), B) = Total(M[x], B) + Total(H(T), B)
    BY ONLY <2>3, <2>6
  <2>5. T \cup {x} \in SUBSET A /\ F[x] = Total(M[x], B)
    BY <1>0
  <2> QED BY <1>2, <2>2, <2>4, <2>5
<1> HIDE DEF P
<1>3. A \in P
  BY <1>1, <1>2, SetGrow
<1>4. Total(F, A) = Total(H(A), B)
  BY <1>3 DEF P
<1>5. \A b \in B : H(A)[b] \in Int /\ G[b] = H(A)[b]
  <2> SUFFICES ASSUME NEW b \in B PROVE Total(N[b], A) \in Int
    BY <1>0
  <2>1. \A a \in A : N[b][a] \in Int
    BY <1>0
  <2> QED BY <2>1, TotalInt
<1> HIDE DEF H
<1>6. Total(G, B) = Total(H(A), B)
  BY <1>5, TotalSame
<1> QED BY <1>4, <1>6

-----------------------------------------------------------------------------
\* Whole numbers

\* Quotients and remainders.
LEMMA DivMod ==
  ASSUME NEW a \in Int, NEW k \in Nat \ {0}
  PROVE  /\ a \div k \in Int /\ a % k \in 0 .. k - 1
         /\ a = k * (a \div k) + (a % k)
<1>1. a \div k \in Int
  OBVIOUS
<1>2. a % k \in 0 .. k - 1
  OBVIOUS
<1>3. a = k * (a \div k) + (a % k)
  OBVIOUS
<1> QED BY <1>1, <1>2, <1>3

\* A multiple of k leaves no remainder.
LEMMA ModOfMultiple ==
  ASSUME NEW q \in Int, NEW k \in Nat \ {0}
  PROVE  (k * q) % k = 0 /\ (k * q) \div k = q
<1>1. k * q \in Int
  OBVIOUS
<1> DEFINE a == k * q
           r == a % k
           d == a \div k
<1>2. d \in Int /\ r \in 0 .. k - 1 /\ a = k * d + r
  BY <1>1, DivMod
<1>3. k * (q - d) = r
  BY <1>2
<1> HIDE DEF r, d, a
<1>4. q - d = 0
  <2>1. CASE q - d >= 1
    <3>1. k * (q - d) >= k * 1
      BY <1>2, <2>1
    <3> QED BY <1>2, <1>3, <3>1
  <2>2. CASE q - d <= -1
    <3>1. k * (q - d) <= k * (-1)
      BY <1>2, <2>2
    <3> QED BY <1>2, <1>3, <3>1
  <2> QED BY <1>2, <2>1, <2>2
<1> QED BY <1>2, <1>3, <1>4 DEF a, r, d

\* What leaves no remainder is a multiple.
LEMMA Multiples ==
  ASSUME NEW a \in Int, NEW k \in Nat \ {0}, a % k = 0
  PROVE  a = k * (a \div k) /\ a \div k \in Int
BY DivMod

\* Of integers, what is at most a/k at most k times is at most its floor.
LEMMA FloorBound ==
  ASSUME NEW q \in Int, NEW a \in Int, NEW k \in Nat \ {0}, k * q <= a
  PROVE  q <= a \div k
<1>1. a \div k \in Int /\ a % k \in 0 .. k - 1 /\ a = k * (a \div k) + (a % k)
  BY DivMod
<1> DEFINE d == a \div k
<1>2. k * (q - d) <= a % k
  BY <1>1
<1> HIDE DEF d
<1>3. CASE q >= d + 1
  <2>1. k * (q - d) >= k * 1
    BY <1>1, <1>3 DEF d
  <2> QED BY <1>1, <1>2, <2>1 DEF d
<1> QED BY <1>1, <1>3 DEF d

\* Greatest and least members.
LEMMA MaxIs ==
  ASSUME NEW S \in SUBSET Int, S # {}, NEW b \in Int, \A v \in S : v <= b
  PROVE  Max(S) \in S /\ \A v \in S : v <= Max(S)
<1> DEFINE N == {-v : v \in S}
<1>1. N \in SUBSET Int /\ N # {} /\ -b \in Int /\ \A v \in N : -b <= v
  <2>1. N \in SUBSET Int /\ N # {} /\ -b \in Int
    <3>1. \A v \in N : \E w \in S : v = -w
      OBVIOUS
    <3>2. \A v \in N : v \in Int
      BY <3>1
    <3>3. PICK w \in S : TRUE
      OBVIOUS
    <3>4. -w \in N
      OBVIOUS
    <3> HIDE DEF N
    <3> QED BY <3>2, <3>4
  <2>2. ASSUME NEW v \in N PROVE -b <= v
    <3>1. PICK w \in S : v = -w
      OBVIOUS
    <3> QED BY <3>1
  <2> HIDE DEF N
  <2> QED BY <2>1, <2>2
<1> HIDE DEF N
<1>2. PICK n \in N : \A v \in N : n <= v
  BY <1>1, LeastInteger
<1>3. PICK m \in S : n = -m
  BY DEF N
<1>4. \A v \in S : m >= v
  BY <1>2, <1>3 DEF N
<1>5. Max(S) \in S /\ \A v \in S : Max(S) >= v
  BY <1>4 DEF Max
<1> QED BY <1>5

\* Min of integers bounded below.
LEMMA MinIs ==
  ASSUME NEW S \in SUBSET Int, S # {}, NEW b \in Int, \A v \in S : b <= v
  PROVE  Min(S) \in S /\ \A v \in S : Min(S) <= v
<1>1. PICK m \in S : \A v \in S : m <= v
  BY LeastInteger
<1> QED BY <1>1 DEF Min

-----------------------------------------------------------------------------
\* Rows and points

\* The products a scalar product adds up.
Products(k, x, C) == [c \in C |-> k[c] * x[c]]

\* The scalar product of LinearModel is the sum of the products.
LEMMA DotIs ==
  ASSUME NEW C, IsFiniteSet(C), NEW k, NEW x, \A c \in C : k[c] \in Int /\ x[c] \in Int
  PROVE  Dot(k, x, C) = Total(Products(k, x, C), C) /\ Dot(k, x, C) \in Int
<1> DEFINE f == Products(k, x, C)
           Eq(g) == g = [s \in SUBSET C |->
                          IF s = {} THEN 0
                          ELSE k[CHOOSE c \in s : TRUE] * x[CHOOSE c \in s : TRUE]
                                 + g[s \ {CHOOSE c \in s : TRUE}]]
           iter == CHOOSE g : Eq(g)
<1>1. \A c \in C : f[c] = k[c] * x[c] /\ f[c] \in Int
  BY DEF Products
<1> HIDE DEF f
<1>2. PICK g : Reads(g, f, C)
  BY <1>1, SumIs
<1>3. /\ g \in [SUBSET C -> Int] /\ Sums(g, f, C)
      /\ \A T \in SUBSET C : Total(f, T) = g[T]
  BY <1>2 DEF Reads
<1>4. \A s \in SUBSET C : s # {} =>
        f[First(s)] = k[CHOOSE c \in s : TRUE] * x[CHOOSE c \in s : TRUE]
  <2> SUFFICES ASSUME NEW s \in SUBSET C, s # {}
               PROVE  f[First(s)] = k[First(s)] * x[First(s)]
    BY DEF First
  <2>1. First(s) \in C
    BY DEF First
  <2> QED BY <1>1, <2>1
<1>5. Eq(g)
  BY <1>3, <1>4 DEF Sums, First
<1>6. Eq(iter)
  BY <1>5, Zenon
<1>7. Dot(k, x, C) = iter[C]
  BY Zenon DEF Dot, MapThenSumSet, MapThenFoldSet
<1>8. Sums(iter, f, C)
  <2> HIDE DEF iter
  <2>1. \A s \in SUBSET C :
          (IF s = {} THEN 0 ELSE f[First(s)] + iter[s \ {First(s)}])
            = IF s = {} THEN 0
              ELSE k[CHOOSE c \in s : TRUE] * x[CHOOSE c \in s : TRUE]
                     + iter[s \ {CHOOSE c \in s : TRUE}]
    BY <1>4 DEF First
  <2> QED BY <1>6, <2>1 DEF Sums
<1> HIDE DEF iter
<1>9. C \in SUBSET C /\ \A c \in C : f[c] = f[c]
  OBVIOUS
<1>10. iter[C] = g[C]
  BY <1>3, <1>8, <1>9, SumsAgree
<1>11. Total(f, C) = g[C] /\ g[C] \in Int
  BY <1>3, <1>9
<1> QED BY <1>7, <1>10, <1>11 DEF f

\* What a row of the working model is over the columns C.
WorkRows(C) == [coef : [C -> Int], rl : Int, ru : Int, den : Nat \ {0}]

\* The activity of a row at a point.
LEMMA ActivityIs ==
  ASSUME NEW C, IsFiniteSet(C), NEW row, row.coef \in [C -> Int],
         NEW x, \A c \in C : x[c] \in Int
  PROVE  /\ Activity(row, x) = Total(Products(row.coef, x, C), C)
         /\ Activity(row, x) \in Int
<1>1. \A c \in C : row.coef[c] \in Int /\ x[c] \in Int
  OBVIOUS
<1>2. DOMAIN row.coef = C
  OBVIOUS
<1> QED BY <1>1, <1>2, DotIs DEF Activity

\* A common divisor divides.
LEMMA Divides ==
  ASSUME NEW n \in Nat \ {0}, NEW others \in SUBSET Int
  PROVE  LET g == CommonDivisor(n, others)
         IN  g \in Nat \ {0} /\ g <= n /\ n % g = 0 /\ \A v \in others : v % g = 0
<1> DEFINE S == {d \in 1 .. n : n % d = 0 /\ \A v \in others : v % d = 0}
<1>1. 1 \in S
  OBVIOUS
<1>2. S \in SUBSET Int /\ S # {} /\ n \in Int /\ \A d \in S : d <= n
  BY <1>1
<1>3. Max(S) \in S
  <2> HIDE DEF S
  <2> QED BY <1>2, MaxIs
<1>4. CommonDivisor(n, others) = Max(S)
  BY DEF CommonDivisor
<1> QED BY <1>3, <1>4

\* A cut is a row, and holds wherever the inequality it is made of does.
LEMMA CutHolds ==
  ASSUME NEW C, IsFiniteSet(C), NEW coef \in [C -> Int], NEW rhs \in Int, NEW den \in Nat \ {0}
  PROVE  /\ Cut(coef, rhs, den) \in WorkRows(C)
         /\ \A x : /\ \A c \in C : x[c] \in Int
                   /\ Total(Products(coef, x, C), C) <= rhs
                   => Holds(Cut(coef, rhs, den), x)
<1> DEFINE g == CommonDivisor(den, {rhs} \cup {coef[c] : c \in DOMAIN coef})
           cut == Cut(coef, rhs, den)
           less == [c \in C |-> coef[c] \div g]
<1>1. {rhs} \cup {coef[c] : c \in DOMAIN coef} \in SUBSET Int
  OBVIOUS
<1>2. /\ g \in Nat \ {0} /\ den % g = 0
      /\ \A v \in {rhs} \cup {coef[c] : c \in DOMAIN coef} : v % g = 0
  BY <1>1, Divides
<1>3. \A c \in C : coef[c] % g = 0
  BY <1>2
<1>4. cut = [coef |-> less, rl |-> -Inf, ru |-> rhs \div g, den |-> den \div g]
  BY DEF Cut
<1> HIDE DEF g, cut
<1>5. den \div g \in Nat \ {0}
  <2>1. den = g * (den \div g) /\ den \div g \in Int
    BY <1>2, Multiples
  <2> QED BY <1>2, <2>1
<1>6. rhs \div g \in Int /\ less \in [C -> Int] /\ -Inf \in Int
  <2>1. g \in Nat \ {0}
    BY <1>2
  <2>2. \A v \in Int : v \div g \in Int
    BY <2>1, DivMod
  <2>3. \A c \in C : coef[c] \in Int
    OBVIOUS
  <2>4. -Inf \in Int
    BY LinearAssumption
  <2> QED BY <2>2, <2>3, <2>4
<1>7. cut \in WorkRows(C)
  BY <1>4, <1>5, <1>6 DEF WorkRows
<1>8. ASSUME NEW x, \A c \in C : x[c] \in Int, Total(Products(coef, x, C), C) <= rhs
      PROVE  Holds(cut, x)
  <2>1. cut.coef = less /\ cut.rl = -Inf /\ cut.ru = rhs \div g
    BY <1>4
  <2>2. /\ Activity(cut, x) = Total(Products(less, x, C), C)
        /\ Activity(cut, x) \in Int
    BY <1>6, <1>8, <2>1, ActivityIs
  <2>3. ASSUME NEW c \in C
        PROVE  /\ Products(less, x, C)[c] \in Int
               /\ Products(coef, x, C)[c] = g * Products(less, x, C)[c]
    <3>1. coef[c] = g * less[c] /\ less[c] \in Int /\ x[c] \in Int
      BY <1>2, <1>3, <1>8, Multiples
    <3>2. ASSUME NEW u \in Int, NEW v \in Int, NEW w \in Int PROVE (u * v) * w = u * (v * w)
      OBVIOUS
    <3>3. coef[c] * x[c] = g * (less[c] * x[c])
      BY <1>2, <3>1, <3>2
    <3> QED BY <3>1, <3>3 DEF Products
  <2>4. Total(Products(coef, x, C), C) = g * Total(Products(less, x, C), C)
    BY <1>2, <2>3, TotalScale
  <2>5. Activity(cut, x) <= rhs \div g
    BY <1>2, <1>8, <2>2, <2>4, FloorBound
  <2>6. ~Finite(cut.rl)
    BY <2>1, LinearAssumption DEF Finite
  <2> QED BY <2>1, <2>5, <2>6 DEF Holds
<1> QED BY <1>7, <1>8 DEF cut

\* A point the columns C may take: within the bounds, whole in the integer columns.
PointIn(p, C, lo, up, ints) ==
  /\ \A c \in C : p[c] \in Int /\ lo[c] \in Int /\ up[c] \in Int /\ lo[c] <= p[c] /\ p[c] <= up[c]
  /\ \A c \in C : c \in ints => p[c] % Unit = 0

\* The rows of a working model over the columns C, all of which hold at p.
ValidRows(rs, p, C) == \A i \in DOMAIN rs : rs[i] \in WorkRows(C) /\ Holds(rs[i], p)

\* A sum over a function's domain.
LEMMA SumIsTotal == \A f : SumFunction(f) = Total(f, DOMAIN f)
BY DEF SumFunction, Total

\* The least multiple of Unit at or above a number, the greatest at or below it.
LEMMA RoundIs ==
  ASSUME NEW v \in Int, NEW w \in Int, w % Unit = 0
  PROVE  /\ RoundDown(v) \in Int /\ RoundUp(v) \in Int
         /\ Finite(v) /\ v <= w => RoundUp(v) <= w
         /\ Finite(v) /\ w <= v => w <= RoundDown(v)
         /\ Finite(v) => RoundUp(v) % Unit = 0 /\ RoundDown(v) % Unit = 0
<1>1. Unit \in Nat \ {0} /\ -v \in Int
  BY LinearAssumption
<1> DEFINE q == w \div Unit
           u == (-v) \div Unit
           d == v \div Unit
<1>2. w = Unit * q /\ q \in Int
  BY <1>1, Multiples
<1>3. u \in Int /\ d \in Int
  BY <1>1, DivMod
<1> HIDE DEF q, u, d
<1>4. /\ -u \in Int /\ -q \in Int /\ -(u * Unit) = Unit * (-u)
      /\ d * Unit = Unit * d /\ Unit * (-u) \in Int
  BY <1>1, <1>2, <1>3
<1>5. Finite(v) => RoundUp(v) = Unit * (-u) /\ RoundDown(v) = Unit * d
  BY <1>4 DEF RoundUp, RoundDown, u, d
<1>6. ~Finite(v) => RoundUp(v) = v /\ RoundDown(v) = v
  BY DEF RoundUp, RoundDown
<1>7. (Unit * (-u)) % Unit = 0 /\ (Unit * d) % Unit = 0
  BY <1>1, <1>3, <1>4, ModOfMultiple
<1>8. v <= w => RoundUp(v) <= w \/ ~Finite(v)
  <2> SUFFICES ASSUME v <= w, Finite(v) PROVE Unit * (-u) <= w
    BY <1>5
  <2>1. Unit * (-q) <= -v
    BY <1>1, <1>2
  <2>2. -q <= u
    BY <1>1, <1>4, <2>1, FloorBound DEF u
  <2>3. q - (-u) >= 0 /\ q - (-u) \in Int
    BY <1>2, <1>3, <2>2
  <2>4. Unit * (q - (-u)) >= 0
    BY <1>1, <2>3
  <2> QED BY <1>1, <1>2, <1>3, <2>4
<1>9. w <= v => w <= RoundDown(v) \/ ~Finite(v)
  <2> SUFFICES ASSUME w <= v, Finite(v) PROVE w <= Unit * d
    BY <1>5
  <2>1. Unit * q <= v
    BY <1>2
  <2>2. q <= d
    BY <1>1, <1>2, <2>1, FloorBound DEF d
  <2>3. d - q >= 0 /\ d - q \in Int
    BY <1>2, <1>3, <2>2
  <2>4. Unit * (d - q) >= 0
    BY <1>1, <2>3
  <2> QED BY <1>1, <1>2, <1>3, <2>4
<1>10. RoundDown(v) \in Int /\ RoundUp(v) \in Int
  <2>1. Unit * (-u) \in Int /\ Unit * d \in Int
    BY <1>1, <1>3
  <2> QED BY <1>5, <1>6, <2>1
<1> QED BY <1>5, <1>7, <1>8, <1>9, <1>10

-----------------------------------------------------------------------------
\* Sides

\* What a finite side of a row says at a point the row holds at.
Inequality(coef, rhs, p, C) ==
  /\ coef \in [C -> Int] /\ rhs \in Int
  /\ Total(Products(coef, p, C), C) <= rhs

\* Every finite side of a row that holds at p holds there.
LEMMA SideHolds ==
  ASSUME NEW C, IsFiniteSet(C), NEW rs, NEW p, \A c \in C : p[c] \in Int, ValidRows(rs, p, C),
         NEW side \in Sides(rs)
  PROVE  /\ Inequality(side.coef, side.rhs, p, C)
         /\ side.den \in Nat \ {0} /\ side.row \in DOMAIN rs /\ Support(side) \subseteq C
<1>1. PICK i \in DOMAIN rs, s \in {1, -1} : side = Side(rs[i], i, s) /\ Finite(side.rhs)
  BY DEF Sides
<1> DEFINE row == rs[i]
<1>2. /\ row.coef \in [C -> Int] /\ row.rl \in Int /\ row.ru \in Int /\ row.den \in Nat \ {0}
      /\ Holds(row, p)
  BY DEF ValidRows, WorkRows
<1> HIDE DEF row
<1>3. /\ side.coef = [c \in C |-> s * row.coef[c]]
      /\ side.rhs = IF s = 1 THEN row.ru ELSE -row.rl
      /\ side.den = row.den /\ side.row = i
  BY <1>1, <1>2 DEF Side, row
<1>4. side.coef \in [C -> Int] /\ side.rhs \in Int
  BY <1>2, <1>3
<1>5. /\ Activity(row, p) = Total(Products(row.coef, p, C), C) /\ Activity(row, p) \in Int
  BY <1>2, ActivityIs
<1>6. Total(Products(side.coef, p, C), C) = s * Total(Products(row.coef, p, C), C)
  <2>1. ASSUME NEW c \in C
        PROVE  /\ Products(row.coef, p, C)[c] \in Int
               /\ Products(side.coef, p, C)[c] = s * Products(row.coef, p, C)[c]
    <3>1. row.coef[c] \in Int /\ p[c] \in Int
      BY <1>2
    <3>2. (s * row.coef[c]) * p[c] = s * (row.coef[c] * p[c])
      BY <3>1
    <3> QED BY <1>3, <3>1, <3>2 DEF Products
  <2>2. s \in Int
    OBVIOUS
  <2> QED BY <2>1, <2>2, TotalScale
<1>7. Total(Products(side.coef, p, C), C) <= side.rhs
  <2>1. CASE s = 1
    <3>1. Activity(row, p) <= row.ru
      BY <1>1, <1>2, <1>3, <2>1 DEF Holds
    <3> QED BY <1>2, <1>3, <1>5, <1>6, <2>1, <3>1
  <2>2. CASE s = -1
    <3>1. Finite(row.rl)
      <4>1. side.rhs = -row.rl /\ row.rl \in Int /\ Inf \in Int
        BY <1>2, <1>3, <2>2, LinearAssumption
      <4> QED BY <1>1, <4>1 DEF Finite
    <3>2. row.rl <= Activity(row, p)
      BY <1>2, <3>1 DEF Holds
    <3> QED BY <1>2, <1>3, <1>5, <1>6, <2>2, <3>2
  <2> QED BY <2>1, <2>2
<1> QED BY <1>2, <1>3, <1>4, <1>7 DEF Inequality, Support

\* Products of two integers, the first at least 0, grow with the second.
LEMMA ScaleLe ==
  ASSUME NEW k \in Int, NEW a \in Int, NEW b \in Int
  PROVE  /\ k >= 0 /\ a <= b => k * a <= k * b
         /\ k <= 0 /\ a <= b => k * b <= k * a
<1>1. ASSUME k >= 0, a <= b PROVE k * a <= k * b
  <2>1. b - a \in Nat /\ k \in Nat
    BY <1>1
  <2>2. k * (b - a) >= 0
    BY <2>1
  <2> QED BY <2>2
<1>2. ASSUME k <= 0, a <= b PROVE k * b <= k * a
  <2>1. b - a \in Nat /\ -k \in Nat
    BY <1>2
  <2>2. (-k) * (b - a) >= 0
    BY <2>1
  <2> QED BY <2>2
<1> QED BY <1>1, <1>2

\* A sum of which one term may be other than 0.
LEMMA TotalOne ==
  ASSUME NEW S, IsFiniteSet(S), NEW f, NEW a \in S, f[a] \in Int, \A x \in S \ {a} : f[x] = 0
  PROVE  Total(f, S) = f[a]
<1>1. \A x \in S : f[x] \in Int
  OBVIOUS
<1>2. Total(f, S) = f[a] + Total(f, S \ {a})
  BY <1>1, SumTake
<1>3. IsFiniteSet(S \ {a})
  BY FS_Subset, S \ {a} \in SUBSET S
<1>4. Total(f, S \ {a}) = 0
  BY <1>3, TotalZero
<1> QED BY <1>2, <1>4

-----------------------------------------------------------------------------
\* tighten_integral_rows

\* A row of integer columns holds with its sides rounded to what such columns can reach.
LEMMA TightenedHolds ==
  ASSUME NEW C, IsFiniteSet(C), NEW row \in WorkRows(C), NEW lo, NEW up, NEW ints,
         NEW p, PointIn(p, C, lo, up, ints), Holds(row, p), Support(row) \subseteq ints,
         NEW to \in WorkRows(C),
         to.coef = row.coef, to.rl = RoundUp(row.rl), to.ru = RoundDown(row.ru)
  PROVE  Holds(to, p)
<1>1. row.coef \in [C -> Int] /\ row.rl \in Int /\ row.ru \in Int
  BY DEF WorkRows
<1>2. \A c \in C : p[c] \in Int /\ (c \in ints => p[c] % Unit = 0)
  BY DEF PointIn
<1> DEFINE v == Activity(row, p)
<1>3. v = Total(Products(row.coef, p, C), C) /\ v \in Int /\ Activity(to, p) = v
  <2>1. v = Total(Products(row.coef, p, C), C) /\ v \in Int
    BY <1>1, <1>2, ActivityIs
  <2> QED BY <2>1 DEF Activity
<1>4. Unit \in Nat \ {0}
  BY LinearAssumption
<1>5. v % Unit = 0
  <2>1. ASSUME NEW c \in C
        PROVE  Products(row.coef, p, C)[c] \in Int /\ Products(row.coef, p, C)[c] % Unit = 0
    <3>1. Products(row.coef, p, C)[c] = row.coef[c] * p[c] /\ row.coef[c] \in Int /\ p[c] \in Int
      BY <1>1, <1>2 DEF Products
    <3>2. CASE row.coef[c] = 0
      BY <1>4, <3>1, <3>2
    <3>3. CASE row.coef[c] # 0
      <4>1. p[c] % Unit = 0
        BY <1>1, <1>2, <3>3 DEF Support
      <4>2. p[c] = Unit * (p[c] \div Unit) /\ p[c] \div Unit \in Int
        BY <1>4, <3>1, <4>1, Multiples
      <4>3. row.coef[c] * p[c] = Unit * (row.coef[c] * (p[c] \div Unit))
        BY <1>4, <3>1, <4>2
      <4>4. row.coef[c] * (p[c] \div Unit) \in Int
        BY <3>1, <4>2
      <4>5. (Unit * (row.coef[c] * (p[c] \div Unit))) % Unit = 0
        BY ONLY <1>4, <4>4, ModOfMultiple
      <4>6. Products(row.coef, p, C)[c] % Unit = 0
        BY ONLY <3>1, <4>3, <4>5
      <4> QED BY <3>1, <4>6
    <3> QED BY <3>2, <3>3
  <2> QED BY <1>3, <1>4, <2>1, TotalMultiple
<1> HIDE DEF v
<1>6. Finite(to.rl) => Finite(row.rl)
  BY DEF RoundUp
<1>7. Finite(to.ru) => Finite(row.ru)
  BY DEF RoundDown
<1>8. Finite(row.rl) => row.rl <= v
  BY DEF Holds, v
<1>9. Finite(row.ru) => v <= row.ru
  BY DEF Holds, v
<1>10. Finite(to.rl) => to.rl <= v
  BY <1>1, <1>3, <1>5, <1>6, <1>8, RoundIs
<1>11. Finite(to.ru) => v <= to.ru
  BY <1>1, <1>3, <1>5, <1>7, <1>9, RoundIs
<1> QED BY <1>3, <1>10, <1>11 DEF Holds

-----------------------------------------------------------------------------
\* Clique cuts

\* Of two columns a side forbids together, one is at 0.
LEMMA ConflictExcludes ==
  ASSUME NEW C, IsFiniteSet(C), NEW lo, NEW up, NEW ints, NEW p, PointIn(p, C, lo, up, ints),
         NEW side, Inequality(side.coef, side.rhs, p, C),
         NEW a, NEW b, a # b, InConflict(a, b, side, lo, up, ints)
  PROVE  ~(p[a] = Unit /\ p[b] = Unit)
<1> SUFFICES ASSUME p[a] = Unit, p[b] = Unit PROVE FALSE
  OBVIOUS
<1> DEFINE k == side.coef
           positive == {c \in Support(side) : k[c] > 0 /\ Binary(c, lo, up, ints)}
           L == Support(side) \ positive
           best == [c \in L |-> IF k[c] > 0 THEN lo[c] ELSE up[c]]
           rest == [c \in L |-> k[c] * best[c]]
           h == [c \in C |-> IF c \in {a, b} THEN k[c] * Unit ELSE IF c \in L THEN rest[c] ELSE 0]
           g == Products(k, p, C)
<1>1. k \in [C -> Int] /\ side.rhs \in Int /\ Total(g, C) <= side.rhs
  BY DEF Inequality
<1>2. Support(side) \subseteq C /\ \A c \in C : c \notin Support(side) => k[c] = 0
  BY <1>1 DEF Support
<1>3. \A c \in C : /\ p[c] \in Int /\ lo[c] \in Int /\ up[c] \in Int /\ k[c] \in Int
                   /\ lo[c] <= p[c] /\ p[c] <= up[c] /\ g[c] = k[c] * p[c] /\ g[c] \in Int
  BY <1>1 DEF PointIn, Products
<1>4. /\ a \in positive /\ b \in positive
      /\ (k[a] + k[b]) * Unit + SumFunction(rest) > side.rhs
  <2>1. DOMAIN best = L
    OBVIOUS
  <2>2. SumFunction([c \in DOMAIN best |-> side.coef[c] * best[c]]) = SumFunction(rest)
    BY <2>1
  <2> QED BY <2>2, Zenon DEF InConflict
<1>5. Unit \in Nat \ {0}
  BY LinearAssumption
<1>6. a \in C /\ b \in C /\ a \notin L /\ b \notin L /\ L \subseteq C
  BY <1>2, <1>4
<1>7. \A c \in positive : c \in C /\ k[c] > 0 /\ lo[c] = 0
  BY <1>2 DEF Binary
<1>8. \A c \in L : rest[c] = k[c] * best[c] /\ rest[c] \in Int /\ rest[c] <= g[c]
  <2> SUFFICES ASSUME NEW c \in L
               PROVE  rest[c] = k[c] * best[c] /\ rest[c] \in Int /\ rest[c] <= g[c]
    OBVIOUS
  <2>1. rest[c] = k[c] * best[c] /\ c \in C
    BY <1>6
  <2>2. CASE k[c] > 0
    <3>1. best[c] = lo[c]
      BY <2>2
    <3> QED BY <1>3, <2>1, <2>2, <3>1, ScaleLe
  <2>3. CASE ~(k[c] > 0)
    <3>1. best[c] = up[c]
      BY <2>3
    <3> QED BY <1>3, <2>1, <2>3, <3>1, ScaleLe
  <2> QED BY <2>2, <2>3
<1> HIDE DEF rest, best, g
<1>9. \A c \in C : h[c] \in Int /\ g[c] \in Int /\ h[c] <= g[c]
  <2> SUFFICES ASSUME NEW c \in C PROVE h[c] \in Int /\ h[c] <= g[c]
    BY <1>3
  <2>1. CASE c \in {a, b}
    BY <1>3, <1>5, <2>1
  <2>2. CASE c \notin {a, b} /\ c \in L
    BY <1>8, <2>2
  <2>3. CASE c \notin {a, b} /\ c \notin L
    <3>1. h[c] = 0
      BY <2>3
    <3>2. CASE c \in positive
      <4>1. k[c] > 0 /\ p[c] >= 0 /\ k[c] \in Int /\ p[c] \in Int
        BY <1>3, <1>7, <3>2
      <4>2. k[c] * p[c] >= k[c] * 0
        BY <4>1, ScaleLe
      <4> QED BY <1>3, <3>1, <4>1, <4>2
    <3>3. CASE c \notin positive
      BY <1>2, <1>3, <2>3, <3>1, <3>3
    <3> QED BY <3>2, <3>3
  <2> QED BY <2>1, <2>2, <2>3
<1>10. Total(h, C) = h[a] + (h[b] + Total(h, (C \ {a}) \ {b}))
  <2>1. \A c \in C : h[c] \in Int
    BY <1>9
  <2> HIDE DEF h
  <2>2. Total(h, C) = h[a] + Total(h, C \ {a})
    BY <1>6, <2>1, SumTake
  <2>3. IsFiniteSet(C \ {a}) /\ b \in C \ {a}
    BY <1>6, FS_Subset, C \ {a} \in SUBSET C
  <2>4. Total(h, C \ {a}) = h[b] + Total(h, (C \ {a}) \ {b})
    BY <2>1, <2>3, SumTake
  <2> QED BY <2>2, <2>4
<1> DEFINE R == (C \ {a}) \ {b}
<1>11. Total(h, R) = SumFunction(rest)
  <2>1. R \in SUBSET C /\ L \in SUBSET R /\ IsFiniteSet(R) /\ IsFiniteSet(L)
    <3>1. R \in SUBSET C /\ L \in SUBSET R
      BY <1>6
    <3> QED BY <3>1, FS_Subset
  <2>2. \A c \in R : h[c] \in Int
    BY <1>9
  <2>3. \A c \in R \ L : h[c] = 0
    OBVIOUS
  <2>4. \A c \in L : rest[c] \in Int /\ h[c] = rest[c]
    BY <1>6, <1>8
  <2>5. DOMAIN rest = L
    BY DEF rest
  <2> HIDE DEF h, R, L
  <2>6. Total(h, R) = Total(h, L)
    BY <2>1, <2>2, <2>3, TotalWithin
  <2>7. Total(h, L) = Total(rest, L)
    BY <2>1, <2>4, TotalSame
  <2> QED BY <2>5, <2>6, <2>7, SumIsTotal
<1>12. Total(h, C) <= Total(g, C)
  <2> HIDE DEF h
  <2> QED BY <1>9, TotalLe
<1>13. h[a] = k[a] * Unit /\ h[b] = k[b] * Unit /\ k[a] \in Int /\ k[b] \in Int
  BY <1>3, <1>6
<1>14. SumFunction(rest) \in Int
  <2>1. \A c \in R : h[c] \in Int
    BY <1>9
  <2>2. IsFiniteSet(R)
    BY FS_Subset, R \in SUBSET C
  <2> HIDE DEF h, R
  <2>3. Total(h, R) \in Int
    BY <2>1, <2>2, TotalInt
  <2> QED BY <2>3, <1>11
<1>15. Total(g, C) \in Int
  BY <1>9, TotalInt
<1>16. Total(h, C) = k[a] * Unit + (k[b] * Unit + SumFunction(rest))
  BY <1>10, <1>11, <1>13
<1> HIDE DEF k, h
<1>17. (k[a] + k[b]) * Unit = k[a] * Unit + k[b] * Unit
  BY <1>5, <1>13
<1> QED BY <1>1, <1>4, <1>5, <1>12, <1>13, <1>14, <1>15, <1>16, <1>17

\* A whole number between 0 and 1.
LEMMA BinaryValue ==
  ASSUME NEW v \in Int, v % Unit = 0, 0 <= v, v <= Unit
  PROVE  v \in {0, Unit}
<1>1. Unit \in Nat \ {0}
  BY LinearAssumption
<1> DEFINE q == v \div Unit
<1>2. v = Unit * q /\ q \in Int
  BY <1>1, Multiples
<1> HIDE DEF q
<1>3. q \in {0, 1}
  <2>1. CASE q >= 2
    <3>1. Unit * q >= Unit * 2
      BY <1>1, <1>2, <2>1, ScaleLe
    <3> QED BY <1>1, <1>2, <3>1
  <2>2. CASE q <= -1
    <3>1. Unit * q <= Unit * (-1)
      BY <1>1, <1>2, <2>2, ScaleLe
    <3> QED BY <1>1, <1>2, <3>1
  <2> QED BY <1>2, <2>1, <2>2
<1> QED BY <1>1, <1>2, <1>3

\* Pairwise in conflict, at most one of the columns is at 1.
LEMMA CliqueHolds ==
  ASSUME NEW C, IsFiniteSet(C), NEW rs, NEW lo, NEW up, NEW ints,
         NEW p, PointIn(p, C, lo, up, ints), ValidRows(rs, p, C),
         NEW x, DOMAIN x = C, NEW cut \in CliqueCuts(rs, x, lo, up, ints)
  PROVE  cut \in WorkRows(C) /\ Holds(cut, p)
<1> DEFINE cols == {c \in DOMAIN x : Binary(c, lo, up, ints)}
           edges == {e \in cols \X cols : e[1] # e[2] /\
                       \E side \in Sides(rs) : InConflict(e[1], e[2], side, lo, up, ints)}
<1>1. PICK S \in SUBSET cols :
        /\ \A a \in S, b \in S : a = b \/ <<a, b>> \in edges
        /\ cut = Cut([c \in DOMAIN x |-> IF c \in S THEN 1 ELSE 0], Unit, 1)
  BY Zenon DEF CliqueCuts
<1> DEFINE f == [c \in C |-> IF c \in S THEN 1 ELSE 0]
           g == Products(f, p, C)
<1>2. \A c \in C : p[c] \in Int /\ (c \in ints => p[c] % Unit = 0)
  BY DEF PointIn
<1>3. Unit \in Nat \ {0}
  BY LinearAssumption
<1>4. \A c \in S : c \in C /\ p[c] \in {0, Unit}
  <2> SUFFICES ASSUME NEW c \in S PROVE c \in C /\ p[c] \in {0, Unit}
    OBVIOUS
  <2>1. c \in C /\ c \in ints /\ lo[c] = 0 /\ up[c] = Unit
    BY DEF Binary
  <2>2. p[c] \in Int /\ p[c] % Unit = 0 /\ 0 <= p[c] /\ p[c] <= Unit
    BY <2>1 DEF PointIn
  <2> QED BY <2>1, <2>2, BinaryValue
<1>5. \A c \in C : g[c] = (IF c \in S THEN p[c] ELSE 0) /\ g[c] \in Int
  BY <1>2 DEF Products
<1>6. Total(g, C) <= Unit
  <2> HIDE DEF g
  <2>1. CASE \A c \in S : p[c] = 0
    <3>1. \A c \in C : g[c] = 0
      BY <1>5, <2>1
    <3>2. Total(g, C) = 0
      BY <3>1, TotalZero
    <3> QED BY <1>3, <3>2
  <2>2. CASE \E c \in S : p[c] # 0
    <3>1. PICK a \in S : p[a] # 0
      BY <2>2
    <3>2. p[a] = Unit /\ a \in C
      BY <1>4, <3>1
    <3>3. ASSUME NEW b \in S, b # a PROVE p[b] = 0
      <4>1. <<a, b>> \in edges
        BY <1>1, <3>3
      <4>2. PICK side \in Sides(rs) : InConflict(a, b, side, lo, up, ints)
        BY <4>1
      <4>3. Inequality(side.coef, side.rhs, p, C)
        BY <1>2, SideHolds
      <4>4. ~(p[a] = Unit /\ p[b] = Unit)
        BY <3>3, <4>2, <4>3, ConflictExcludes
      <4> QED BY <1>4, <3>2, <4>4
    <3>4. \A c \in C \ {a} : g[c] = 0
      BY <1>5, <3>3
    <3>5. Total(g, C) = g[a]
      BY <1>5, <3>2, <3>4, TotalOne
    <3> QED BY <1>3, <1>5, <3>2, <3>5
  <2> QED BY <2>1, <2>2
<1>7. f \in [C -> Int] /\ Unit \in Int /\ 1 \in Nat \ {0}
  BY <1>3
<1>8. cut = Cut(f, Unit, 1)
  BY <1>1
<1> HIDE DEF f
<1> QED BY <1>2, <1>6, <1>7, <1>8, CutHolds

\* The greater of two integers.
LEMMA MaxOfTwo ==
  ASSUME NEW a \in Int, NEW b \in Int
  PROVE  Max({a, b}) = IF a >= b THEN a ELSE b
<1>1. {a, b} \in SUBSET Int /\ {a, b} # {} /\ \A v \in {a, b} : v <= (IF a >= b THEN a ELSE b)
  OBVIOUS
<1>2. Max({a, b}) \in {a, b} /\ \A v \in {a, b} : v <= Max({a, b})
  BY <1>1, MaxIs
<1> QED BY <1>2

\* The lesser of two integers.
LEMMA MinOfTwo ==
  ASSUME NEW a \in Int, NEW b \in Int
  PROVE  Min({a, b}) = IF a <= b THEN a ELSE b
<1>1. {a, b} \in SUBSET Int /\ {a, b} # {} /\ \A v \in {a, b} : (IF a <= b THEN a ELSE b) <= v
  OBVIOUS
<1>2. Min({a, b}) \in {a, b} /\ \A v \in {a, b} : Min({a, b}) <= v
  BY <1>1, MinIs
<1> QED BY <1>2

-----------------------------------------------------------------------------
\* Mixed-integer rounding

\* A term of the rounded row over y: q of it is rounded, s of it is given away.
MirSplit(a, y, coefficient, d, r, q, s) ==
  /\ d * (Unit * q) - s <= a * y
  /\ coefficient * y = (d * Unit - r) * (Unit * q) - Unit * s

\* MirCoefficient is a coefficient that splits a term so.
LEMMA MirTerm ==
  ASSUME NEW d \in Nat \ {0}, NEW r \in 1 .. d * Unit - 1, NEW a \in Int, NEW y \in Nat,
         NEW isInt \in BOOLEAN, isInt => y % Unit = 0
  PROVE  /\ MirCoefficient(a, isInt, d, r) \in Int
         /\ \E q \in Int, s \in Nat : MirSplit(a, y, MirCoefficient(a, isInt, d, r), d, r, q, s)
<1>0. Unit \in Nat \ {0}
  BY LinearAssumption
<1>1. CASE isInt
  <2> DEFINE k == a \div d
             m == a % d
             t == y \div Unit
             one == d * Unit
  <2>1. k \in Int /\ m \in 0 .. d - 1 /\ a = d * k + m
    BY DivMod
  <2>2. y = Unit * t /\ t \in Int
    BY <1>0, <1>1, Multiples
  <2>3. one \in Nat /\ r \in Int /\ m * Unit \in Int
    BY <1>0, <2>1
  <2>4. Max({0, m * Unit - r}) = IF 0 >= m * Unit - r THEN 0 ELSE m * Unit - r
    BY <2>3, MaxOfTwo
  <2>5. MirCoefficient(a, isInt, d, r)
          = k * (one - r) + (IF 0 >= m * Unit - r THEN 0 ELSE m * Unit - r)
    BY <1>1, <2>4 DEF MirCoefficient
  <2> HIDE DEF k, m, t
  <2>6. t >= 0
    <3>1. CASE t <= -1
      <4>1. Unit * t <= Unit * (-1)
        BY <1>0, <2>2, <3>1, ScaleLe
      <4> QED BY <1>0, <2>2, <4>1
    <3> QED BY <2>2, <3>1
  <2>7. CASE 0 >= m * Unit - r
    <3> DEFINE q == k * t
    <3>1. MirCoefficient(a, isInt, d, r) = k * (one - r)
      BY <2>1, <2>3, <2>5, <2>7
    <3>2. q \in Int
      BY <2>1, <2>2
    <3>3. a * y = d * (Unit * q) + m * y
      BY <1>0, <2>1, <2>2
    <3>4. m * y >= 0 /\ m * y \in Int
      BY <2>1
    <3>5. (k * (one - r)) * y = (one - r) * (Unit * q)
      BY <1>0, <2>1, <2>2, <2>3
    <3>6. d * (Unit * q) \in Int /\ (one - r) * (Unit * q) \in Int
      BY <1>0, <2>3, <3>2
    <3>7. MirSplit(a, y, MirCoefficient(a, isInt, d, r), d, r, q, 0)
      BY <1>0, <3>1, <3>3, <3>4, <3>5, <3>6 DEF MirSplit
    <3> QED BY <2>1, <2>3, <3>1, <3>2, <3>7
  <2>8. CASE ~(0 >= m * Unit - r)
    <3> DEFINE q == (k + 1) * t
               s == (d - m) * y
    <3>1. MirCoefficient(a, isInt, d, r) = k * (one - r) + (m * Unit - r)
      BY <2>5, <2>8
    <3>2. q \in Int /\ s \in Nat
      BY <2>1, <2>2
    <3>3. d * (Unit * q) - s = a * y
      BY <1>0, <2>1, <2>2
    <3>4. (k * (one - r) + (m * Unit - r)) * y = (one - r) * (Unit * q) - Unit * s
      BY <1>0, <2>1, <2>2, <2>3
    <3>5. MirSplit(a, y, MirCoefficient(a, isInt, d, r), d, r, q, s)
      <4>1. a * y \in Int
        OBVIOUS
      <4>2. d * (Unit * q) - s <= a * y
        BY <3>3, <4>1
      <4> QED BY <3>1, <3>4, <4>2 DEF MirSplit
    <3> QED BY <2>1, <2>3, <3>1, <3>2, <3>5
  <2> QED BY <2>7, <2>8
<1>2. CASE ~isInt /\ a < 0
  <2> DEFINE s == -(a * y)
  <2>1. MirCoefficient(a, isInt, d, r) = a * Unit
    BY <1>2 DEF MirCoefficient
  <2>2. s \in Nat
    BY <1>2
  <2>3. (a * Unit) * y = (d * Unit - r) * (Unit * 0) - Unit * s
    BY <1>0
  <2>4. d * (Unit * 0) - s <= a * y
    BY <1>0
  <2>5. MirSplit(a, y, MirCoefficient(a, isInt, d, r), d, r, 0, s)
    BY <2>1, <2>3, <2>4 DEF MirSplit
  <2> QED BY <1>0, <2>1, <2>2, <2>5
<1>3. CASE ~isInt /\ ~(a < 0)
  <2>1. MirCoefficient(a, isInt, d, r) = 0
    BY <1>3 DEF MirCoefficient
  <2>2. a * y >= 0
    BY <1>3
  <2>3. 0 * y = (d * Unit - r) * (Unit * 0) - Unit * 0 /\ d * (Unit * 0) - 0 = 0
    BY <1>0
  <2>4. MirSplit(a, y, MirCoefficient(a, isInt, d, r), d, r, 0, 0)
    BY <2>1, <2>2, <2>3 DEF MirSplit
  <2> QED BY <2>1, <2>4
<1> QED BY <1>1, <1>2, <1>3

\* The rounding: q whole units of what is at most b, less what is given away.
LEMMA MirRounds ==
  ASSUME NEW d \in Nat \ {0}, NEW b \in Int, NEW q \in Int, NEW s \in Nat,
         b % (d * Unit) # 0, (d * Unit) * q - s <= b
  PROVE  LET r == b % (d * Unit)
         IN  (d * Unit - r) * (Unit * q) - Unit * s <= (b \div (d * Unit)) * Unit * (d * Unit - r)
<1> DEFINE one == d * Unit
           r == b % one
           n == b \div one
<1>0. Unit \in Nat \ {0} /\ one \in Nat \ {0}
  BY LinearAssumption
<1>1. n \in Int /\ r \in 0 .. one - 1 /\ b = one * n + r
  BY <1>0, DivMod
<1> HIDE DEF n, r, one
<1>2. one - r \in Nat \ {0} /\ r \in Nat
  BY <1>0, <1>1
<1>3. (one - r) * q - s <= (one - r) * n
  <2>1. CASE q <= n
    <3>1. (one - r) * q <= (one - r) * n
      BY <1>1, <1>2, <2>1, ScaleLe
    <3> QED BY <1>1, <1>2, <3>1
  <2>2. CASE q >= n + 1
    <3>1. s >= one * (q - n) - r
      BY <1>0, <1>1 DEF one
    <3>2. r * (q - n) >= r * 1
      BY <1>1, <1>2, <2>2, ScaleLe
    <3>3. (one - r) * q - (one - r) * n = one * (q - n) - r * (q - n)
      BY <1>0, <1>1
    <3>4. /\ one * (q - n) \in Int /\ r * (q - n) \in Int
          /\ (one - r) * q \in Int /\ (one - r) * n \in Int
      BY <1>0, <1>1
    <3> QED BY <1>2, <3>1, <3>2, <3>3, <3>4
  <2> QED BY <1>1, <2>1, <2>2
<1> DEFINE u == (one - r) * q - s
           v == (one - r) * n
<1>4. Unit * u <= Unit * v
  <2>1. u \in Int /\ v \in Int
    BY <1>1, <1>2
  <2> HIDE DEF u, v
  <2> QED BY <1>0, <1>3, <2>1, ScaleLe DEF u, v
<1>5. Unit * u = (one - r) * (Unit * q) - Unit * s
  BY <1>0, <1>1, <1>2
<1>6. Unit * v = n * Unit * (one - r)
  BY <1>0, <1>1, <1>2
<1> QED BY <1>4, <1>5, <1>6 DEF one, r, n

\* The terms of a sum of products may be split over a value each column is compared with.
LEMMA TotalShift ==
  ASSUME NEW S, IsFiniteSet(S), NEW f, NEW g, NEW h,
         \A c \in S : f[c] \in Int /\ g[c] \in Int /\ h[c] \in Int /\ f[c] = g[c] + h[c]
  PROVE  Total(f, S) = Total(g, S) + Total(h, S)
<1>1. \A c \in S : g[c] \in Int /\ h[c] \in Int /\ f[c] = g[c] + h[c]
  OBVIOUS
<1> QED BY ONLY <1>1, IsFiniteSet(S), TotalAdd

\* The rounded row holds wherever the row does and the columns are within the bounds.
LEMMA MirHolds ==
  ASSUME NEW C, IsFiniteSet(C), NEW lo, NEW up, NEW ints, NEW p, PointIn(p, C, lo, up, ints),
         NEW base, Inequality(base.coef, base.rhs, p, C), base.den \in Nat \ {0},
         NEW x, NEW cut \in MirFrom(base, x, lo, up, ints)
  PROVE  cut \in WorkRows(C) /\ Holds(cut, p)
<1> DEFINE cols == Support(base)
           upper == {c \in cols : UseUpper(lo[c], up[c], x[c])}
           bound == [c \in cols |-> IF c \in upper THEN up[c] ELSE lo[c]]
           a == [c \in cols |-> IF c \in upper THEN -base.coef[c] ELSE base.coef[c]]
           kb == [c \in cols |-> base.coef[c] * bound[c]]
           b == base.rhs - SumFunction(kb)
           divisors == {base.den}
                         \cup {AbsValue(a[c]) : c \in {k \in cols \cap ints :
                                                  ~Whole(x[k] - bound[k])}}
           sign == [c \in cols |-> IF c \in upper THEN -1 ELSE 1]
           mc(d) == [c \in cols |-> MirCoefficient(a[c], c \in ints, d, b % (d * Unit))]
           back(d) == [c \in cols |-> sign[c] * mc(d)[c] * bound[c]]
           coef(d) == [c \in DOMAIN base.coef |-> IF c \in cols THEN sign[c] * mc(d)[c] ELSE 0]
           rhs(d) == (b \div (d * Unit)) * Unit * (d * Unit - (b % (d * Unit)))
                     + SumFunction(back(d))
<1>1. \A c \in cols \cap ints : Whole(bound[c])
  BY Zenon DEF MirFrom
<1>2. PICK d \in divisors : /\ b % (d * Unit) # 0
                            /\ cut = Cut(coef(d), rhs(d), d * Unit - (b % (d * Unit)))
  BY Zenon DEF MirFrom
<1>3. /\ base.coef \in [C -> Int] /\ base.rhs \in Int
      /\ Total(Products(base.coef, p, C), C) <= base.rhs
  BY DEF Inequality
<1>4. \A c \in C : /\ p[c] \in Int /\ lo[c] \in Int /\ up[c] \in Int /\ base.coef[c] \in Int
                   /\ lo[c] <= p[c] /\ p[c] <= up[c] /\ (c \in ints => p[c] % Unit = 0)
  BY <1>3 DEF PointIn
<1>5. cols \in SUBSET C /\ IsFiniteSet(cols) /\ \A c \in C \ cols : base.coef[c] = 0
  <2>1. cols \in SUBSET C /\ \A c \in C \ cols : base.coef[c] = 0
    BY <1>3 DEF Support
  <2> QED BY <2>1, FS_Subset
<1>6. Unit \in Nat \ {0}
  BY LinearAssumption
<1> DEFINE y == [c \in cols |-> IF c \in upper THEN up[c] - p[c] ELSE p[c] - lo[c]]
<1>7. \A c \in cols : /\ base.coef[c] # 0 /\ a[c] \in Int /\ a[c] # 0 /\ bound[c] \in Int
                      /\ sign[c] \in {1, -1} /\ a[c] = sign[c] * base.coef[c]
                      /\ y[c] \in Nat /\ y[c] = sign[c] * (p[c] - bound[c])
                      /\ kb[c] = base.coef[c] * bound[c] /\ kb[c] \in Int
                      /\ p[c] \in Int /\ base.coef[c] \in Int
  <2> SUFFICES ASSUME NEW c \in cols
               PROVE  /\ base.coef[c] # 0 /\ a[c] \in Int /\ a[c] # 0 /\ bound[c] \in Int
                      /\ sign[c] \in {1, -1} /\ a[c] = sign[c] * base.coef[c]
                      /\ y[c] \in Nat /\ y[c] = sign[c] * (p[c] - bound[c])
                      /\ kb[c] = base.coef[c] * bound[c] /\ kb[c] \in Int
                      /\ p[c] \in Int /\ base.coef[c] \in Int
    OBVIOUS
  <2>1. c \in C /\ base.coef[c] # 0
    BY <1>5 DEF Support
  <2>2. /\ p[c] \in Int /\ lo[c] \in Int /\ up[c] \in Int /\ base.coef[c] \in Int
        /\ lo[c] <= p[c] /\ p[c] <= up[c]
    BY <1>4, <2>1
  <2>3. CASE c \in upper
    <3>1. bound[c] = up[c] /\ sign[c] = -1 /\ a[c] = -base.coef[c] /\ y[c] = up[c] - p[c]
      BY <2>3
    <3> QED BY <2>1, <2>2, <3>1
  <2>4. CASE c \notin upper
    <3>1. bound[c] = lo[c] /\ sign[c] = 1 /\ a[c] = base.coef[c] /\ y[c] = p[c] - lo[c]
      BY <2>4
    <3> QED BY <2>1, <2>2, <3>1
  <2> QED BY <2>3, <2>4
<1>8. \A c \in cols \cap ints : y[c] % Unit = 0
  <2> SUFFICES ASSUME NEW c \in cols, c \in ints PROVE y[c] % Unit = 0
    OBVIOUS
  <2>1. bound[c] % Unit = 0 /\ p[c] % Unit = 0
    BY <1>1, <1>4, <1>5 DEF Whole
  <2>2. /\ bound[c] \in Int /\ p[c] \in Int /\ sign[c] \in {1, -1}
        /\ y[c] = sign[c] * (p[c] - bound[c])
    BY <1>7
  <2> HIDE DEF y, bound, sign
  <2> DEFINE u == p[c] \div Unit
             v == bound[c] \div Unit
  <2>3. p[c] = Unit * u /\ u \in Int /\ bound[c] = Unit * v /\ v \in Int
    BY <1>6, <2>1, <2>2, Multiples
  <2> HIDE DEF u, v
  <2>4. y[c] = Unit * (sign[c] * (u - v)) /\ sign[c] * (u - v) \in Int
    BY <1>6, <2>2, <2>3
  <2>5. (Unit * (sign[c] * (u - v))) % Unit = 0
    BY ONLY <1>6, <2>4, ModOfMultiple
  <2> QED BY <2>4, <2>5
<1>9. d \in Nat \ {0}
  <2>1. CASE d = base.den
    BY <2>1
  <2>2. CASE d # base.den
    <3>1. PICK c \in cols : d = AbsValue(a[c])
      BY <2>2
    <3>2. a[c] \in Int /\ a[c] # 0
      BY <1>7
    <3> HIDE DEF a
    <3> QED BY <3>1, <3>2 DEF AbsValue
  <2> QED BY <2>1, <2>2
<1>10. SumFunction(kb) = Total(kb, cols) /\ Total(kb, cols) \in Int
  <2>1. \A c \in cols : kb[c] \in Int
    BY <1>7
  <2>2. DOMAIN kb = cols
    OBVIOUS
  <2> HIDE DEF kb, cols
  <2> QED BY <1>5, <2>1, <2>2, TotalInt, SumIsTotal
<1>11. b = base.rhs - Total(kb, cols) /\ b \in Int
  <2> HIDE DEF kb
  <2> QED BY <1>3, <1>10
<1> DEFINE r == b % (d * Unit)
           one == d * Unit
<1>12. one \in Nat \ {0} /\ r \in 1 .. one - 1
  <2>1. one \in Nat \ {0}
    BY <1>6, <1>9
  <2>2. r # 0
    BY <1>2
  <2>3. b \in Int
    BY <1>11
  <2> HIDE DEF b, one
  <2>4. r \in 0 .. one - 1
    BY <2>1, <2>3, DivMod DEF one
  <2> HIDE DEF r
  <2> QED BY <2>1, <2>2, <2>4
<1> DEFINE ay == [c \in cols |-> a[c] * y[c]]
           g == Products(base.coef, p, C)
\* The row in y.
<1>13. Total(ay, cols) <= b
  <2>1. \A c \in C : g[c] = base.coef[c] * p[c] /\ g[c] \in Int
    BY <1>4 DEF Products
  <2>2. \A c \in C \ cols : g[c] = 0
    BY <1>4, <1>5, <2>1
  <2>3. \A c \in cols : ay[c] \in Int /\ kb[c] \in Int /\ g[c] = ay[c] + kb[c]
    <3> SUFFICES ASSUME NEW c \in cols PROVE ay[c] \in Int /\ kb[c] \in Int /\ g[c] = ay[c] + kb[c]
      OBVIOUS
    <3>1. /\ a[c] \in Int /\ bound[c] \in Int
          /\ sign[c] \in {1, -1} /\ a[c] = sign[c] * base.coef[c]
          /\ y[c] \in Nat /\ y[c] = sign[c] * (p[c] - bound[c])
          /\ kb[c] = base.coef[c] * bound[c] /\ kb[c] \in Int
          /\ p[c] \in Int /\ base.coef[c] \in Int
      BY <1>7
    <3>2. g[c] = base.coef[c] * p[c] /\ ay[c] = a[c] * y[c]
      BY <1>5, <2>1
    <3> HIDE DEF g, ay, kb, a, bound, sign, y, cols
    <3>3. CASE sign[c] = 1
      BY <3>1, <3>2, <3>3
    <3>4. CASE sign[c] = -1
      BY <3>1, <3>2, <3>4
    <3> QED BY <3>1, <3>3, <3>4
  <2> HIDE DEF g, ay, kb, cols, b
  <2>4. Total(g, C) = Total(g, cols)
    BY <1>5, <2>1, <2>2, TotalWithin
  <2>5. Total(g, cols) = Total(ay, cols) + Total(kb, cols)
    BY <1>5, <2>3, TotalAdd
  <2>6. Total(ay, cols) \in Int
    BY <1>5, <2>3, TotalInt
  <2>7. Total(g, C) <= base.rhs
    BY <1>3 DEF g
  <2> QED BY <1>3, <1>10, <1>11, <2>4, <2>5, <2>6, <2>7
<1> DEFINE m == mc(d)
<1>14. \A c \in cols : /\ m[c] \in Int
                       /\ \E q \in Int, s \in Nat : MirSplit(a[c], y[c], m[c], d, r, q, s)
  <2> SUFFICES ASSUME NEW c \in cols
               PROVE  /\ m[c] \in Int
                      /\ \E q \in Int, s \in Nat : MirSplit(a[c], y[c], m[c], d, r, q, s)
    OBVIOUS
  <2>1. a[c] \in Int /\ y[c] \in Nat /\ (c \in ints => y[c] % Unit = 0)
    BY <1>7, <1>8
  <2>2. m[c] = MirCoefficient(a[c], c \in ints, d, r)
    OBVIOUS
  <2>3. (c \in ints) \in BOOLEAN /\ r \in 1 .. d * Unit - 1
    BY <1>12
  <2> DEFINE whole == c \in ints
  <2>4. whole \in BOOLEAN /\ (whole => y[c] % Unit = 0) /\ m[c] = MirCoefficient(a[c], whole, d, r)
    BY <2>1, <2>2
  <2> HIDE DEF m, a, y, r, whole
  <2>5. a[c] \in Int /\ y[c] \in Nat
    BY <2>1
  <2>6. /\ MirCoefficient(a[c], whole, d, r) \in Int
        /\ \E v \in Int, w \in Nat :
             MirSplit(a[c], y[c], MirCoefficient(a[c], whole, d, r), d, r, v, w)
    BY <1>9, <2>3, <2>4, <2>5, MirTerm, Zenon
  <2> QED BY <2>4, <2>6, Zenon
<1> DEFINE split == [c \in cols |->
                       CHOOSE t \in Int \X Nat : MirSplit(a[c], y[c], m[c], d, r, t[1], t[2])]
           q == [c \in cols |-> split[c][1]]
           s == [c \in cols |-> split[c][2]]
<1>15. \A c \in cols : q[c] \in Int /\ s[c] \in Nat /\ MirSplit(a[c], y[c], m[c], d, r, q[c], s[c])
  <2> SUFFICES ASSUME NEW c \in cols
               PROVE  q[c] \in Int /\ s[c] \in Nat /\ MirSplit(a[c], y[c], m[c], d, r, q[c], s[c])
    OBVIOUS
  <2>1. PICK v \in Int, w \in Nat : MirSplit(a[c], y[c], m[c], d, r, v, w)
    BY <1>14
  <2>2. \E t \in Int \X Nat : MirSplit(a[c], y[c], m[c], d, r, t[1], t[2])
    <3>1. <<v, w>> \in Int \X Nat /\ <<v, w>>[1] = v /\ <<v, w>>[2] = w
      OBVIOUS
    <3> QED BY <2>1, <3>1, Zenon
  <2>3. q[c] = split[c][1] /\ s[c] = split[c][2]
    OBVIOUS
  <2>4. split[c] = CHOOSE t \in Int \X Nat : MirSplit(a[c], y[c], m[c], d, r, t[1], t[2])
    OBVIOUS
  <2> HIDE DEF split, q, s, m, a, y, r
  <2>5. split[c] \in Int \X Nat /\ MirSplit(a[c], y[c], m[c], d, r, split[c][1], split[c][2])
    BY <2>2, <2>4, Zenon
  <2>6. split[c][1] \in Int /\ split[c][2] \in Nat
    BY <2>5
  <2> QED BY <2>3, <2>5, <2>6
<1> DEFINE my == [c \in cols |-> m[c] * y[c]]
           low == [c \in cols |-> one * q[c] - s[c]]
\* What is rounded, and what is given away.
<1>16. one * Total(q, cols) - Total(s, cols) <= b
  <2>1. \A c \in cols : /\ low[c] = one * q[c] + (-1) * s[c]
                        /\ low[c] <= ay[c] /\ low[c] \in Int /\ ay[c] \in Int
                        /\ q[c] \in Int /\ s[c] \in Int
    <3> SUFFICES ASSUME NEW c \in cols
                 PROVE  /\ low[c] = one * q[c] + (-1) * s[c]
                        /\ low[c] <= ay[c] /\ low[c] \in Int /\ ay[c] \in Int
                        /\ q[c] \in Int /\ s[c] \in Int
      OBVIOUS
    <3>1. q[c] \in Int /\ s[c] \in Nat /\ d * (Unit * q[c]) - s[c] <= a[c] * y[c]
      BY <1>15 DEF MirSplit
    <3>2. a[c] \in Int /\ y[c] \in Nat
      BY <1>7
    <3>3. low[c] = one * q[c] - s[c] /\ ay[c] = a[c] * y[c]
      OBVIOUS
    <3> HIDE DEF low, ay, q, s, a, y
    <3>4. d * (Unit * q[c]) = one * q[c]
      BY <1>6, <1>9, <3>1
    <3>5. one * q[c] \in Int
      BY <1>12, <3>1
    <3> QED BY <3>1, <3>2, <3>3, <3>4, <3>5
  <2>2. one \in Int /\ -1 \in Int
    BY <1>12
  <2> HIDE DEF low, ay, q, s, one, b, cols
  <2>3. Total(low, cols) = one * Total(q, cols) + (-1) * Total(s, cols)
    <3>1. \A c \in cols : q[c] \in Int /\ s[c] \in Int /\ low[c] = one * q[c] + (-1) * s[c]
      BY <2>1
    <3> QED BY ONLY <1>5, <2>2, <3>1, TotalLinear
  <2>4. Total(low, cols) <= Total(ay, cols)
    <3>1. \A c \in cols : low[c] \in Int /\ ay[c] \in Int /\ low[c] <= ay[c]
      BY <2>1
    <3> QED BY ONLY <1>5, <3>1, TotalLe
  <2>5. Total(ay, cols) \in Int /\ Total(q, cols) \in Int /\ Total(s, cols) \in Int
    <3>1. \A c \in cols : ay[c] \in Int /\ q[c] \in Int /\ s[c] \in Int
      BY <2>1
    <3> QED BY <1>5, <3>1, TotalInt
  <2>6. one * Total(q, cols) \in Int
    BY <2>2, <2>5
  <2> QED BY <1>11, <1>13, <2>3, <2>4, <2>5, <2>6
<1>17. Total(my, cols) = (one - r) * (Unit * Total(q, cols)) - Unit * Total(s, cols)
  <2>1. \A c \in cols : /\ q[c] \in Int /\ s[c] \in Int
                        /\ my[c] = ((one - r) * Unit) * q[c] + (-Unit) * s[c]
    <3> SUFFICES ASSUME NEW c \in cols
                 PROVE  /\ q[c] \in Int /\ s[c] \in Int
                        /\ my[c] = ((one - r) * Unit) * q[c] + (-Unit) * s[c]
      OBVIOUS
    <3>1. /\ q[c] \in Int /\ s[c] \in Nat
          /\ m[c] * y[c] = (d * Unit - r) * (Unit * q[c]) - Unit * s[c]
      BY <1>15 DEF MirSplit
    <3>2. my[c] = m[c] * y[c]
      OBVIOUS
    <3> HIDE DEF my, q, s, m, y, r
    <3>3. one - r \in Int /\ Unit \in Int /\ s[c] \in Int
      BY <1>6, <1>12, <3>1
    <3>4. ASSUME NEW u \in Int, NEW v \in Int, NEW w \in Int, NEW t \in Int
          PROVE  u * (v * w) - v * t = (u * v) * w + (-v) * t
      OBVIOUS
    <3>5. my[c] = (one - r) * (Unit * q[c]) - Unit * s[c]
      BY <3>1, <3>2
    <3> HIDE DEF one
    <3> QED BY ONLY <3>1, <3>3, <3>4, <3>5
  <2>2. (one - r) * Unit \in Int /\ -Unit \in Int
    BY <1>6, <1>12
  <2> HIDE DEF my, q, s, r, one, cols
  <2>3. Total(my, cols) = ((one - r) * Unit) * Total(q, cols) + (-Unit) * Total(s, cols)
    BY ONLY <1>5, <2>1, <2>2, TotalLinear
  <2>4. Total(q, cols) \in Int /\ Total(s, cols) \in Int
    <3>1. \A c \in cols : q[c] \in Int /\ s[c] \in Int
      BY <2>1
    <3> QED BY <1>5, <3>1, TotalInt
  <2> QED BY <1>6, <1>12, <2>3, <2>4
<1>18. Total(my, cols) <= (b \div one) * Unit * (one - r)
  <2>1. Total(q, cols) \in Int /\ Total(s, cols) \in Nat
    <3>1. \A c \in cols : q[c] \in Int /\ s[c] \in Int /\ 0 <= s[c]
      <4> HIDE DEF q, s, cols, m, a, y, r
      <4> QED BY <1>15
    <3> DEFINE none == [c \in cols |-> 0]
    <3>2. \A c \in cols : none[c] = 0
      OBVIOUS
    <3> HIDE DEF q, s, cols, none
    <3>3. Total(q, cols) \in Int /\ Total(s, cols) \in Int
      BY <1>5, <3>1, TotalInt
    <3>4. \A c \in cols : none[c] \in Int /\ s[c] \in Int /\ none[c] <= s[c]
      BY <3>1, <3>2
    <3>5. Total(none, cols) <= Total(s, cols)
      BY ONLY <1>5, <3>4, TotalLe
    <3>6. Total(none, cols) = 0
      BY <1>5, <3>2, TotalZero
    <3> QED BY <3>3, <3>5, <3>6
  <2> HIDE DEF q, s, my, b, cols
  <2>2. b % (d * Unit) # 0 /\ (d * Unit) * Total(q, cols) - Total(s, cols) <= b
    BY <1>2, <1>16
  <2>3. (d * Unit - (b % (d * Unit))) * (Unit * Total(q, cols)) - Unit * Total(s, cols)
           <= (b \div (d * Unit)) * Unit * (d * Unit - (b % (d * Unit)))
    BY ONLY <1>9, <1>11, <2>1, <2>2, MirRounds
  <2> QED BY <1>17, <2>3
<1> DEFINE f == coef(d)
           bk == back(d)
           sp == Products(f, p, C)
\* Back in x.
<1>19. \A c \in cols : /\ bk[c] \in Int /\ my[c] \in Int /\ sp[c] \in Int /\ f[c] \in Int
                       /\ sp[c] = my[c] + bk[c]
  <2> SUFFICES ASSUME NEW c \in cols
               PROVE  /\ bk[c] \in Int /\ my[c] \in Int /\ sp[c] \in Int /\ f[c] \in Int
                      /\ sp[c] = my[c] + bk[c]
    OBVIOUS
  <2>1. c \in C /\ C = DOMAIN base.coef
    BY <1>3, <1>5
  <2>2. f[c] = sign[c] * m[c] /\ bk[c] = sign[c] * m[c] * bound[c] /\ my[c] = m[c] * y[c]
    BY <2>1
  <2>3. sp[c] = f[c] * p[c]
    BY <2>1 DEF Products
  <2>4. m[c] \in Int /\ y[c] \in Nat /\ bound[c] \in Int /\ sign[c] \in {1, -1} /\ p[c] \in Int
        /\ y[c] = sign[c] * (p[c] - bound[c])
    BY <1>7, <1>14
  <2> HIDE DEF f, bk, my, sp, m, y, bound, sign
  <2>5. CASE sign[c] = 1
    BY <2>2, <2>3, <2>4, <2>5
  <2>6. CASE sign[c] = -1
    BY <2>2, <2>3, <2>4, <2>6
  <2> QED BY <2>4, <2>5, <2>6
<1>20. f \in [C -> Int] /\ \A c \in C \ cols : sp[c] = 0
  <2>1. DOMAIN base.coef = C
    BY <1>3
  <2>2. \A c \in C \ cols : f[c] = 0
    BY <2>1
  <2>3. f = [c \in C |-> f[c]]
    BY <2>1
  <2> HIDE DEF f, sp, my, bk, cols
  <2>4. \A c \in C : f[c] \in Int
    BY <1>19, <2>2
  <2> USE DEF sp
  <2> QED BY <1>4, <2>2, <2>3, <2>4 DEF Products
<1>21. rhs(d) \in Int /\ Total(sp, C) <= rhs(d)
  <2>1. DOMAIN bk = cols
    OBVIOUS
  <2>2. rhs(d) = (b \div one) * Unit * (one - r) + SumFunction(bk)
    OBVIOUS
  <2>3. (b \div one) * Unit * (one - r) \in Int
    <3> HIDE DEF b, one
    <3>1. b \div one \in Int
      BY <1>11, <1>12, DivMod
    <3> HIDE DEF r
    <3> QED BY <1>6, <1>12, <3>1
  <2> HIDE DEF bk, sp, my, cols, b, one, rhs
  <2>4. SumFunction(bk) = Total(bk, cols)
    BY <2>1, SumIsTotal
  <2>5. Total(bk, cols) \in Int /\ Total(my, cols) \in Int
    BY <1>5, <1>19, TotalInt
  <2>6. \A c \in C : sp[c] \in Int
    BY <1>19, <1>20
  <2>7. Total(sp, C) = Total(sp, cols)
    BY <1>5, <1>20, <2>6, TotalWithin
  <2>8. Total(sp, cols) = Total(my, cols) + Total(bk, cols)
    <3>1. \A c \in cols : /\ sp[c] \in Int /\ my[c] \in Int /\ bk[c] \in Int
                          /\ sp[c] = my[c] + bk[c]
      BY <1>19
    <3> QED BY ONLY <1>5, <3>1, TotalShift
  <2> QED BY <1>18, <2>2, <2>3, <2>4, <2>5, <2>7, <2>8
<1>22. cut = Cut(f, rhs(d), one - r) /\ one - r \in Nat \ {0}
  <2>1. cut = Cut(f, rhs(d), one - r)
    BY <1>2
  <2> HIDE DEF one, r, f, rhs
  <2> QED BY <1>12, <2>1
<1>23. \A c \in C : p[c] \in Int
  BY <1>4
<1> HIDE DEF f, rhs, one, r, sp
<1> QED BY <1>20, <1>21, <1>22, <1>23, CutHolds DEF sp

\* Rows that may be aggregated: what they say holds.
GoodBase(base, p, C) == Inequality(base.coef, base.rhs, p, C) /\ base.den \in Nat \ {0}

\* A nonnegative multiple of a base and a multiple of a row, with the side its sign permits.
LEMMA AggregatedHolds ==
  ASSUME NEW C, IsFiniteSet(C), NEW p, \A c \in C : p[c] \in Int,
         NEW rs, ValidRows(rs, p, C), NEW i \in DOMAIN rs,
         NEW base, GoodBase(base, p, C), NEW c \in C, base.coef[c] # 0, rs[i].coef[c] # 0,
         Aggregated(base, rs, i, c).ok
  PROVE  GoodBase(Aggregated(base, rs, i, c), p, C)
<1> DEFINE row == rs[i]
           s == IF row.coef[c] > 0 THEN 1 ELSE -1
           lambda == -s * base.coef[c]
           bound == IF lambda > 0 THEN row.ru ELSE row.rl
           k == s * row.coef[c]
           to == Aggregated(base, rs, i, c)
           f == [j \in DOMAIN base.coef |-> s * row.coef[c] * base.coef[j] + lambda * row.coef[j]]
<1>1. /\ row.coef \in [C -> Int] /\ row.rl \in Int /\ row.ru \in Int /\ row.den \in Nat \ {0}
      /\ Holds(row, p)
  BY DEF ValidRows, WorkRows
<1>2. /\ base.coef \in [C -> Int] /\ base.rhs \in Int /\ base.den \in Nat \ {0}
      /\ Total(Products(base.coef, p, C), C) <= base.rhs
  BY DEF GoodBase, Inequality
<1>3. /\ to.coef = f /\ to.rhs = k * base.rhs + lambda * bound
      /\ to.den = base.den * s * row.coef[c]
      /\ Finite(bound)
  BY DEF Aggregated
<1> HIDE DEF row, to
<1>4. row.coef[c] \in Int /\ row.coef[c] # 0 /\ base.coef[c] \in Int
  BY <1>1, <1>2 DEF row
<1>5. k \in Nat \ {0} /\ s \in Int
  BY <1>4
<1>6. lambda \in Int /\ lambda # 0
  BY <1>4
<1>7. bound \in Int
  BY <1>1
<1> DEFINE g == Products(base.coef, p, C)
           h == Products(row.coef, p, C)
           fp == Products(f, p, C)
<1>8. Activity(row, p) = Total(h, C) /\ Total(h, C) \in Int
  BY <1>1, ActivityIs
<1>9. \A j \in C : g[j] \in Int /\ h[j] \in Int /\ f[j] \in Int /\ fp[j] = k * g[j] + lambda * h[j]
  <2> SUFFICES ASSUME NEW j \in C
               PROVE  /\ g[j] \in Int /\ h[j] \in Int /\ f[j] \in Int
                      /\ fp[j] = k * g[j] + lambda * h[j]
    OBVIOUS
  <2>1. base.coef[j] \in Int /\ row.coef[j] \in Int /\ p[j] \in Int
    BY <1>1, <1>2
  <2>2. g[j] = base.coef[j] * p[j] /\ h[j] = row.coef[j] * p[j] /\ fp[j] = f[j] * p[j]
    BY DEF Products
  <2>3. f[j] = k * base.coef[j] + lambda * row.coef[j]
    BY <1>2
  <2> HIDE DEF f, g, h, fp, k, lambda
  <2>4. (k * base.coef[j] + lambda * row.coef[j]) * p[j]
          = k * (base.coef[j] * p[j]) + lambda * (row.coef[j] * p[j])
    BY <1>5, <1>6, <2>1
  <2>5. f[j] \in Int
    BY <1>5, <1>6, <2>1, <2>3
  <2> QED BY <2>1, <2>2, <2>3, <2>4, <2>5
<1>10. f \in [C -> Int]
  <2>1. DOMAIN base.coef = C
    BY <1>2
  <2>2. f = [j \in C |-> f[j]]
    BY <2>1
  <2> HIDE DEF f
  <2> QED BY <1>9, <2>2
<1>11. Total(fp, C) = k * Total(g, C) + lambda * Total(h, C)
  <2>1. \A j \in C : g[j] \in Int /\ h[j] \in Int /\ fp[j] = k * g[j] + lambda * h[j]
    BY <1>9
  <2>2. k \in Int /\ lambda \in Int
    BY <1>5, <1>6
  <2> HIDE DEF g, h, fp, k, lambda
  <2> QED BY <2>1, <2>2, TotalLinear
<1>12. Total(g, C) \in Int
  <2>1. \A j \in C : g[j] \in Int
    BY <1>9
  <2> HIDE DEF g
  <2> QED BY <2>1, TotalInt
<1>13. lambda * Total(h, C) <= lambda * bound
  <2>1. CASE lambda > 0
    <3>1. bound = row.ru
      BY <2>1
    <3>2. Total(h, C) <= bound
      BY <1>1, <1>3, <1>8, <3>1 DEF Holds
    <3> HIDE DEF lambda, bound, h
    <3> QED BY <1>6, <1>7, <1>8, <2>1, <3>2, ScaleLe
  <2>2. CASE ~(lambda > 0)
    <3>1. bound = row.rl
      BY <2>2
    <3>2. bound <= Total(h, C)
      BY <1>1, <1>3, <1>8, <3>1 DEF Holds
    <3> HIDE DEF lambda, bound, h
    <3> QED BY <1>6, <1>7, <1>8, <2>2, <3>2, ScaleLe
  <2> QED BY <2>1, <2>2
<1>14. k * Total(g, C) <= k * base.rhs
  <2> HIDE DEF k, g
  <2> QED BY <1>2, <1>5, <1>12, ScaleLe DEF g
<1>15. to.rhs \in Int /\ Total(fp, C) <= to.rhs
  <2> HIDE DEF k, lambda, bound, g, h, fp
  <2>1. k * Total(g, C) \in Int /\ lambda * Total(h, C) \in Int
        /\ k * base.rhs \in Int /\ lambda * bound \in Int
    BY <1>2, <1>5, <1>6, <1>7, <1>8, <1>12
  <2> QED BY <1>3, <1>11, <1>13, <1>14, <2>1
<1>16. to.den \in Nat \ {0}
  <2>1. to.den = base.den * k
    <3>1. base.den * s * row.coef[c] = base.den * (s * row.coef[c])
      <4> HIDE DEF s
      <4> QED BY <1>2, <1>4, <1>5
    <3> QED BY <1>3, <3>1
  <2> HIDE DEF k
  <2> QED BY <1>2, <1>5, <2>1
<1>17. to.coef \in [C -> Int] /\ Total(Products(to.coef, p, C), C) <= to.rhs
  <2> HIDE DEF f
  <2> QED BY <1>3, <1>10, <1>15
<1> QED BY <1>15, <1>16, <1>17 DEF GoodBase, Inequality, to

\* So says every aggregate, of whatever depth.
LEMMA AggregatesHold ==
  ASSUME NEW C, IsFiniteSet(C), NEW lo, NEW up, NEW ints, NEW p, PointIn(p, C, lo, up, ints),
         NEW rs, ValidRows(rs, p, C), NEW x
  PROVE  \A b \in Aggregates(rs, x, lo, up, ints) : GoodBase(b, p, C)
<1> DEFINE M == MaxAggregation
           start == {[coef |-> s.coef, rhs |-> s.rhs, den |-> s.den, used |-> {s.row},
                      ok |-> TRUE] :
                       s \in {t \in Sides(rs) : \E c \in Support(t) \cap ints : ~Whole(x[c])}}
           extended(b) == {Aggregated(b, rs, w[1], w[2]) :
                             w \in {q \in (DOMAIN rs \ b.used) \X Inside(b, x, lo, up, ints) :
                                      rs[q[1]].coef[q[2]] # 0}}
           more(A) == A \cup {b \in UNION {extended(a) : a \in A} : b.ok}
           Eq(u, N) == u = [n \in 0 .. N |-> IF n = 0 THEN start ELSE more(u[n - 1])]
           upTo == CHOOSE u : Eq(u, M)
<1>1. Aggregates(rs, x, lo, up, ints) = upTo[M]
  BY Zenon DEF Aggregates
<1>2. M \in Nat
  BY CutsAssumption
<1>3. \A c \in C : p[c] \in Int
  BY DEF PointIn
<1>4. \A b \in start : GoodBase(b, p, C)
  <2> SUFFICES ASSUME NEW b \in start PROVE GoodBase(b, p, C)
    OBVIOUS
  <2>1. PICK s \in Sides(rs) :
          b = [coef |-> s.coef, rhs |-> s.rhs, den |-> s.den, used |-> {s.row}, ok |-> TRUE]
    OBVIOUS
  <2>2. Inequality(s.coef, s.rhs, p, C) /\ s.den \in Nat \ {0}
    BY <1>3, SideHolds
  <2>3. b.coef = s.coef /\ b.rhs = s.rhs /\ b.den = s.den
    BY <2>1
  <2> QED BY <2>2, <2>3 DEF GoodBase
<1>5. ASSUME NEW A, \A b \in A : GoodBase(b, p, C) PROVE \A b \in more(A) : GoodBase(b, p, C)
  <2> SUFFICES ASSUME NEW a \in A, NEW b \in extended(a), b.ok PROVE GoodBase(b, p, C)
    BY <1>5
  <2>1. PICK w \in (DOMAIN rs \ a.used) \X Inside(a, x, lo, up, ints) :
          b = Aggregated(a, rs, w[1], w[2]) /\ rs[w[1]].coef[w[2]] # 0
    OBVIOUS
  <2>2. GoodBase(a, p, C)
    BY <1>5
  <2>3. w[1] \in DOMAIN rs /\ w[2] \in Support(a)
    BY <2>1 DEF Inside
  <2>4. w[2] \in C /\ a.coef[w[2]] # 0
    BY <2>2, <2>3 DEF GoodBase, Inequality, Support
  <2> HIDE DEF extended
  <2> QED BY <1>3, <2>1, <2>2, <2>3, <2>4, AggregatedHolds
<1> HIDE DEF start, more
\* The recursion has a solution.
<1>6. \E u : Eq(u, M)
  <2> DEFINE P == {n \in 0 .. M : \E u : Eq(u, n)}
  <2>1. 0 \in P
    <3> DEFINE u == [n \in 0 .. 0 |-> start]
    <3>1. Eq(u, 0)
      OBVIOUS
    <3>2. 0 \in 0 .. M
      BY <1>2
    <3> HIDE DEF Eq, u
    <3> QED BY <3>1, <3>2
  <2>2. ASSUME NEW n \in 0 .. M - 1, n \in P PROVE n + 1 \in P
    <3>1. PICK u : Eq(u, n)
      BY <2>2
    <3> DEFINE v == [j \in 0 .. n + 1 |-> IF j <= n THEN u[j] ELSE more(u[n])]
    <3>2. ASSUME NEW j \in 0 .. n + 1
          PROVE  v[j] = IF j = 0 THEN start ELSE more(v[j - 1])
      <4>1. CASE j = 0
        BY <3>1, <4>1
      <4>2. CASE j # 0 /\ j <= n
        <5>1. u[j] = more(u[j - 1]) /\ j - 1 \in 0 .. n
          BY <3>1, <4>2
        <5>2. v[j] = u[j] /\ v[j - 1] = u[j - 1]
          BY <4>2, <5>1
        <5> HIDE DEF v
        <5> QED BY <4>2, <5>1, <5>2
      <4>3. CASE ~(j <= n)
        <5>1. j - 1 = n /\ j - 1 \in 0 .. n + 1 /\ j # 0
          BY <4>3
        <5>2. v[j] = more(u[n]) /\ v[j - 1] = u[n]
          BY <4>3, <5>1
        <5> HIDE DEF v
        <5> QED BY <5>1, <5>2
      <4> QED BY <4>1, <4>2, <4>3
    <3>3. v = [j \in 0 .. n + 1 |-> v[j]]
      OBVIOUS
    <3> HIDE DEF v
    <3>4. Eq(v, n + 1)
      BY <3>2, <3>3
    <3>5. n + 1 \in 0 .. M
      BY <1>2
    <3> HIDE DEF Eq
    <3> QED BY <3>4, <3>5
  <2> HIDE DEF P, Eq
  <2>3. M \in P
    BY <1>2, <2>1, <2>2, Climb
  <2> QED BY <2>3 DEF P
<1>7. Eq(upTo, M)
  <2> HIDE DEF Eq
  <2> QED BY <1>6, Zenon
<1> HIDE DEF upTo
<1> DEFINE Q == {n \in 0 .. M : \A b \in upTo[n] : GoodBase(b, p, C)}
<1>8. 0 \in Q
  BY <1>2, <1>4, <1>7
<1>9. ASSUME NEW n \in 0 .. M - 1, n \in Q PROVE n + 1 \in Q
  <2>1. n + 1 \in 0 .. M /\ n + 1 # 0 /\ (n + 1) - 1 = n
    BY <1>2
  <2>2. upTo[n + 1] = more(upTo[n])
    BY <1>7, <2>1
  <2>3. \A b \in upTo[n] : GoodBase(b, p, C)
    BY <1>9
  <2>4. \A b \in more(upTo[n]) : GoodBase(b, p, C)
    BY <1>5, <2>3
  <2> QED BY <2>1, <2>2, <2>4
<1> HIDE DEF Q
<1>10. M \in Q
  BY <1>2, <1>8, <1>9, Climb
<1> QED BY <1>1, <1>10 DEF Q

\* Every mixed-integer rounding cut, of any aggregate, holds where the rows do.
LEMMA MirCutsHold ==
  ASSUME NEW C, IsFiniteSet(C), NEW lo, NEW up, NEW ints, NEW p, PointIn(p, C, lo, up, ints),
         NEW rs, ValidRows(rs, p, C), NEW x, NEW cut \in MirCuts(rs, x, lo, up, ints)
  PROVE  cut \in WorkRows(C) /\ Holds(cut, p)
<1>1. PICK b \in Aggregates(rs, x, lo, up, ints) : cut \in MirFrom(b, x, lo, up, ints)
  BY DEF MirCuts
<1>2. GoodBase(b, p, C)
  BY <1>1, AggregatesHold
<1>3. Inequality(b.coef, b.rhs, p, C) /\ b.den \in Nat \ {0}
  BY <1>2 DEF GoodBase
<1> QED BY <1>1, <1>3, MirHolds

-----------------------------------------------------------------------------
\* {0,1/2} cuts

\* The values of a function on a finite set.
LEMMA ImageFinite ==
  ASSUME NEW S, IsFiniteSet(S), NEW f
  PROVE  IsFiniteSet({f[x] : x \in S})
<1> DEFINE T == {f[x] : x \in S}
           g == [x \in S |-> f[x]]
<1>1. g \in Surjection(S, T)
  <2>1. g \in [S -> T]
    OBVIOUS
  <2>2. \A v \in T : \E x \in S : g[x] = v
    OBVIOUS
  <2> HIDE DEF g, T
  <2> QED BY <2>1, <2>2 DEF Surjection
<1> HIDE DEF g, T
<1>2. IsFiniteSet(T)
  BY <1>1, FS_Surjection
<1> QED BY <1>2 DEF T

\* There are finitely many sides.
LEMMA SidesFinite ==
  ASSUME NEW rs, IsFiniteSet(DOMAIN rs)
  PROVE  IsFiniteSet(Sides(rs))
<1> DEFINE W == (DOMAIN rs) \X {1, -1}
           f == [w \in W |-> Side(rs[w[1]], w[1], w[2])]
           T == {f[w] : w \in W}
<1>1. IsFiniteSet({1, -1})
  <2>1. IsFiniteSet(-1 .. 1)
    BY FS_Interval, -1 \in Int, 1 \in Int
  <2>2. {1, -1} \in SUBSET (-1 .. 1)
    OBVIOUS
  <2> QED BY <2>1, <2>2, FS_Subset
<1>2. IsFiniteSet(W)
  BY <1>1, FS_Product
<1>3. IsFiniteSet(T)
  <2> HIDE DEF W, f
  <2> QED BY <1>2, ImageFinite
<1>4. ASSUME NEW side \in Sides(rs) PROVE side \in T
  <2>1. PICK i \in DOMAIN rs, s \in {1, -1} : side = Side(rs[i], i, s)
    BY DEF Sides
  <2>2. <<i, s>> \in W
    OBVIOUS
  <2>3. f[<<i, s>>] = side
    BY <2>1, <2>2
  <2> HIDE DEF W, f
  <2> QED BY <2>2, <2>3
<1> HIDE DEF T
<1> QED BY <1>3, <1>4, FS_Subset, Sides(rs) \in SUBSET T

\* The product of the denominators, and that each divides it.
LEMMA CommonDenominator ==
  ASSUME NEW S, IsFiniteSet(S), \A s \in S : s.den \in Nat \ {0}
  PROVE  LET den == FoldSet(LAMBDA s, acc : s.den * acc, 1, S)
         IN  den \in Nat \ {0} /\ \A s \in S : den % s.den = 0
<1> DEFINE V == Nat \ {0}
           f == [s \in S |-> s.den]
           o == [w \in V \X V |-> w[1] * w[2]]
           Eq(g) == g = [T \in SUBSET S |->
                          IF T = {} THEN 1
                          ELSE (CHOOSE s \in T : TRUE).den * g[T \ {CHOOSE s \in T : TRUE}]]
           iter == CHOOSE g : Eq(g)
           den == FoldSet(LAMBDA s, acc : s.den * acc, 1, S)
<1>1. \A u \in V, v \in V : o[<<u, v>>] = u * v /\ o[<<u, v>>] \in V
  OBVIOUS
<1>2. \A s \in S : f[s] = s.den /\ f[s] \in V
  OBVIOUS
<1> HIDE DEF o, f
<1>3. \A s \in S, v \in V : o[<<f[s], v>>] \in V
  BY <1>1, <1>2
<1>4. PICK g \in [SUBSET S -> V] : Combines(g, o, 1, f, S)
  BY <1>3, CombinesExist, 1 \in V
<1>5. Eq(g)
  <2>1. ASSUME NEW T \in SUBSET S, T # {}
        PROVE  o[<<f[First(T)], g[T \ {First(T)}]>>] = First(T).den * g[T \ {First(T)}]
    <3>1. First(T) \in S /\ T \ {First(T)} \in SUBSET S
      BY <2>1 DEF First
    <3>2. f[First(T)] = First(T).den /\ f[First(T)] \in V /\ g[T \ {First(T)}] \in V
      BY <1>2, <3>1
    <3> QED BY <1>1, <3>2
  <2>2. \A T \in SUBSET S :
          g[T] = IF T = {} THEN 1 ELSE First(T).den * g[T \ {First(T)}]
    BY <1>4, <2>1 DEF Combines
  <2>3. g = [T \in SUBSET S |-> g[T]]
    OBVIOUS
  <2> QED BY <2>2, <2>3 DEF First
<1>6. Eq(iter)
  BY <1>5, Zenon
<1>7. den = iter[S]
  BY Zenon DEF FoldSet, MapThenFoldSet
<1>8. \A T \in SUBSET S : iter[T] = IF T = {} THEN 1 ELSE First(T).den * iter[T \ {First(T)}]
  BY <1>6 DEF First
<1> HIDE DEF iter, Eq, den
<1> DEFINE P == {T \in SUBSET S : iter[T] \in V /\ \A s \in T : iter[T] % s.den = 0}
<1>9. ASSUME NEW T \in SUBSET S, \A U \in SUBSET T : U # T => U \in P PROVE T \in P
  <2>1. CASE T = {}
    BY <1>8, <2>1
  <2>2. CASE T # {}
    <3> DEFINE y == First(T)
               k == y.den
               v == iter[T \ {y}]
    <3>1. y \in T /\ k \in V
      BY <2>2 DEF First
    <3>2. T \ {y} \in P
      BY <1>9, <3>1
    <3>3. v \in V /\ iter[T] = k * v
      BY <1>8, <2>2, <3>2
    <3>4. ASSUME NEW s \in T PROVE iter[T] % s.den = 0
      <4>1. s.den \in V /\ v \in Int /\ k \in Int
        BY <3>1, <3>3
      <4>2. CASE s = y
        <5> HIDE DEF v
        <5>1. (k * v) % k = 0
          BY ONLY <3>1, <4>1, ModOfMultiple
        <5> QED BY <3>3, <4>2, <5>1
      <4>3. CASE s # y
        <5>1. v % s.den = 0
          BY <3>2, <4>3
        <5> DEFINE q == v \div s.den
        <5> HIDE DEF v
        <5>2. v = s.den * q /\ q \in Int
          BY <4>1, <5>1, Multiples
        <5> HIDE DEF q, k
        <5>3. k * v = s.den * (k * q) /\ k * q \in Int
          BY <4>1, <5>2
        <5>4. (s.den * (k * q)) % s.den = 0
          BY ONLY <4>1, <5>3, ModOfMultiple
        <5> QED BY <3>3, <5>3, <5>4
      <4> QED BY <4>2, <4>3
    <3>5. iter[T] \in V
      <4> HIDE DEF k, v
      <4> QED BY <3>1, <3>3
    <3> QED BY <3>4, <3>5
  <2> QED BY <2>1, <2>2
<1>10. S \in SUBSET S
  OBVIOUS
<1> HIDE DEF P
<1>11. S \in P
  BY <1>9, <1>10, SetClimb
<1>12. den \in Nat \ {0} /\ \A s \in S : den % s.den = 0
  BY <1>7, <1>11 DEF P
<1> QED BY <1>12 DEF den

\* A sum of the sides S over what the columns are above their anchors, and its half.
Halves(C, S, t, W, den, bound, sum, half, rhs) ==
  /\ \A c \in C : t[c] \in Nat
  /\ \A s \in S, c \in C : W[s][c] \in Int
  /\ den \in Nat \ {0}
  /\ \A s \in S : /\ s.den \in Nat \ {0} /\ den % s.den = 0 /\ bound[s] \in Int
                  /\ s.den * (Unit * Total(Products(W[s], t, C), C)) <= bound[s]
  /\ \A c \in C : sum[c] = Total([s \in S |-> W[s][c]], S)
  /\ \A c \in C : half[c] = sum[c] \div 2
  /\ rhs = Total([s \in S |-> bound[s] * (den \div s.den)], S)

\* The halves, rounded down, are worth at most half of the sum, rounded down.
LEMMA HalvedHolds ==
  ASSUME NEW C, IsFiniteSet(C), NEW S, IsFiniteSet(S), NEW t, NEW W, NEW den, NEW bound,
         NEW sum, NEW half, NEW rhs, Halves(C, S, t, W, den, bound, sum, half, rhs)
  PROVE  /\ rhs \in Int /\ \A c \in C : half[c] \in Int /\ sum[c] \in Int
         /\ Total(Products(half, t, C), C) <= rhs \div (2 * Unit * den)
<1> USE DEF Halves
<1>0. Unit \in Nat \ {0}
  BY LinearAssumption
<1> DEFINE M == [s \in S |-> Products(W[s], t, C)]
           N == [c \in C |-> [s \in S |-> W[s][c] * t[c]]]
           F == [s \in S |-> Total(M[s], C)]
           G == [c \in C |-> Total(N[c], S)]
           column == [c \in C |-> [s \in S |-> W[s][c]]]
           hp == Products(half, t, C)
           b == [s \in S |-> bound[s] * (den \div s.den)]
<1>1. \A c \in C : sum[c] = Total(column[c], S) /\ \A s \in S : column[c][s] = W[s][c]
  OBVIOUS
<1>2. \A s \in S, c \in C : /\ M[s][c] = W[s][c] * t[c] /\ M[s][c] \in Int
                            /\ N[c][s] = t[c] * column[c][s] /\ N[c][s] = M[s][c]
                            /\ column[c][s] \in Int /\ t[c] \in Int
  BY DEF Products
<1>3. \A s \in S : F[s] = Total(M[s], C) /\ F[s] = Total(Products(W[s], t, C), C)
  OBVIOUS
<1>4. \A c \in C : G[c] = Total(N[c], S)
  OBVIOUS
<1>5. \A s \in S : b[s] = bound[s] * (den \div s.den)
  OBVIOUS
<1>6. rhs = Total(b, S)
  OBVIOUS
<1>7. \A c \in C : hp[c] = half[c] * t[c]
  BY DEF Products
<1> HIDE DEF M, N, F, G, column, hp, b
<1>8. \A c \in C : sum[c] \in Int
  <2> SUFFICES ASSUME NEW c \in C PROVE sum[c] \in Int
    OBVIOUS
  <2>1. \A s \in S : column[c][s] \in Int
    BY <1>2
  <2> QED BY <1>1, <2>1, TotalInt
<1>9. \A c \in C : G[c] = t[c] * sum[c] /\ G[c] \in Int
  <2> SUFFICES ASSUME NEW c \in C PROVE G[c] = t[c] * sum[c] /\ G[c] \in Int
    OBVIOUS
  <2>1. \A s \in S : column[c][s] \in Int /\ N[c][s] = t[c] * column[c][s]
    BY <1>2
  <2>2. t[c] \in Int /\ sum[c] \in Int
    BY <1>8
  <2>3. Total(N[c], S) = t[c] * Total(column[c], S)
    BY ONLY <2>1, <2>2, TotalScale, IsFiniteSet(S)
  <2> QED BY <1>1, <1>4, <2>2, <2>3
<1>10. \A s \in S : F[s] \in Int
  <2> SUFFICES ASSUME NEW s \in S PROVE F[s] \in Int
    OBVIOUS
  <2>1. \A c \in C : M[s][c] \in Int
    BY <1>2
  <2> QED BY <1>3, <2>1, TotalInt
<1>11. Total(F, S) = Total(G, C)
  <2>1. Transposed(M, N, S, C)
    BY <1>2 DEF Transposed
  <2>2. RowSums(F, M, S, C) /\ RowSums(G, N, C, S)
    BY <1>3, <1>4 DEF RowSums
  <2> QED BY <2>1, <2>2, TotalSwap
\* The sides, over their common denominator.
<1>12. \A s \in S : /\ b[s] \in Int /\ F[s] \in Int
                    /\ (den * Unit) * F[s] \in Int /\ (den * Unit) * F[s] <= b[s]
  <2> SUFFICES ASSUME NEW s \in S
               PROVE  /\ b[s] \in Int /\ (den * Unit) * F[s] \in Int
                      /\ (den * Unit) * F[s] <= b[s]
    BY <1>10
  <2> DEFINE e == den \div s.den
             u == s.den * (Unit * F[s])
  <2>0. s.den \in Nat \ {0} /\ den \in Int /\ den % s.den = 0
    OBVIOUS
  <2>1. den = s.den * e /\ e \in Int
    BY ONLY <2>0, Multiples
  <2>2. b[s] = bound[s] * e /\ bound[s] \in Int /\ s.den \in Nat \ {0} /\ F[s] \in Int
    BY <1>5, <1>10
  <2>3. u <= bound[s]
    BY <1>3
  <2> HIDE DEF e
  <2>4. e >= 0
    <3>1. CASE e <= -1
      <4>1. s.den * e <= s.den * (-1)
        BY <2>1, <2>2, <3>1, ScaleLe
      <4> QED BY <2>1, <2>2, <4>1
    <3> QED BY <2>1, <3>1
  <2>5. u \in Int /\ e * u = (den * Unit) * F[s]
    BY <1>0, <2>1, <2>2
  <2>6. bound[s] * e = e * bound[s]
    BY <2>1, <2>2
  <2> HIDE DEF u
  <2>7. e * u <= e * bound[s]
    BY <2>1, <2>2, <2>3, <2>4, <2>5, ScaleLe
  <2>8. b[s] \in Int
    BY <2>1, <2>2
  <2>9. (den * Unit) * F[s] \in Int
    BY <1>0, <2>2
  <2> QED BY <2>2, <2>5, <2>6, <2>7, <2>8, <2>9
<1>13. (den * Unit) * Total(F, S) <= rhs /\ rhs \in Int
  <2> DEFINE h == [s \in S |-> (den * Unit) * F[s]]
  <2>1. \A s \in S : F[s] \in Int /\ h[s] = (den * Unit) * F[s]
    BY <1>12
  <2>2. \A s \in S : h[s] \in Int /\ b[s] \in Int /\ h[s] <= b[s]
    BY <1>12
  <2>3. den * Unit \in Int
    BY <1>0
  <2> HIDE DEF h
  <2>4. Total(h, S) = (den * Unit) * Total(F, S)
    BY ONLY <2>1, <2>3, TotalScale, IsFiniteSet(S)
  <2>5. Total(h, S) <= Total(b, S)
    BY ONLY <2>2, TotalLe, IsFiniteSet(S)
  <2>6. Total(b, S) \in Int
    BY ONLY <2>2, TotalInt, IsFiniteSet(S)
  <2> QED BY <1>6, <2>4, <2>5, <2>6
\* Half of it, rounded down column by column.
<1>14. \A c \in C : /\ half[c] \in Int /\ hp[c] \in Int
                    /\ 2 * hp[c] \in Int /\ G[c] \in Int /\ 2 * hp[c] <= G[c]
  <2> SUFFICES ASSUME NEW c \in C
               PROVE  /\ half[c] \in Int /\ hp[c] \in Int
                      /\ 2 * hp[c] \in Int /\ 2 * hp[c] <= G[c]
    BY <1>9
  <2>1. sum[c] \in Int /\ t[c] \in Nat /\ G[c] = t[c] * sum[c] /\ hp[c] = half[c] * t[c]
    BY <1>7, <1>8, <1>9
  <2>2. half[c] \in Int /\ 2 * half[c] <= sum[c]
    BY <2>1
  <2>3. t[c] * (2 * half[c]) <= t[c] * sum[c]
    BY <2>1, <2>2, ScaleLe
  <2>4. t[c] * (2 * half[c]) = 2 * (half[c] * t[c])
    BY <2>1, <2>2
  <2>5. half[c] * t[c] \in Int
    BY <2>1, <2>2
  <2> QED BY <2>1, <2>2, <2>3, <2>4, <2>5
<1>15. 2 * Total(hp, C) <= Total(G, C) /\ Total(hp, C) \in Int /\ Total(G, C) \in Int
  <2> DEFINE h == [c \in C |-> 2 * hp[c]]
  <2>1. \A c \in C : hp[c] \in Int /\ h[c] = 2 * hp[c]
    BY <1>14
  <2>2. \A c \in C : h[c] \in Int /\ G[c] \in Int /\ h[c] <= G[c]
    BY <1>14
  <2> HIDE DEF h
  <2>3. Total(h, C) = 2 * Total(hp, C)
    BY ONLY <2>1, TotalScale, IsFiniteSet(C), 2 \in Int
  <2>4. Total(h, C) <= Total(G, C)
    BY ONLY <2>2, TotalLe, IsFiniteSet(C)
  <2>5. Total(hp, C) \in Int /\ Total(G, C) \in Int
    BY <2>1, <2>2, TotalInt
  <2> QED BY <2>3, <2>4, <2>5
<1>16. (2 * Unit * den) * Total(hp, C) <= rhs
  <2>1. (den * Unit) * (2 * Total(hp, C)) <= (den * Unit) * Total(G, C)
    <3>1. den * Unit \in Int /\ den * Unit >= 0 /\ 2 * Total(hp, C) \in Int
      BY <1>0, <1>15
    <3> QED BY ONLY <1>15, <3>1, ScaleLe
  <2>2. (den * Unit) * (2 * Total(hp, C)) = (2 * Unit * den) * Total(hp, C)
    BY <1>0, <1>15
  <2>3. (2 * Unit * den) * Total(hp, C) \in Int /\ (den * Unit) * Total(G, C) \in Int
    BY <1>0, <1>15
  <2> QED BY <1>11, <1>13, <2>1, <2>2, <2>3
<1>17. 2 * Unit * den \in Nat \ {0}
  BY <1>0
<1>18. Total(hp, C) <= rhs \div (2 * Unit * den)
  BY ONLY <1>13, <1>15, <1>16, <1>17, FloorBound
<1> QED BY <1>8, <1>13, <1>14, <1>18 DEF hp

\* How far a whole column is above its anchor, or below it.
LEMMA AnchorIs ==
  ASSUME NEW v \in Int, NEW l \in Int, NEW u \in Int, l <= v, v <= u, v % Unit = 0,
         Finite(l) \/ Finite(u)
  PROVE  /\ Anchor(l, u) \in Int
         /\ \E t \in Nat : v = Anchor(l, u) + Unit * (IF Finite(l) THEN t ELSE -t)
<1>0. Unit \in Nat \ {0}
  BY LinearAssumption
<1> DEFINE a == Anchor(l, u)
<1>1. a \in Int /\ a % Unit = 0 /\ (IF Finite(l) THEN a <= v ELSE v <= a)
  <2>1. CASE Finite(l)
    <3>1. a = RoundUp(l)
      BY <2>1 DEF Anchor
    <3> HIDE DEF a
    <3> QED BY <2>1, <3>1, RoundIs
  <2>2. CASE ~Finite(l)
    <3>1. a = RoundDown(u) /\ Finite(u)
      BY <2>2 DEF Anchor
    <3> HIDE DEF a
    <3> QED BY <2>2, <3>1, RoundIs
  <2> QED BY <2>1, <2>2
<1> HIDE DEF a
<1> DEFINE i == v \div Unit
           j == a \div Unit
<1>2. v = Unit * i /\ i \in Int /\ a = Unit * j /\ j \in Int
  BY <1>0, <1>1, Multiples
<1> HIDE DEF i, j
<1>3. CASE Finite(l)
  <2>1. i - j >= 0
    <3>1. CASE i <= j - 1
      <4>1. Unit * i <= Unit * (j - 1)
        BY <1>0, <1>2, <3>1, ScaleLe
      <4>2. Unit * (j - 1) = Unit * j - Unit
        BY <1>0, <1>2
      <4> QED BY <1>0, <1>1, <1>2, <1>3, <4>1, <4>2
    <3> QED BY <1>2, <3>1
  <2>2. i - j \in Nat /\ v = a + Unit * (i - j)
    BY <1>0, <1>2, <2>1
  <2> QED BY <1>1, <1>3, <2>2 DEF a
<1>4. CASE ~Finite(l)
  <2>1. j - i >= 0
    <3>1. CASE j <= i - 1
      <4>1. Unit * j <= Unit * (i - 1)
        BY <1>0, <1>2, <3>1, ScaleLe
      <4>2. Unit * (i - 1) = Unit * i - Unit
        BY <1>0, <1>2
      <4> QED BY <1>0, <1>1, <1>2, <1>4, <4>1, <4>2
    <3> QED BY <1>2, <3>1
  <2>2. j - i \in Nat /\ v = a + Unit * (-(j - i))
    BY <1>0, <1>2, <2>1
  <2> QED BY <1>1, <1>4, <2>2 DEF a
<1> QED BY <1>3, <1>4

\* A half of a sum of sides in whole columns, rounded down, holds wherever the sides do.
LEMMA ZeroHalfHolds ==
  ASSUME NEW C, IsFiniteSet(C), NEW rs, IsFiniteSet(DOMAIN rs), NEW lo, NEW up, NEW ints,
         NEW p, PointIn(p, C, lo, up, ints), ValidRows(rs, p, C),
         NEW x, DOMAIN x = C, NEW cut \in ZeroHalfCuts(rs, x, lo, up, ints)
  PROVE  cut \in WorkRows(C) /\ Holds(cut, p)
<1> DEFINE usable(c) == c \in ints /\ (Finite(lo[c]) \/ Finite(up[c]))
           eligible == {s \in Sides(rs) : Support(s) # {} /\
                          \A c \in Support(s) : usable(c) /\ s.coef[c] % s.den = 0}
           down == {c \in DOMAIN x : ~Finite(lo[c])}
           anchor == [c \in {k \in DOMAIN x : usable(k)} |-> Anchor(lo[c], up[c])]
           whole(s) == [c \in DOMAIN x |-> s.coef[c] \div s.den]
           fixed(s) == [c \in Support(s) |-> s.coef[c] * anchor[c]]
           shifted(s) == s.rhs - SumFunction(fixed(s))
           sum(S) == [c \in DOMAIN x |-> SumFunction(
                         [s \in S |-> IF c \in down THEN -whole(s)[c] ELSE whole(s)[c]])]
           half(S) == [c \in DOMAIN x |-> sum(S)[c] \div 2]
           inX(S) == [c \in DOMAIN x |-> IF c \in down THEN -half(S)[c] ELSE half(S)[c]]
           den(S) == FoldSet(LAMBDA s, acc : s.den * acc, 1, S)
           rhs(S) == SumFunction([s \in S |-> shifted(s) * (den(S) \div s.den)])
           kept(S) == {c \in DOMAIN x : inX(S)[c] # 0}
           to(S) == (rhs(S) \div (2 * Unit * den(S))) * Unit
                      + SumFunction([c \in kept(S) |-> inX(S)[c] * anchor[c]])
<1>1. PICK S \in SUBSET eligible : cut = Cut(inX(S), to(S), 1)
  BY Zenon DEF ZeroHalfCuts
<1>2. \A c \in C : /\ p[c] \in Int /\ lo[c] \in Int /\ up[c] \in Int
                   /\ lo[c] <= p[c] /\ p[c] <= up[c] /\ (c \in ints => p[c] % Unit = 0)
  BY DEF PointIn
<1>3. Unit \in Nat \ {0}
  BY LinearAssumption
<1>4. \A s \in S : /\ s \in Sides(rs) /\ Inequality(s.coef, s.rhs, p, C) /\ s.den \in Nat \ {0}
                   /\ Support(s) \subseteq C
                   /\ \A c \in Support(s) : usable(c) /\ s.coef[c] % s.den = 0
  <2> SUFFICES ASSUME NEW s \in S
               PROVE  /\ s \in Sides(rs) /\ Inequality(s.coef, s.rhs, p, C) /\ s.den \in Nat \ {0}
                      /\ Support(s) \subseteq C
    OBVIOUS
  <2>1. s \in Sides(rs)
    OBVIOUS
  <2> QED BY <1>2, <2>1, SideHolds
<1>5. IsFiniteSet(S)
  BY SidesFinite, FS_Subset, S \in SUBSET Sides(rs)
<1> DEFINE t == [c \in C |-> IF usable(c)
                             THEN CHOOSE v \in Nat :
                                    p[c] = anchor[c] + Unit * (IF c \in down THEN -v ELSE v)
                             ELSE 0]
<1>6. \A c \in C : usable(c) =>
        /\ anchor[c] \in Int /\ t[c] \in Nat
        /\ p[c] = anchor[c] + Unit * (IF c \in down THEN -t[c] ELSE t[c])
  <2> SUFFICES ASSUME NEW c \in C, usable(c)
               PROVE  /\ anchor[c] \in Int /\ t[c] \in Nat
                      /\ p[c] = anchor[c] + Unit * (IF c \in down THEN -t[c] ELSE t[c])
    OBVIOUS
  <2>1. anchor[c] = Anchor(lo[c], up[c])
    OBVIOUS
  <2>2. /\ Anchor(lo[c], up[c]) \in Int
        /\ \E v \in Nat : p[c] = Anchor(lo[c], up[c]) + Unit * (IF Finite(lo[c]) THEN v ELSE -v)
    BY <1>2, AnchorIs
  <2>3. \E v \in Nat : p[c] = anchor[c] + Unit * (IF c \in down THEN -v ELSE v)
    BY <2>1, <2>2
  <2>4. t[c] = CHOOSE v \in Nat : p[c] = anchor[c] + Unit * (IF c \in down THEN -v ELSE v)
    OBVIOUS
  <2> HIDE DEF t, anchor, down
  <2> QED BY <2>1, <2>2, <2>3, <2>4
<1>7. \A c \in C : t[c] \in Nat
  <2>1. \A c \in C : ~usable(c) => t[c] = 0
    OBVIOUS
  <2> HIDE DEF t, anchor, down, usable
  <2> QED BY <1>6, <2>1
<1> HIDE DEF t, anchor
<1> DEFINE W == [s \in S |-> [c \in C |-> IF c \in down THEN -whole(s)[c] ELSE whole(s)[c]]]
           bound == [s \in S |-> shifted(s)]
<1>8. \A s \in S, c \in C :
        /\ s.coef[c] = s.den * whole(s)[c] /\ whole(s)[c] \in Int /\ s.coef[c] \in Int
        /\ (c \notin Support(s) => whole(s)[c] = 0 /\ s.coef[c] = 0)
        /\ W[s][c] = (IF c \in down THEN -whole(s)[c] ELSE whole(s)[c]) /\ W[s][c] \in Int
  <2> SUFFICES ASSUME NEW s \in S, NEW c \in C
               PROVE  /\ s.coef[c] = s.den * whole(s)[c] /\ whole(s)[c] \in Int /\ s.coef[c] \in Int
                      /\ (c \notin Support(s) => whole(s)[c] = 0 /\ s.coef[c] = 0)
                      /\ W[s][c] = (IF c \in down THEN -whole(s)[c] ELSE whole(s)[c])
                      /\ W[s][c] \in Int
    OBVIOUS
  <2>1. s.coef \in [C -> Int] /\ s.den \in Nat \ {0} /\ s.coef[c] \in Int
    BY <1>4 DEF Inequality
  <2>2. whole(s)[c] = s.coef[c] \div s.den
    OBVIOUS
  <2>3. W[s][c] = (IF c \in down THEN -whole(s)[c] ELSE whole(s)[c])
    OBVIOUS
  <2>4. c \notin Support(s) => s.coef[c] = 0
    BY <2>1 DEF Support
  <2>5. s.coef[c] % s.den = 0
    BY <1>4, <2>1, <2>4
  <2> HIDE DEF whole, W, down
  <2>6. s.coef[c] = s.den * whole(s)[c] /\ whole(s)[c] \in Int
    BY ONLY <2>1, <2>2, <2>5, Multiples
  <2>7. s.coef[c] = 0 => whole(s)[c] = 0
    BY <2>1, <2>6
  <2> QED BY <2>1, <2>3, <2>4, <2>6, <2>7
<1> HIDE DEF W, whole
\* What a side leaves once the columns are counted from their anchors.
<1>9. ASSUME NEW s \in S
      PROVE  /\ bound[s] = shifted(s) /\ bound[s] \in Int
             /\ s.den * (Unit * Total(Products(W[s], t, C), C)) <= bound[s]
  <2> DEFINE g == Products(s.coef, p, C)
             wt == Products(W[s], t, C)
             fx == [c \in C |-> IF c \in Support(s) THEN s.coef[c] * anchor[c] ELSE 0]
             n == s.den * Unit
  <2>1. s.coef \in [C -> Int] /\ s.rhs \in Int /\ Total(g, C) <= s.rhs /\ s.den \in Nat \ {0}
    BY <1>4 DEF Inequality
  <2>2. ASSUME NEW c \in C
        PROVE  fx[c] \in Int /\ wt[c] \in Int /\ g[c] = n * wt[c] + 1 * fx[c]
    <3>1. g[c] = s.coef[c] * p[c] /\ wt[c] = W[s][c] * t[c]
      BY DEF Products
    <3>2. /\ s.coef[c] = s.den * whole(s)[c] /\ whole(s)[c] \in Int /\ s.coef[c] \in Int
          /\ W[s][c] = (IF c \in down THEN -whole(s)[c] ELSE whole(s)[c]) /\ W[s][c] \in Int
          /\ (c \notin Support(s) => whole(s)[c] = 0 /\ s.coef[c] = 0)
      BY <1>8
    <3>3. t[c] \in Nat /\ p[c] \in Int
      BY <1>2, <1>7
    <3>4. CASE c \in Support(s)
      <4>1. fx[c] = s.coef[c] * anchor[c]
        BY <3>4
      <4>2. /\ anchor[c] \in Int /\ t[c] \in Nat
            /\ p[c] = anchor[c] + Unit * (IF c \in down THEN -t[c] ELSE t[c])
        BY <1>4, <1>6, <3>4
      <4> DEFINE isDown == c \in down
      <4>3. isDown \in BOOLEAN /\ p[c] = anchor[c] + Unit * (IF isDown THEN -t[c] ELSE t[c])
            /\ W[s][c] = (IF isDown THEN -whole(s)[c] ELSE whole(s)[c])
        BY <3>2, <4>2
      <4> HIDE DEF g, wt, fx, isDown, n
      <4>4. s.den \in Int /\ t[c] \in Int
        BY <2>1, <3>3
      <4>8. /\ whole(s)[c] \in Int /\ t[c] \in Int /\ p[c] \in Int /\ anchor[c] \in Int
            /\ s.coef[c] \in Int /\ s.den \in Int /\ s.coef[c] = s.den * whole(s)[c]
            /\ isDown \in BOOLEAN /\ p[c] = anchor[c] + Unit * (IF isDown THEN -t[c] ELSE t[c])
        BY <3>2, <3>3, <4>2, <4>3, <4>4
      <4>5. s.coef[c] * p[c]
              = (s.den * Unit) * ((IF isDown THEN -whole(s)[c] ELSE whole(s)[c]) * t[c])
                  + s.coef[c] * anchor[c]
        <5> DEFINE w == whole(s)[c]
                   v == t[c]
                   a == anchor[c]
                   n0 == s.den
        <5>0. /\ w \in Int /\ v \in Int /\ a \in Int /\ n0 \in Int /\ s.coef[c] = n0 * w
              /\ p[c] = a + Unit * (IF isDown THEN -v ELSE v) /\ Unit \in Int
          BY <1>3, <4>8
        <5> HIDE DEF w, v, a, n0
        <5>1. CASE isDown
          <6>1. p[c] = a + Unit * (-v)
            BY <5>0, <5>1
          <6>2. (n0 * w) * (a + Unit * (-v)) = (n0 * Unit) * ((-w) * v) + (n0 * w) * a
            BY ONLY <5>0
          <6>3. s.coef[c] * p[c] = (n0 * Unit) * ((-w) * v) + s.coef[c] * a
            BY ONLY <5>0, <6>1, <6>2
          <6> QED BY <5>1, <6>3 DEF w, v, a, n0
        <5>2. CASE ~isDown
          <6>1. p[c] = a + Unit * v
            BY <5>0, <5>2
          <6>2. (n0 * w) * (a + Unit * v) = (n0 * Unit) * (w * v) + (n0 * w) * a
            BY ONLY <5>0
          <6>3. s.coef[c] * p[c] = (n0 * Unit) * (w * v) + s.coef[c] * a
            BY ONLY <5>0, <6>1, <6>2
          <6> QED BY <5>2, <6>3 DEF w, v, a, n0
        <5> QED BY <5>1, <5>2
      <4>6. g[c] = n * wt[c] + fx[c]
        BY <3>1, <4>1, <4>3, <4>5 DEF n
      <4>7. fx[c] \in Int /\ wt[c] \in Int
        BY <3>1, <3>2, <3>3, <4>1, <4>2
      <4> QED BY <4>6, <4>7
    <3>5. CASE c \notin Support(s)
      <4>1. fx[c] = 0 /\ s.coef[c] = 0 /\ whole(s)[c] = 0
        BY <3>2, <3>5
      <4>2. W[s][c] = 0
        <5> HIDE DEF g, wt, fx, n, down
        <5> DEFINE w == whole(s)[c]
        <5>1. W[s][c] = -w \/ W[s][c] = w
          BY <3>2
        <5>2. w \in Int /\ w <= 0 /\ 0 <= w
          BY <3>2, <4>1
        <5> HIDE DEF w
        <5>3. -w = w
          BY ONLY <5>2
        <5> QED BY ONLY <5>1, <5>2, <5>3
      <4>3. g[c] = 0 /\ wt[c] = 0
        BY <3>1, <3>3, <4>1, <4>2
      <4> HIDE DEF g, wt, fx
      <4> QED BY <1>3, <2>1, <4>1, <4>3
    <3> QED BY <3>4, <3>5
  <2>3. bound[s] = s.rhs - SumFunction(fixed(s))
    OBVIOUS
  <2>4. SumFunction(fixed(s)) = Total(fx, C)
    <3>1. \A c \in Support(s) : fx[c] \in Int /\ fixed(s)[c] = fx[c]
      BY <1>4, <2>2
    <3>2. Support(s) \in SUBSET C /\ IsFiniteSet(Support(s))
      BY <1>4, FS_Subset
    <3>3. \A c \in C \ Support(s) : fx[c] = 0
      OBVIOUS
    <3>4. \A c \in C : fx[c] \in Int
      BY <2>2
    <3>5. DOMAIN fixed(s) = Support(s)
      OBVIOUS
    <3> HIDE DEF fx, fixed
    <3>6. Total(fixed(s), Support(s)) = Total(fx, Support(s))
      BY ONLY <3>1, <3>2, TotalSame
    <3>7. Total(fx, C) = Total(fx, Support(s))
      BY <3>2, <3>3, <3>4, TotalWithin
    <3> QED BY <3>5, <3>6, <3>7, SumIsTotal
  <2>5. n \in Int
    BY <1>3, <2>1
  <2>6. \A c \in C : wt[c] \in Int /\ fx[c] \in Int /\ g[c] = n * wt[c] + 1 * fx[c]
    BY <2>2
  <2> HIDE DEF fx, wt, g, n
  <2>7. Total(g, C) = n * Total(wt, C) + 1 * Total(fx, C)
    BY ONLY <2>5, <2>6, TotalLinear, IsFiniteSet(C), 1 \in Int
  <2>8. Total(wt, C) \in Int /\ Total(fx, C) \in Int
    BY <2>6, TotalInt
  <2>9. s.den * (Unit * Total(wt, C)) = n * Total(wt, C)
    BY <1>3, <2>1, <2>8 DEF n
  <2>10. n * Total(wt, C) \in Int
    BY <2>5, <2>8
  <2>11. n * Total(wt, C) <= s.rhs - Total(fx, C)
    BY <2>1, <2>7, <2>8, <2>10
  <2>12. bound[s] = shifted(s)
    OBVIOUS
  <2> HIDE DEF bound, shifted
  <2>13. bound[s] \in Int /\ n * Total(wt, C) <= bound[s]
    BY <2>1, <2>3, <2>4, <2>8, <2>11
  <2> QED BY <2>9, <2>12, <2>13 DEF wt
<1> DEFINE D == den(S)
           u == sum(S)
           h == half(S)
           R == rhs(S)
           f == inX(S)
<1>10. D \in Nat \ {0} /\ \A s \in S : D % s.den = 0
  BY <1>4, <1>5, CommonDenominator
<1>11. \A c \in C : u[c] = Total([s \in S |-> W[s][c]], S)
  <2> SUFFICES ASSUME NEW c \in C PROVE u[c] = Total([s \in S |-> W[s][c]], S)
    OBVIOUS
  <2> DEFINE v == [s \in S |-> IF c \in down THEN -whole(s)[c] ELSE whole(s)[c]]
  <2>1. u[c] = SumFunction(v)
    OBVIOUS
  <2>2. v = [s \in S |-> W[s][c]]
    BY <1>8
  <2>3. DOMAIN v = S
    OBVIOUS
  <2> HIDE DEF v, u
  <2> QED BY <2>1, <2>2, <2>3, SumIsTotal
<1>12. \A c \in C : h[c] = u[c] \div 2
  OBVIOUS
<1>13. R = Total([s \in S |-> bound[s] * (D \div s.den)], S)
  <2> DEFINE v == [s \in S |-> shifted(s) * (D \div s.den)]
  <2>1. R = SumFunction(v) /\ DOMAIN v = S
    OBVIOUS
  <2>2. v = [s \in S |-> bound[s] * (D \div s.den)]
    BY <1>9
  <2> HIDE DEF v, R
  <2> QED BY <2>1, <2>2, SumIsTotal
<1>14. /\ R \in Int /\ \A c \in C : h[c] \in Int /\ u[c] \in Int
       /\ Total(Products(h, t, C), C) <= R \div (2 * Unit * D)
  <2> HIDE DEF D, u, h, R, bound
  <2>1. \A s \in S : /\ s.den \in Nat \ {0} /\ D % s.den = 0 /\ bound[s] \in Int
                     /\ s.den * (Unit * Total(Products(W[s], t, C), C)) <= bound[s]
    BY <1>4, <1>9, <1>10
  <2>2. \A s \in S, c \in C : W[s][c] \in Int
    BY <1>8
  <2>3. Halves(C, S, t, W, D, bound, u, h, R)
    BY ONLY <1>7, <1>10, <1>11, <1>12, <1>13, <2>1, <2>2 DEF Halves
  <2> QED BY <1>5, <2>3, HalvedHolds
<1>15. \A c \in C : f[c] = (IF c \in down THEN -h[c] ELSE h[c]) /\ f[c] \in Int
  <2>1. \A c \in C : f[c] = (IF c \in down THEN -h[c] ELSE h[c])
    OBVIOUS
  <2> HIDE DEF f, h, down, R, D, u
  <2> QED BY <1>14, <2>1
\* Only columns counted from an anchor are left.
<1>16. \A c \in C : f[c] # 0 => usable(c)
  <2> SUFFICES ASSUME NEW c \in C, ~usable(c) PROVE f[c] = 0
    OBVIOUS
  <2> DEFINE v == [s \in S |-> W[s][c]]
  <2>1. \A s \in S : v[s] = 0
    <3> SUFFICES ASSUME NEW s \in S PROVE W[s][c] = 0
      OBVIOUS
    <3>1. c \notin Support(s)
      BY <1>4
    <3> QED BY <1>8, <3>1
  <2>2. u[c] = Total(v, S)
    BY <1>11
  <2> HIDE DEF v, u
  <2>3. u[c] = 0
    BY <1>5, <2>1, <2>2, TotalZero
  <2> HIDE DEF f, h
  <2>4. h[c] = 0
    BY <1>12, <2>3
  <2> QED BY <1>15, <2>4
<1> DEFINE q == R \div (2 * Unit * D)
           ht == Products(h, t, C)
           fp == Products(f, p, C)
           ka == [c \in kept(S) |-> f[c] * anchor[c]]
           fx == [c \in C |-> IF c \in kept(S) THEN f[c] * anchor[c] ELSE 0]
<1>17. \A c \in C : fx[c] \in Int /\ ht[c] \in Int /\ fp[c] = Unit * ht[c] + 1 * fx[c]
  <2> SUFFICES ASSUME NEW c \in C
               PROVE  fx[c] \in Int /\ ht[c] \in Int /\ fp[c] = Unit * ht[c] + 1 * fx[c]
    OBVIOUS
  <2>1. /\ f[c] = (IF c \in down THEN -h[c] ELSE h[c]) /\ f[c] \in Int /\ h[c] \in Int
        /\ t[c] \in Nat /\ p[c] \in Int
    BY <1>2, <1>7, <1>14, <1>15
  <2>2. ht[c] = h[c] * t[c] /\ fp[c] = f[c] * p[c]
    BY DEF Products
  <2>3. fx[c] = IF f[c] # 0 THEN f[c] * anchor[c] ELSE 0
    OBVIOUS
  <2>4. CASE f[c] # 0
    <3>1. /\ anchor[c] \in Int /\ t[c] \in Nat
          /\ p[c] = anchor[c] + Unit * (IF c \in down THEN -t[c] ELSE t[c])
      BY <1>6, <1>16, <2>4
    <3>2. fx[c] = f[c] * anchor[c]
      BY <2>3, <2>4
    <3> HIDE DEF f, h, fx, ht, fp
    <3>3. CASE c \in down
      <4>1. f[c] = -h[c] /\ p[c] = anchor[c] + Unit * (-t[c])
        BY <2>1, <3>1, <3>3
      <4>2. ASSUME NEW k \in Int, NEW a \in Int, NEW v \in Int, NEW one \in Int
            PROVE  (-k) * (a + one * (-v)) = one * (k * v) + (-k) * a
        OBVIOUS
      <4>3. f[c] * p[c] = Unit * (h[c] * t[c]) + f[c] * anchor[c]
        BY <1>3, <2>1, <3>1, <4>1, <4>2
      <4>4. h[c] * t[c] \in Int /\ f[c] * anchor[c] \in Int
        BY <2>1, <3>1
      <4> QED BY <2>2, <3>2, <4>3, <4>4
    <3>4. CASE c \notin down
      <4>1. f[c] = h[c] /\ p[c] = anchor[c] + Unit * t[c]
        BY <2>1, <3>1, <3>4
      <4> QED BY <1>3, <2>1, <2>2, <3>1, <3>2, <4>1
    <3> QED BY <3>3, <3>4
  <2>5. CASE f[c] = 0
    <3> HIDE DEF f, h, fx, ht, fp
    <3>1. h[c] = 0 /\ fx[c] = 0
      BY <2>1, <2>3, <2>5
    <3> QED BY <1>3, <2>1, <2>2, <2>5, <3>1
  <2> QED BY <2>4, <2>5
<1>18. Total(fp, C) = Unit * Total(ht, C) + Total(fx, C) /\ Total(ht, C) \in Int
       /\ Total(fx, C) \in Int
  <2> HIDE DEF fp, ht, fx
  <2>1. Total(ht, C) \in Int /\ Total(fx, C) \in Int
    BY <1>17, TotalInt
  <2>2. Unit \in Int /\ 1 \in Int
    BY <1>3
  <2>3. Total(fp, C) = Unit * Total(ht, C) + 1 * Total(fx, C)
    BY ONLY <1>17, <2>2, TotalLinear, IsFiniteSet(C)
  <2> QED BY <2>1, <2>3
<1>19. SumFunction(ka) = Total(fx, C)
  <2>1. DOMAIN ka = kept(S) /\ kept(S) \in SUBSET C
    OBVIOUS
  <2>2. \A c \in C \ kept(S) : fx[c] = 0
    OBVIOUS
  <2>3. \A c \in kept(S) : ka[c] = fx[c] /\ fx[c] \in Int
    <3>1. \A c \in kept(S) : ka[c] = fx[c]
      OBVIOUS
    <3> HIDE DEF fx, ka, kept
    <3> QED BY <1>17, <2>1, <3>1
  <2> HIDE DEF ka, fx, kept
  <2>4. IsFiniteSet(kept(S))
    BY <2>1, FS_Subset
  <2>5. Total(ka, kept(S)) = Total(fx, kept(S))
    BY ONLY <2>3, <2>4, TotalSame
  <2>6. \A c \in C : fx[c] \in Int
    BY <1>17
  <2>7. Total(fx, C) = Total(fx, kept(S))
    BY <2>1, <2>2, <2>6, TotalWithin
  <2> QED BY <2>1, <2>5, <2>7, SumIsTotal
<1>20. q \in Int
  <2>1. 2 * Unit * D \in Nat \ {0}
    <3> HIDE DEF D
    <3> QED BY <1>3, <1>10
  <2> HIDE DEF R, D
  <2> QED BY <1>14, <2>1, DivMod
<1>21. to(S) = q * Unit + SumFunction(ka)
  OBVIOUS
<1>22. Total(fp, C) <= to(S) /\ to(S) \in Int
  <2>1. Total(ht, C) <= q
    BY <1>14
  <2> HIDE DEF fp, ht, fx, ka, q, to
  <2>2. Unit * Total(ht, C) <= Unit * q
    BY <1>3, <1>18, <1>20, <2>1, ScaleLe
  <2>3. Unit * q = q * Unit /\ Unit * q \in Int /\ Unit * Total(ht, C) \in Int
    BY <1>3, <1>18, <1>20
  <2> QED BY <1>18, <1>19, <1>21, <2>2, <2>3
<1>23. f \in [C -> Int]
  <2>1. f = [c \in C |-> f[c]]
    OBVIOUS
  <2> HIDE DEF f
  <2> QED BY <1>15, <2>1
<1>24. cut = Cut(f, to(S), 1) /\ \A c \in C : p[c] \in Int
  BY <1>1, <1>2
<1> HIDE DEF f, to, fp
<1> QED BY <1>22, <1>23, <1>24, CutHolds, 1 \in Nat \ {0} DEF fp

-----------------------------------------------------------------------------
\* Lifted cover cuts

\* The order of HeaviestFirst.
Before(weight, c, d) == \/ weight[c] > weight[d]
                        \/ weight[c] = weight[d] /\ c < d

\* The first n of an enumeration, in that order.
Sorted(weight, o, n) == \A i, j \in 1 .. n : i < j => Before(weight, o[i], o[j])

\* Of finitely many columns one comes after all others.
LEMMA LightestIs ==
  ASSUME NEW S \in SUBSET Int, IsFiniteSet(S), S # {}, NEW weight, \A c \in S : weight[c] \in Int
  PROVE  \E m \in S : \A c \in S \ {m} : Before(weight, c, m)
<1> DEFINE P == {U \in SUBSET S : U = {} \/ \E m \in U : \A c \in U \ {m} : Before(weight, c, m)}
<1>1. {} \in P
  OBVIOUS
<1>2. ASSUME NEW U \in SUBSET S, NEW x \in S \ U, U \in P PROVE U \cup {x} \in P
  <2>1. CASE U = {}
    <3>1. \A c \in (U \cup {x}) \ {x} : Before(weight, c, x)
      BY <2>1
    <3> QED BY <3>1
  <2>2. CASE U # {}
    <3>1. PICK m \in U : \A c \in U \ {m} : Before(weight, c, m)
      BY <1>2, <2>2
    <3>2. m \in Int /\ x \in Int /\ m # x /\ weight[m] \in Int /\ weight[x] \in Int
      OBVIOUS
    <3>3. CASE Before(weight, m, x)
      <4>1. ASSUME NEW c \in U PROVE Before(weight, c, x)
        <5>1. c = m \/ Before(weight, c, m)
          BY <3>1
        <5>2. c \in Int /\ weight[c] \in Int
          OBVIOUS
        <5> QED BY <3>2, <3>3, <5>1, <5>2 DEF Before
      <4> QED BY <4>1
    <3>4. CASE ~Before(weight, m, x)
      <4>1. Before(weight, x, m)
        <5> DEFINE u == weight[x]
                   v == weight[m]
        <5>1. u \in Int /\ v \in Int /\ m \in Int /\ x \in Int /\ m # x
          BY <3>2
        <5>2. ~(v > u) /\ ~(v = u /\ m < x)
          BY <3>4 DEF Before
        <5> HIDE DEF u, v
        <5>3. u > v \/ (u = v /\ x < m)
          BY <5>1, <5>2
        <5> QED BY <5>3 DEF Before, u, v
      <4>2. \A c \in (U \cup {x}) \ {m} : Before(weight, c, m)
        BY <3>1, <4>1
      <4> QED BY <4>2
    <3> QED BY <3>3, <3>4
  <2> QED BY <2>1, <2>2
<1> HIDE DEF P
<1>3. S \in P
  BY <1>1, <1>2, SetGrow
<1> QED BY <1>3 DEF P

\* There is such an order of finitely many columns.
LEMMA OrderExists ==
  ASSUME NEW S \in SUBSET Int, IsFiniteSet(S), NEW weight, \A c \in S : weight[c] \in Int
  PROVE  \E o \in [1 .. Cardinality(S) -> S] : Sorted(weight, o, Cardinality(S))
<1> DEFINE P == {T \in SUBSET S :
                   \E o \in [1 .. Cardinality(T) -> T] : Sorted(weight, o, Cardinality(T))}
<1>1. ASSUME NEW T \in SUBSET S, \A U \in SUBSET T : U # T => U \in P PROVE T \in P
  <2>0. IsFiniteSet(T) /\ Cardinality(T) \in Nat
    BY FS_Subset, FS_CardinalityType
  <2>1. CASE T = {}
    <3>1. Cardinality(T) = 0
      BY <2>1, FS_EmptySet
    <3> DEFINE o == [i \in 1 .. 0 |-> 0]
    <3>2. o \in [1 .. 0 -> T] /\ Sorted(weight, o, 0)
      BY DEF Sorted
    <3> HIDE DEF o
    <3> QED BY <3>1, <3>2
  <2>2. CASE T # {}
    <3>1. PICK m \in T : \A c \in T \ {m} : Before(weight, c, m)
      BY <2>0, <2>2, LightestIs
    <3> DEFINE U == T \ {m}
               n == Cardinality(U)
    <3>2. n \in Nat /\ Cardinality(T) = n + 1
      <4>1. Cardinality(U) = Cardinality(T) - 1 /\ IsFiniteSet(U)
        BY <2>0, FS_RemoveElement
      <4>2. n \in Nat
        BY <4>1, FS_CardinalityType
      <4> HIDE DEF n
      <4> QED BY <2>0, <4>1, <4>2 DEF n
    <3>3. PICK o \in [1 .. n -> U] : Sorted(weight, o, n)
      BY <1>1
    <3> HIDE DEF n
    <3> DEFINE w == [i \in 1 .. n + 1 |-> IF i = n + 1 THEN m ELSE o[i]]
    <3>4. w \in [1 .. n + 1 -> T]
      BY <3>2
    <3>5. ASSUME NEW i \in 1 .. n + 1, NEW j \in 1 .. n + 1, i < j PROVE Before(weight, w[i], w[j])
      <4>1. i \in 1 .. n /\ w[i] = o[i] /\ o[i] \in T \ {m}
        BY <3>2, <3>5
      <4>2. CASE j = n + 1
        BY <3>1, <4>1, <4>2
      <4>3. CASE j # n + 1
        <5>1. j \in 1 .. n /\ w[j] = o[j]
          BY <3>2, <4>3
        <5> QED BY <3>3, <3>5, <4>1, <5>1 DEF Sorted
      <4> QED BY <4>2, <4>3
    <3> HIDE DEF w
    <3>6. Sorted(weight, w, n + 1)
      BY <3>5 DEF Sorted
    <3> QED BY <3>2, <3>4, <3>6
  <2> QED BY <2>1, <2>2
<1>2. S \in SUBSET S
  OBVIOUS
<1> HIDE DEF P
<1>3. \A T \in SUBSET S : (\A U \in SUBSET T : U # T => U \in P) => T \in P
  BY <1>1
<1>4. \A T \in SUBSET S : T \in P
  BY <1>3, SetClimb
<1> QED BY <1>2, <1>4 DEF P

\* HeaviestFirst lists the columns, as many as there are.
LEMMA HeaviestFirstIs ==
  ASSUME NEW S \in SUBSET Int, IsFiniteSet(S), NEW weight \in [S -> Int]
  PROVE  HeaviestFirst(weight) \in [1 .. Cardinality(S) -> S]
<1> DEFINE n == Cardinality(S)
<1>1. PICK o \in [1 .. n -> S] : Sorted(weight, o, n)
  BY OrderExists
<1>2. \A i, j \in DOMAIN o : i < j =>
        \/ weight[o[i]] > weight[o[j]]
        \/ weight[o[i]] = weight[o[j]] /\ o[i] < o[j]
  BY <1>1 DEF Sorted, Before
<1>3. DOMAIN weight = S
  OBVIOUS
<1> QED BY <1>2, <1>3, Zenon DEF HeaviestFirst

\* Integers of a finite set do not pass all bounds.
LEMMA FiniteBounded ==
  ASSUME NEW S \in SUBSET Int, IsFiniteSet(S)
  PROVE  \E b \in Int : \A v \in S : v <= b
<1> DEFINE P == {T \in SUBSET S : \E b \in Int : \A v \in T : v <= b}
<1>1. {} \in P
  BY 0 \in Int
<1>2. ASSUME NEW T \in SUBSET S, NEW x \in S \ T, T \in P PROVE T \cup {x} \in P
  <2>1. PICK b \in Int : \A v \in T : v <= b
    BY <1>2
  <2> DEFINE top == IF x <= b THEN b ELSE x
  <2>2. top \in Int /\ \A v \in T \cup {x} : v <= top
    BY <2>1
  <2> QED BY <2>2
<1> HIDE DEF P
<1>3. S \in P
  BY <1>1, <1>2, SetGrow
<1> QED BY <1>3 DEF P

\* The best profit within a capacity bounds every profit within it.
LEMMA KnapsackIs ==
  ASSUME NEW items, IsFiniteSet(items), NEW weight, NEW profit,
         \A c \in items : weight[c] \in Int /\ profit[c] \in Int, NEW capacity \in Nat
  PROVE  /\ Knapsack(weight, profit, items, capacity) \in Int
         /\ \A T \in SUBSET items : Total(weight, T) <= capacity
              => Total(profit, T) <= Knapsack(weight, profit, items, capacity)
<1> DEFINE A == {T \in SUBSET items : Total(weight, T) <= capacity}
           f == [T \in A |-> Total(profit, T)]
           V == {f[T] : T \in A}
<1>1. IsFiniteSet(A)
  BY FS_SUBSET, FS_Subset, A \in SUBSET SUBSET items
<1>2. IsFiniteSet(V)
  <2> HIDE DEF A, f
  <2> QED BY <1>1, ImageFinite
<1>3. \A T \in A : f[T] = Total(profit, T) /\ f[T] \in Int
  <2> SUFFICES ASSUME NEW T \in SUBSET items PROVE Total(profit, T) \in Int
    OBVIOUS
  <2>1. IsFiniteSet(T) /\ \A c \in T : profit[c] \in Int
    BY FS_Subset
  <2> QED BY <2>1, TotalInt
<1>4. {} \in A
  BY TotalNone
<1>5. Knapsack(weight, profit, items, capacity) = Max(V)
  <2>1. V = {Total(profit, S) : S \in A}
    OBVIOUS
  <2> HIDE DEF V
  <2> QED BY <2>1, Zenon DEF Knapsack, Total
<1> HIDE DEF f
<1>6. V \in SUBSET Int /\ V # {}
  BY <1>3, <1>4
<1> HIDE DEF V
<1>7. PICK b \in Int : \A v \in V : v <= b
  BY <1>2, <1>6, FiniteBounded
<1>8. Max(V) \in V /\ \A v \in V : v <= Max(V)
  BY <1>6, <1>7, MaxIs
<1>9. \A T \in A : Total(profit, T) \in V
  BY <1>3 DEF V
<1> QED BY <1>5, <1>6, <1>8, <1>9

\* Ones count.
LEMMA TotalOnes ==
  ASSUME NEW S, IsFiniteSet(S), NEW f, \A x \in S : f[x] = 1
  PROVE  Total(f, S) = Cardinality(S)
<1> DEFINE P == {T \in SUBSET S : Total(f, T) = Cardinality(T)}
<1>1. {} \in P
  BY TotalNone, FS_EmptySet
<1>2. ASSUME NEW T \in SUBSET S, NEW x \in S \ T, T \in P PROVE T \cup {x} \in P
  <2>1. \A y \in S : f[y] \in Int
    OBVIOUS
  <2>2. Total(f, T \cup {x}) = f[x] + Total(f, T)
    BY <2>1, TotalGrow
  <2>3. IsFiniteSet(T)
    BY FS_Subset
  <2>4. Cardinality(T \cup {x}) = Cardinality(T) + 1 /\ Cardinality(T) \in Nat
    BY <2>3, FS_AddElement, FS_CardinalityType
  <2>5. f[x] = 1 /\ Total(f, T) = Cardinality(T) /\ T \cup {x} \in SUBSET S
    BY <1>2
  <2>6. Total(f, T \cup {x}) = Cardinality(T \cup {x})
    BY ONLY <2>2, <2>4, <2>5
  <2> QED BY <2>5, <2>6
<1> HIDE DEF P
<1>3. S \in P
  BY <1>1, <1>2, SetGrow
<1> QED BY <1>3 DEF P

\* The length of a function over 1 .. n.
LEMMA LenIs ==
  ASSUME NEW n \in Nat, NEW K, NEW o \in [1 .. n -> K]
  PROVE  Len(o) = n
<1>1. o \in Seq(K)
  BY SeqDef
<1>2. Len(o) \in Nat /\ DOMAIN o = 1 .. Len(o)
  BY <1>1, LenProperties
<1>3. DOMAIN o = 1 .. n
  OBVIOUS
<1> QED BY <1>2, <1>3

\* What lifting keeps: no columns that fit together are worth more than size - 1.
Capped(A, K, weight, b, size) ==
  /\ DOMAIN A \in SUBSET K
  /\ A = [c \in DOMAIN A |-> A[c]]
  /\ \A c \in DOMAIN A : A[c] \in Int
  /\ \A T \in SUBSET DOMAIN A : Total(weight, T) <= b => Total(A, T) <= size - 1

\* The coefficients with k lifted.
WithLifted(A, weight, b, size, k) ==
  [c \in DOMAIN A \cup {k} |-> IF c = k THEN LiftedAlpha(weight, A, size, b, c) ELSE A[c]]

\* One lifting step keeps it.
LEMMA LiftKeeps ==
  ASSUME NEW K, IsFiniteSet(K), NEW weight, \A c \in K : weight[c] \in Nat,
         NEW b \in Nat, NEW size \in Int, NEW k \in K, NEW A, Capped(A, K, weight, b, size)
  PROVE  Capped(WithLifted(A, weight, b, size, k), K, weight, b, size)
<1> DEFINE B == WithLifted(A, weight, b, size, k)
           D == DOMAIN A
           best == Knapsack(weight, A, D, b - weight[k])
           lift == LiftedAlpha(weight, A, size, b, k)
<1>1. D \in SUBSET K /\ IsFiniteSet(D) /\ \A c \in D : weight[c] \in Int /\ A[c] \in Int
  BY FS_Subset DEF Capped
<1>2. weight[k] \in Nat
  OBVIOUS
<1>3. DOMAIN B = D \cup {k} /\ B[k] = lift /\ \A c \in D : c # k => B[c] = A[c]
  BY Zenon DEF WithLifted
<1>4. b < weight[k] => lift = 0
  BY DEF LiftedAlpha
<1>5. ~(b < weight[k]) =>
        /\ lift = size - 1 - best /\ best \in Int
        /\ \A T \in SUBSET D : Total(weight, T) <= b - weight[k] => Total(A, T) <= best
  <2> SUFFICES ASSUME ~(b < weight[k])
               PROVE  /\ lift = size - 1 - best /\ best \in Int
                      /\ \A T \in SUBSET D :
                           Total(weight, T) <= b - weight[k] => Total(A, T) <= best
    OBVIOUS
  <2>1. b - weight[k] \in Nat
    BY <1>2
  <2>2. lift = size - 1 - best
    BY DEF LiftedAlpha
  <2> HIDE DEF best, lift
  <2>3. best \in Int /\ \A T \in SUBSET D : Total(weight, T) <= b - weight[k] => Total(A, T) <= best
    BY <1>1, <2>1, KnapsackIs DEF best
  <2> QED BY <2>2, <2>3
<1> HIDE DEF best, lift
<1>6. lift \in Int
  BY <1>4, <1>5
<1> HIDE DEF B
<1>7. \A c \in D \cup {k} : B[c] \in Int /\ weight[c] \in Int
  BY <1>1, <1>2, <1>3, <1>6
<1>8. ASSUME NEW T \in SUBSET (D \cup {k}), Total(weight, T) <= b PROVE Total(B, T) <= size - 1
  <2> DEFINE R == T \ {k}
  <2>1. R \in SUBSET D /\ IsFiniteSet(R) /\ IsFiniteSet(T)
    <3>1. R \in SUBSET D
      OBVIOUS
    <3>2. IsFiniteSet(R)
      BY <1>1, <3>1, FS_Subset
    <3>3. T = R \/ T = R \cup {k}
      OBVIOUS
    <3>4. IsFiniteSet(R \cup {k})
      BY <3>2, FS_AddElement
    <3> HIDE DEF R
    <3> QED BY <3>1, <3>2, <3>3, <3>4
  <2>2. Total(B, R) = Total(A, R)
    <3>1. \A c \in R : A[c] \in Int /\ B[c] = A[c]
      BY <1>1, <1>3
    <3> HIDE DEF R
    <3> QED BY <2>1, <3>1, TotalSame
  <2>3. Total(A, R) \in Int /\ Total(weight, R) \in Int /\ Total(weight, R) >= 0
    <3>1. \A c \in R : A[c] \in Int /\ weight[c] \in Int /\ 0 <= weight[c]
      BY <1>1
    <3> DEFINE none == [c \in R |-> 0]
    <3>2. \A c \in R : none[c] = 0 /\ none[c] \in Int /\ none[c] <= weight[c]
      BY <3>1
    <3> HIDE DEF R, none
    <3>3. Total(A, R) \in Int /\ Total(weight, R) \in Int
      BY <2>1, <3>1, TotalInt
    <3>4. Total(none, R) = 0
      BY <2>1, <3>2, TotalZero
    <3>5. Total(none, R) <= Total(weight, R)
      BY <2>1, <3>1, <3>2, TotalLe
    <3> QED BY <3>3, <3>4, <3>5
  <2>4. CASE k \notin T
    <3>1. T = R
      BY <2>4
    <3>2. Total(A, R) <= size - 1
      BY <1>8, <2>1, <3>1 DEF Capped
    <3> HIDE DEF R
    <3> QED BY <2>2, <3>1, <3>2
  <2>5. CASE k \in T
    <3>1. \A c \in T : B[c] \in Int /\ weight[c] \in Int
      BY <1>7
    <3>2. Total(B, T) = lift + Total(B, R)
      BY <1>3, <2>1, <2>5, <3>1, SumTake
    <3>3. Total(weight, T) = weight[k] + Total(weight, R)
      BY <2>1, <2>5, <3>1, SumTake
    <3> HIDE DEF R
    <3>4. ~(b < weight[k]) /\ Total(weight, R) <= b - weight[k]
      BY <1>2, <1>8, <2>3, <3>3
    <3>5. Total(A, R) <= best /\ best \in Int /\ lift = size - 1 - best
      BY <1>5, <2>1, <3>4
    <3> QED BY <2>2, <2>3, <3>2, <3>5
  <2> QED BY <2>4, <2>5
<1>9. B = [c \in DOMAIN B |-> B[c]]
  BY Zenon DEF B, WithLifted
<1>10. DOMAIN B = D \cup {k} /\ DOMAIN B \in SUBSET K
  BY <1>1, <1>3
<1> QED BY <1>7, <1>8, <1>9, <1>10 DEF Capped, B

\* Lifting keeps it in whatever order.
LEMMA LiftedIs ==
  ASSUME NEW K, IsFiniteSet(K), NEW weight, \A c \in K : weight[c] \in Nat, NEW b \in Nat,
         NEW last \in Nat, NEW order \in [1 .. last -> K],
         NEW cover \in SUBSET K, Total(weight, cover) > b
  PROVE  Capped(Lifted(weight, b, order, cover), K, weight, b, Cardinality(cover))
<1> DEFINE size == Cardinality(cover)
           base == [c \in cover |-> 1]
           next(n, A) == IF order[n] \in cover THEN A
                         ELSE [c \in DOMAIN A \cup {order[n]} |->
                                 IF c = order[n] THEN LiftedAlpha(weight, A, size, b, c) ELSE A[c]]
           Eq(u, N) == u = [n \in 0 .. N |-> IF n = 0 THEN base ELSE next(n, u[n - 1])]
           Code(u, N) ==
             u = [n \in 0 .. N |->
                    IF n = 0 THEN [c \in cover |-> 1]
                    ELSE IF order[n] \in cover THEN u[n - 1]
                    ELSE [c \in DOMAIN u[n - 1] \cup {order[n]} |->
                            IF c = order[n]
                            THEN LiftedAlpha(weight, u[n - 1], Cardinality(cover), b, c)
                            ELSE u[n - 1][c]]]
           alpha == CHOOSE u : Code(u, last)
<1>1. Lifted(weight, b, order, cover) = alpha[last]
  <2>1. Len(order) = last
    BY LenIs
  <2>2. Lifted(weight, b, order, cover) = (CHOOSE u : Code(u, Len(order)))[Len(order)]
    BY Zenon DEF Lifted
  <2> HIDE DEF Code
  <2> QED BY <2>1, <2>2
<1>2. IsFiniteSet(cover) /\ size \in Nat
  BY FS_Subset, FS_CardinalityType
<1>3. Capped(base, K, weight, b, size)
  <2>1. DOMAIN base = cover /\ \A c \in cover : base[c] = 1
    OBVIOUS
  <2>2. base = [c \in DOMAIN base |-> base[c]]
    OBVIOUS
  <2>3. ASSUME NEW T \in SUBSET cover, Total(weight, T) <= b PROVE Total(base, T) <= size - 1
    <3>1. T # cover
      <4>1. Total(weight, cover) \in Int
        <5>1. \A c \in cover : weight[c] \in Int
          OBVIOUS
        <5> QED BY <1>2, <5>1, TotalInt
      <4>2. Total(weight, cover) > b
        OBVIOUS
      <4> QED BY <2>3, <4>1, <4>2
    <3>2. /\ IsFiniteSet(T) /\ Cardinality(T) \in Nat
          /\ Cardinality(T) <= size /\ Cardinality(T) # size
      BY <1>2, <3>1, FS_Subset, FS_CardinalityType
    <3>3. \A c \in T : base[c] = 1
      OBVIOUS
    <3> HIDE DEF base
    <3>4. Total(base, T) = Cardinality(T)
      BY <3>2, <3>3, TotalOnes
    <3> HIDE DEF size
    <3> QED BY <1>2, <3>2, <3>4
  <2> HIDE DEF base, size
  <2> QED BY <2>1, <2>2, <2>3 DEF Capped
<1>4. ASSUME NEW n \in 1 .. last, NEW A, Capped(A, K, weight, b, size)
      PROVE  Capped(next(n, A), K, weight, b, size)
  <2>1. CASE order[n] \in cover
    BY <1>4, <2>1
  <2>2. CASE order[n] \notin cover
    <3>1. next(n, A) = WithLifted(A, weight, b, size, order[n])
      BY <2>2, Zenon DEF WithLifted
    <3>2. order[n] \in K /\ size \in Int
      BY <1>2
    <3> HIDE DEF next, size
    <3> QED BY <1>4, <3>1, <3>2, LiftKeeps
  <2> QED BY <2>1, <2>2
<1>5. \A u : Code(u, last) <=> Eq(u, last)
  OBVIOUS
<1> HIDE DEF base, next, Code
<1>6. \E u : Eq(u, last)
  <2> DEFINE P == {n \in 0 .. last : \E u : Eq(u, n)}
  <2>1. 0 \in P
    <3> DEFINE u == [n \in 0 .. 0 |-> base]
    <3>1. Eq(u, 0)
      OBVIOUS
    <3>2. 0 \in 0 .. last
      OBVIOUS
    <3> HIDE DEF Eq, u
    <3> QED BY <3>1, <3>2
  <2>2. ASSUME NEW n \in 0 .. last - 1, n \in P PROVE n + 1 \in P
    <3>1. PICK u : Eq(u, n)
      BY <2>2
    <3> DEFINE v == [j \in 0 .. n + 1 |-> IF j <= n THEN u[j] ELSE next(n + 1, u[n])]
    <3>2. ASSUME NEW j \in 0 .. n + 1
          PROVE  v[j] = IF j = 0 THEN base ELSE next(j, v[j - 1])
      <4>1. CASE j = 0
        BY <3>1, <4>1
      <4>2. CASE j # 0 /\ j <= n
        <5>1. u[j] = next(j, u[j - 1]) /\ j - 1 \in 0 .. n
          BY <3>1, <4>2
        <5>2. v[j] = u[j] /\ v[j - 1] = u[j - 1]
          BY <4>2, <5>1
        <5> HIDE DEF v
        <5> QED BY <4>2, <5>1, <5>2
      <4>3. CASE ~(j <= n)
        <5>1. j - 1 = n /\ j = n + 1 /\ j - 1 \in 0 .. n + 1 /\ j # 0
          BY <4>3
        <5>2. v[j] = next(n + 1, u[n]) /\ v[j - 1] = u[n]
          BY <4>3, <5>1
        <5> HIDE DEF v
        <5> QED BY <5>1, <5>2
      <4> QED BY <4>1, <4>2, <4>3
    <3>3. v = [j \in 0 .. n + 1 |-> v[j]]
      OBVIOUS
    <3> HIDE DEF v
    <3>4. Eq(v, n + 1)
      BY <3>2, <3>3
    <3>5. n + 1 \in 0 .. last
      OBVIOUS
    <3> HIDE DEF Eq
    <3> QED BY <3>4, <3>5
  <2> HIDE DEF P, Eq
  <2>3. \A k \in 0 .. last - 1 : k \in P => k + 1 \in P
    BY <2>2
  <2>4. last \in P
    <3>1. \A k \in 0 .. last : k \in P
      BY <2>1, <2>3, Climb
    <3> QED BY <3>1
  <2> QED BY <2>4 DEF P
<1>7. Eq(alpha, last)
  <2>1. \E u : Code(u, last)
    BY <1>5, <1>6
  <2> HIDE DEF Eq
  <2>2. Code(alpha, last)
    BY <2>1, Zenon
  <2> HIDE DEF alpha
  <2> QED BY <1>5, <2>2
<1> HIDE DEF alpha
<1> DEFINE Q == {n \in 0 .. last : Capped(alpha[n], K, weight, b, size)}
<1>8. 0 \in Q
  BY <1>3, <1>7
<1>9. ASSUME NEW n \in 0 .. last - 1, n \in Q PROVE n + 1 \in Q
  <2>1. n + 1 \in 1 .. last /\ n + 1 \in 0 .. last /\ n + 1 # 0 /\ (n + 1) - 1 = n
    OBVIOUS
  <2>2. alpha[n + 1] = next(n + 1, alpha[n])
    BY <1>7, <2>1
  <2>3. Capped(next(n + 1, alpha[n]), K, weight, b, size)
    BY <1>4, <1>9, <2>1
  <2> QED BY <2>1, <2>2, <2>3
<1> HIDE DEF Q
<1>10. \A k \in 0 .. last - 1 : k \in Q => k + 1 \in Q
  BY <1>9
<1>11. last \in Q
  <2>1. \A k \in 0 .. last : k \in Q
    BY <1>8, <1>10, Climb
  <2> QED BY <2>1
<1> QED BY <1>1, <1>11 DEF Q

\* A cover exceeds the capacity.
LEMMA CoverExceeds ==
  ASSUME NEW K, NEW weight, NEW b, NEW n \in Nat, NEW order \in [1 .. n -> K],
         MinimalCover(order, weight, b) # {}
  PROVE  /\ MinimalCover(order, weight, b) \in SUBSET K
         /\ Total(weight, MinimalCover(order, weight, b)) > b
<1> DEFINE prefix(m) == {order[k] : k \in 1 .. m}
           exceeding == {m \in DOMAIN order : SumFunctionOnSet(weight, prefix(m)) > b}
<1>1. MinimalCover(order, weight, b) = IF exceeding = {} THEN {} ELSE prefix(Min(exceeding))
  BY Zenon DEF MinimalCover
<1>2. exceeding # {}
  BY <1>1
<1>3. exceeding \in SUBSET Int /\ 0 \in Int /\ \A m \in exceeding : 0 <= m
  OBVIOUS
<1>4. Min(exceeding) \in exceeding
  <2> HIDE DEF exceeding
  <2> QED BY <1>2, <1>3, MinIs
<1> DEFINE m == Min(exceeding)
<1>5. m \in 1 .. n /\ SumFunctionOnSet(weight, prefix(m)) > b
  <2> HIDE DEF m
  <2> QED BY <1>4 DEF m
<1>6. MinimalCover(order, weight, b) = prefix(m)
  BY <1>1, <1>2
<1> HIDE DEF m
<1>7. prefix(m) \in SUBSET K
  BY <1>5
<1> HIDE DEF prefix
<1> QED BY <1>5, <1>6, <1>7 DEF Total

\* The columns at 1 of a knapsack row fit together.
LEMMA ChosenFit ==
  ASSUME NEW C, IsFiniteSet(C), NEW lo, NEW up, NEW ints, NEW p, PointIn(p, C, lo, up, ints),
         NEW row \in WorkRows(C), Holds(row, p), IsKnapsack(row, lo, up, ints),
         NEW weight, weight = [c \in Support(row) |-> row.coef[c] \div row.den],
         NEW b, b = row.ru \div (row.den * Unit)
  PROVE  /\ b \in Nat /\ Support(row) \in SUBSET C
         /\ \A c \in Support(row) : weight[c] \in Nat /\ p[c] \in {0, Unit}
         /\ Total(weight, {c \in Support(row) : p[c] = Unit}) <= b
<1> DEFINE K == Support(row)
           T == {c \in K : p[c] = Unit}
           D == row.den * Unit
           f == Products(row.coef, p, C)
<1>1. Unit \in Nat \ {0} /\ row.den \in Nat \ {0} /\ row.ru \in Int /\ row.coef \in [C -> Int]
  BY LinearAssumption DEF WorkRows
<1>2. D \in Nat \ {0}
  <2> DEFINE d == row.den
  <2>1. d \in Nat \ {0}
    BY <1>1
  <2> HIDE DEF d
  <2>2. d * Unit \in Nat \ {0}
    BY <1>1, <2>1
  <2> QED BY <2>2 DEF d
<1>3. K \in SUBSET C /\ IsFiniteSet(T) /\ T \in SUBSET C
  <2>1. K \in SUBSET C
    BY <1>1 DEF Support
  <2>2. T \in SUBSET C
    BY <2>1
  <2> QED BY <2>1, <2>2, FS_Subset
<1>4. \A c \in C : p[c] \in Int /\ (c \notin K => row.coef[c] = 0)
  BY <1>1 DEF PointIn, Support
<1>5. ASSUME NEW c \in K PROVE /\ weight[c] \in Nat /\ row.coef[c] = row.den * weight[c]
                               /\ p[c] \in {0, Unit}
  <2>1. c \in ints /\ lo[c] = 0 /\ up[c] = Unit /\ row.coef[c] > 0 /\ row.coef[c] % row.den = 0
    BY DEF IsKnapsack
  <2>2. p[c] \in Int /\ p[c] % Unit = 0 /\ 0 <= p[c] /\ p[c] <= Unit
    BY <1>3, <2>1 DEF PointIn
  <2>3. p[c] \in {0, Unit}
    BY <2>2, BinaryValue
  <2>4. row.coef[c] \in Int
    BY <1>1, <1>3
  <2> DEFINE a == row.coef[c]
             d == row.den
             q == a \div d
  <2>5. a \in Int /\ a > 0 /\ d \in Nat \ {0} /\ a % d = 0
    BY <1>1, <2>1, <2>4
  <2> HIDE DEF a, d, q
  <2>6. a = d * q /\ q \in Int
    BY <2>5, Multiples DEF q
  <2>7. q \in Nat
    <3>1. CASE q < 0
      <4>1. d * q <= 0
        BY <2>5, <2>6, <3>1
      <4> QED BY <2>5, <2>6, <4>1
    <3> QED BY <2>6, <3>1
  <2>8. weight[c] = q
    BY DEF a, d, q
  <2>9. a = d * weight[c]
    BY <2>6, <2>8
  <2> QED BY <2>3, <2>7, <2>8, <2>9 DEF a, d
<1>6. Finite(row.ru) /\ row.ru > 0
  BY DEF IsKnapsack
<1>7. Total(f, C) <= row.ru
  <2>1. Activity(row, p) = Total(f, C)
    BY <1>1, <1>4, ActivityIs
  <2>2. Activity(row, p) <= row.ru
    BY <1>6 DEF Holds
  <2> QED BY <2>1, <2>2
<1>8. \A c \in C : f[c] \in Int /\ f[c] = row.coef[c] * p[c]
  BY <1>1, <1>4 DEF Products
<1>9. \A c \in T : f[c] = D * weight[c]
  <2> SUFFICES ASSUME NEW c \in T PROVE f[c] = D * weight[c]
    OBVIOUS
  <2>1. c \in K /\ c \in C /\ p[c] = Unit
    BY <1>3
  <2>2. f[c] = row.coef[c] * Unit
    BY <1>8, <2>1
  <2> DEFINE w == weight[c]
             d == row.den
  <2>3. w \in Nat /\ row.coef[c] = d * w /\ d \in Nat
    BY <1>1, <1>5, <2>1
  <2> HIDE DEF w, d, f
  <2>4. f[c] = (d * w) * Unit
    BY <2>2, <2>3
  <2>5. f[c] = (d * Unit) * w
    BY <1>1, <2>3, <2>4
  <2> QED BY <2>5 DEF d, w
<1>10. \A c \in C \ T : f[c] = 0
  <2> SUFFICES ASSUME NEW c \in C \ T PROVE f[c] = 0
    OBVIOUS
  <2>1. CASE c \in K
    <3>1. p[c] = 0
      BY <1>5, <2>1
    <3>2. row.coef[c] \in Int
      BY <1>1
    <3> QED BY <1>8, <3>1, <3>2
  <2>2. CASE c \notin K
    BY <1>4, <1>8, <2>2
  <2> QED BY <2>1, <2>2
<1>11. Total(f, C) = Total(f, T)
  <2> HIDE DEF f, T
  <2> QED BY <1>3, <1>8, <1>10, TotalWithin
<1>12. Total(f, T) = D * Total(weight, T) /\ Total(weight, T) \in Int
  <2>1. \A c \in T : weight[c] \in Int /\ f[c] = D * weight[c]
    BY <1>5, <1>9
  <2>2. D \in Int
    BY <1>2
  <2> HIDE DEF f, T, D
  <2>3. Total(f, T) = D * Total(weight, T)
    BY <1>3, <2>1, <2>2, TotalScale
  <2>4. Total(weight, T) \in Int
    BY <1>3, <2>1, TotalInt
  <2> QED BY <2>3, <2>4
<1>13. Total(weight, T) <= b
  <2> HIDE DEF f, T, D
  <2>1. D * Total(weight, T) <= row.ru
    BY <1>7, <1>11, <1>12
  <2>2. Total(weight, T) <= row.ru \div D
    BY <1>1, <1>2, <1>12, <2>1, FloorBound
  <2> QED BY <2>2 DEF D
<1>14. b \in Nat
  <2> HIDE DEF D
  <2>1. row.ru \div D \in Int
    BY <1>1, <1>2, DivMod
  <2>2. D * 0 <= row.ru
    BY <1>1, <1>2, <1>6
  <2>3. 0 <= row.ru \div D
    BY <1>1, <1>2, <2>2, FloorBound
  <2>4. b = row.ru \div D
    BY DEF D
  <2> QED BY <2>1, <2>3, <2>4
<1> QED BY <1>3, <1>5, <1>13, <1>14

\* A lifted cover cut holds at every point of the box that satisfies the rows.
LEMMA CoverHolds ==
  ASSUME NEW C \in SUBSET Int, IsFiniteSet(C), NEW rs, NEW lo, NEW up, NEW ints,
         NEW p, PointIn(p, C, lo, up, ints), ValidRows(rs, p, C),
         NEW cut \in CoverCuts(rs, lo, up, ints)
  PROVE  cut \in WorkRows(C) /\ Holds(cut, p)
<1>1. PICK i \in DOMAIN rs :
        /\ IsKnapsack(rs[i], lo, up, ints)
        /\ LET row == rs[i]
               weight == [c \in Support(row) |-> row.coef[c] \div row.den]
               b == row.ru \div (row.den * Unit)
               order == HeaviestFirst(weight)
               cover == MinimalCover(order, weight, b)
               alpha == Lifted(weight, b, order, cover)
           IN  cut \in IF cover = {} \/ \E c \in DOMAIN alpha : alpha[c] < 0 THEN {}
                       ELSE {Cut([c \in DOMAIN row.coef |->
                                    IF c \in DOMAIN alpha THEN alpha[c] ELSE 0],
                                 (Cardinality(cover) - 1) * Unit, 1)}
  BY Zenon DEF CoverCuts
<1> DEFINE row == rs[i]
           K == Support(row)
           weight == [c \in K |-> row.coef[c] \div row.den]
           b == row.ru \div (row.den * Unit)
           order == HeaviestFirst(weight)
           cover == MinimalCover(order, weight, b)
           alpha == Lifted(weight, b, order, cover)
           size == Cardinality(cover)
           D == DOMAIN alpha
           f == [c \in C |-> IF c \in D THEN alpha[c] ELSE 0]
           g == Products(f, p, C)
           T == {c \in K : p[c] = Unit}
           R == T \cap D
<1>2. row \in WorkRows(C) /\ Holds(row, p) /\ row.coef \in [C -> Int]
  BY DEF ValidRows, WorkRows
<1>3. cover # {} /\ cut = Cut(f, (size - 1) * Unit, 1)
  BY <1>1, <1>2
<1>4. /\ b \in Nat /\ K \in SUBSET C
      /\ \A c \in K : weight[c] \in Nat /\ p[c] \in {0, Unit}
      /\ Total(weight, T) <= b
  <2>1. IsKnapsack(row, lo, up, ints)
    BY <1>1
  <2> DEFINE w == weight
             d == b
             r == row
  <2>2. w = [c \in Support(r) |-> r.coef[c] \div r.den] /\ d = r.ru \div (r.den * Unit)
    OBVIOUS
  <2> HIDE DEF w, d, r
  <2>3. /\ d \in Nat /\ Support(r) \in SUBSET C
        /\ \A c \in Support(r) : w[c] \in Nat /\ p[c] \in {0, Unit}
        /\ Total(w, {c \in Support(r) : p[c] = Unit}) <= d
    <3>1. r \in WorkRows(C) /\ Holds(r, p) /\ IsKnapsack(r, lo, up, ints)
      BY <1>2, <2>1 DEF r
    <3> QED BY <2>2, <3>1, ChosenFit
  <2> QED BY <2>3 DEF w, d, r
<1>5. K \in SUBSET Int /\ IsFiniteSet(K) /\ IsFiniteSet(T) /\ T \in SUBSET K
  <2>1. K \in SUBSET Int /\ IsFiniteSet(K) /\ T \in SUBSET K
    BY <1>4, FS_Subset
  <2> QED BY <2>1, FS_Subset
<1>6. order \in [1 .. Cardinality(K) -> K] /\ Cardinality(K) \in Nat
  <2>1. weight \in [K -> Int]
    BY <1>4
  <2>2. Cardinality(K) \in Nat
    BY <1>5, FS_CardinalityType
  <2> HIDE DEF weight, K
  <2>3. HeaviestFirst(weight) \in [1 .. Cardinality(K) -> K]
    BY <1>5, <2>1, HeaviestFirstIs
  <2> QED BY <2>2, <2>3
<1> DEFINE n == Cardinality(K)
<1>7. n \in Nat /\ order \in [1 .. n -> K]
  BY <1>6
<1> HIDE DEF n, order, weight, b, K
<1>8. cover \in SUBSET K /\ Total(weight, cover) > b
  BY <1>3, <1>7, CoverExceeds
<1> HIDE DEF cover
<1>9. Capped(alpha, K, weight, b, size)
  BY <1>4, <1>5, <1>7, <1>8, LiftedIs
<1> HIDE DEF alpha
<1>10. D \in SUBSET K /\ \A c \in D : alpha[c] \in Int
  BY <1>9 DEF Capped
<1>11. IsFiniteSet(R) /\ R \in SUBSET T /\ R \in SUBSET C /\ R \in SUBSET D
  <2>1. R \in SUBSET T
    OBVIOUS
  <2>2. IsFiniteSet(R)
    BY <1>5, <2>1, FS_Subset
  <2> QED BY <1>4, <1>5, <2>1, <2>2
<1>12. Total(weight, R) <= b
  <2> DEFINE within == [c \in T |-> IF c \in R THEN weight[c] ELSE 0]
  <2>1. \A c \in T : within[c] \in Int /\ weight[c] \in Int /\ within[c] <= weight[c]
    BY <1>4, <1>5
  <2>2. \A c \in T \ R : within[c] = 0
    OBVIOUS
  <2>3. \A c \in R : within[c] = weight[c] /\ weight[c] \in Int
    BY <1>4, <1>5, <1>11
  <2> HIDE DEF within, R, T
  <2>4. Total(within, T) <= Total(weight, T)
    BY <1>5, <2>1, TotalLe
  <2>5. Total(within, T) = Total(within, R)
    BY <1>5, <1>11, <2>1, <2>2, TotalWithin
  <2>6. Total(within, R) = Total(weight, R)
    BY <1>11, <2>3, TotalSame
  <2>7. Total(weight, R) \in Int /\ Total(weight, T) \in Int
    <3>1. \A c \in T : weight[c] \in Int
      BY <2>1
    <3>2. \A c \in R : weight[c] \in Int
      BY <2>3
    <3> QED BY <1>5, <1>11, <3>1, <3>2, TotalInt
  <2> QED BY <1>4, <2>4, <2>5, <2>6, <2>7
<1>13. Total(alpha, R) <= size - 1 /\ Total(alpha, R) \in Int
  <2>1. R \in SUBSET DOMAIN alpha
    BY <1>11
  <2> HIDE DEF R
  <2>2. Total(alpha, R) <= size - 1
    BY <1>9, <1>12, <2>1 DEF Capped
  <2>3. \A c \in R : alpha[c] \in Int
    BY <1>10, <2>1
  <2> QED BY <1>11, <2>2, <2>3, TotalInt
<1>14. Unit \in Nat \ {0} /\ \A c \in C : p[c] \in Int
  BY LinearAssumption DEF PointIn
<1>15. f \in [C -> Int]
  BY <1>10
<1>16. \A c \in C : g[c] \in Int /\ g[c] = f[c] * p[c]
  BY <1>14, <1>15 DEF Products
<1>17. \A c \in R : g[c] = Unit * alpha[c]
  <2> SUFFICES ASSUME NEW c \in R PROVE g[c] = Unit * alpha[c]
    OBVIOUS
  <2>1. c \in C /\ f[c] = alpha[c] /\ p[c] = Unit /\ alpha[c] \in Int
    BY <1>10, <1>11
  <2> HIDE DEF f, g
  <2> QED BY <1>14, <1>16, <2>1
<1>18. \A c \in C \ R : g[c] = 0
  <2> SUFFICES ASSUME NEW c \in C \ R PROVE g[c] = 0
    OBVIOUS
  <2>1. CASE c \in D
    <3>1. p[c] = 0
      BY <1>4, <1>10, <2>1
    <3> HIDE DEF f, g
    <3> QED BY <1>15, <1>16, <3>1
  <2>2. CASE c \notin D
    <3>1. f[c] = 0
      BY <2>2
    <3> HIDE DEF f, g
    <3> QED BY <1>14, <1>16, <3>1
  <2> QED BY <2>1, <2>2
<1> HIDE DEF R, f, D
<1>19. Total(g, C) = Total(g, R)
  <2> HIDE DEF g
  <2> QED BY <1>11, <1>16, <1>18, TotalWithin
<1>20. Total(g, R) = Unit * Total(alpha, R)
  <2>1. \A c \in R : alpha[c] \in Int /\ g[c] = Unit * alpha[c]
    BY <1>10, <1>11, <1>17
  <2>2. Unit \in Int
    BY <1>14
  <2> HIDE DEF g
  <2> QED BY <1>11, <2>1, <2>2, TotalScale
<1>21. size \in Int
  <2>1. IsFiniteSet(cover)
    BY <1>5, <1>8, FS_Subset
  <2>2. Cardinality(cover) \in Nat
    BY <2>1, FS_CardinalityType
  <2> QED BY <2>2
<1> HIDE DEF size
<1>22. (size - 1) * Unit \in Int /\ Total(g, C) <= (size - 1) * Unit
  <2> HIDE DEF g
  <2> DEFINE t == Total(alpha, R)
  <2>1. t \in Int /\ t <= size - 1 /\ Total(g, C) = Unit * t
    BY <1>13, <1>19, <1>20
  <2> HIDE DEF t
  <2>2. Unit * t <= (size - 1) * Unit /\ (size - 1) * Unit \in Int
    BY <1>14, <1>21, <2>1
  <2> QED BY <2>1, <2>2
<1>23. 1 \in Nat \ {0}
  OBVIOUS
<1> QED BY <1>3, <1>14, <1>15, <1>22, <1>23, CutHolds

-----------------------------------------------------------------------------
\* Gomory mixed-integer cuts

\* The mixed-integer rounding of a row of the tableau, term by term: v is what a term of the
\* cut is worth, u what it adds to the row, whose constant leaves r modulo one.
GomorySplit(v, u, one, r) ==
  \E P \in Nat, N \in Nat, q \in Int :
    v = Unit * ((one - r) * P + r * N) /\ P - N = u - one * q

\* Two terms split so add up to one that does.
LEMMA SplitAdd ==
  ASSUME NEW one \in Int, NEW r \in Int, NEW v \in Int, NEW u \in Int, NEW w \in Int, NEW t \in Int,
         GomorySplit(v, u, one, r), GomorySplit(w, t, one, r)
  PROVE  GomorySplit(v + w, u + t, one, r)
<1>1. PICK P \in Nat, N \in Nat, q \in Int :
        v = Unit * ((one - r) * P + r * N) /\ P - N = u - one * q
  BY DEF GomorySplit
<1>2. PICK P2 \in Nat, N2 \in Nat, q2 \in Int :
        w = Unit * ((one - r) * P2 + r * N2) /\ P2 - N2 = t - one * q2
  BY DEF GomorySplit
<1>3. Unit \in Int
  BY LinearAssumption
<1>4. v + w = Unit * ((one - r) * (P + P2) + r * (N + N2))
  <2> DEFINE k == one - r
  <2>1. k \in Int
    OBVIOUS
  <2>2. v = Unit * (k * P + r * N) /\ w = Unit * (k * P2 + r * N2)
    BY <1>1, <1>2
  <2> HIDE DEF k
  <2>3. ASSUME NEW a \in Int, NEW b \in Int PROVE Unit * a + Unit * b = Unit * (a + b)
    BY <1>3
  <2>4. k * (P + P2) = k * P + k * P2 /\ k * P \in Int /\ k * P2 \in Int
    BY <2>1
  <2>5. r * (N + N2) = r * N + r * N2 /\ r * N \in Int /\ r * N2 \in Int
    OBVIOUS
  <2>6. v + w = Unit * ((k * P + r * N) + (k * P2 + r * N2))
    <3> DEFINE a == k * P + r * N
               b == k * P2 + r * N2
    <3>1. a \in Int /\ b \in Int /\ v = Unit * a /\ w = Unit * b
      BY <2>2, <2>4, <2>5
    <3> HIDE DEF a, b
    <3>2. v + w = Unit * (a + b)
      BY <2>3, <3>1
    <3> QED BY <3>2 DEF a, b
  <2>7. (k * P + r * N) + (k * P2 + r * N2) = k * (P + P2) + r * (N + N2)
    BY <2>4, <2>5
  <2>8. v + w = Unit * (k * (P + P2) + r * (N + N2))
    BY <2>6, <2>7
  <2> QED BY <2>8 DEF k
<1>5. (P + P2) - (N + N2) = (u + t) - one * (q + q2)
  <2>1. one * (q + q2) = one * q + one * q2 /\ one * q \in Int /\ one * q2 \in Int
    OBVIOUS
  <2> QED BY <1>1, <1>2, <2>1
<1>6. P + P2 \in Nat /\ N + N2 \in Nat /\ q + q2 \in Int
  OBVIOUS
<1> QED BY <1>4, <1>5, <1>6 DEF GomorySplit

\* Nothing splits so.
LEMMA SplitNone ==
  ASSUME NEW one \in Int, NEW r \in Int
  PROVE  GomorySplit(0, 0, one, r)
<1>1. Unit \in Int
  BY LinearAssumption
<1>2. 0 = Unit * ((one - r) * 0 + r * 0) /\ 0 - 0 = 0 - one * 0
  BY <1>1
<1> SUFFICES \E P \in Nat, N \in Nat, q \in Int :
               0 = Unit * ((one - r) * P + r * N) /\ P - N = 0 - one * q
  BY DEF GomorySplit
<1> WITNESS 0 \in Nat, 0 \in Nat, 0 \in Int
<1> QED BY <1>2

\* And so does any sum of terms.
LEMMA SplitTotal ==
  ASSUME NEW one \in Int, NEW r \in Int, NEW S, IsFiniteSet(S), NEW f, NEW h,
         \A s \in S : f[s] \in Int /\ h[s] \in Int /\ GomorySplit(f[s], h[s], one, r)
  PROVE  GomorySplit(Total(f, S), Total(h, S), one, r)
<1> DEFINE P == {T \in SUBSET S : GomorySplit(Total(f, T), Total(h, T), one, r)}
<1>1. {} \in P
  BY TotalNone, SplitNone
<1>2. ASSUME NEW T \in SUBSET S, NEW x \in S \ T, T \in P PROVE T \cup {x} \in P
  <2>1. \A y \in S : f[y] \in Int
    OBVIOUS
  <2>2. \A y \in S : h[y] \in Int
    OBVIOUS
  <2>3. Total(f, T) \in Int /\ Total(f, T \cup {x}) = f[x] + Total(f, T)
    BY <2>1, TotalGrow
  <2>4. Total(h, T) \in Int /\ Total(h, T \cup {x}) = h[x] + Total(h, T)
    <3>1. IsFiniteSet(S) /\ T \in SUBSET S /\ x \in S \ T
      OBVIOUS
    <3> QED BY ONLY <2>2, <3>1, TotalGrow
  <2>5. GomorySplit(Total(f, T), Total(h, T), one, r) /\ GomorySplit(f[x], h[x], one, r)
    BY <1>2
  <2>6. f[x] \in Int /\ h[x] \in Int
    OBVIOUS
  <2>7. GomorySplit(f[x] + Total(f, T), h[x] + Total(h, T), one, r)
    BY <2>3, <2>4, <2>5, <2>6, SplitAdd
  <2> QED BY <2>3, <2>4, <2>7
<1> HIDE DEF P
<1>3. S \in P
  BY <1>1, <1>2, SetGrow
<1> QED BY <1>3 DEF P

\* The coefficient the rounding gives a term.
LEMMA GomoryTerm ==
  ASSUME NEW det \in Nat \ {0}, NEW r \in 1 .. det * Unit - 1, NEW a \in Int, NEW y \in Nat,
         NEW asInt \in BOOLEAN, asInt => y % Unit = 0
  PROVE  /\ GomoryPi(a, asInt, det, r) \in Int
         /\ GomorySplit(GomoryPi(a, asInt, det, r) * y, a * y, det * Unit, r)
<1> DEFINE one == det * Unit
           rest == a % det
           g == rest * Unit
           pi == GomoryPi(a, asInt, det, r)
<1>1. Unit \in Nat \ {0} /\ r \in Int
  BY LinearAssumption
<1>2. one \in Int
  BY <1>1
<1>3. CASE asInt
  <2>1. y = Unit * (y \div Unit) /\ y \div Unit \in Int
    BY <1>1, <1>3, Multiples
  <2> DEFINE t == y \div Unit
             q == a \div det
  <2>2. a = det * q + rest /\ q \in Int /\ rest \in 0 .. det - 1
    BY DivMod
  <2>3. y = Unit * t /\ t \in Int
    BY <2>1
  <2> HIDE DEF t, q, rest
  <2>4. g \in Int
    BY <1>1, <2>2
  <2>5. pi = Min({g * (one - r), (one - g) * r})
    BY <1>3, Zenon DEF GomoryPi, rest
  <2>6. g * (one - r) \in Int /\ (one - g) * r \in Int
    <3> HIDE DEF g, one
    <3> QED BY <1>1, <1>2, <2>4
  <2>7. pi = g * (one - r) \/ pi = (one - g) * r
    <3> DEFINE u == g * (one - r)
               v == (one - g) * r
    <3>1. u \in Int /\ v \in Int
      BY <2>6
    <3>2. pi = Min({u, v})
      BY <2>5
    <3> HIDE DEF u, v, pi
    <3>3. pi = u \/ pi = v
      BY <3>1, <3>2, MinOfTwo
    <3> QED BY <3>3 DEF u, v
  <2> HIDE DEF pi
  <2>8. a * y - (rest * y) = one * (q * t)
    <3>1. a * y = (det * q + rest) * (Unit * t) /\ rest * y = rest * (Unit * t)
      BY <2>2, <2>3
    <3>2. ASSUME NEW d \in Int, NEW b \in Int, NEW e \in Int, NEW U \in Int, NEW w \in Int
          PROVE  (d * b + e) * (U * w) - (e * (U * w)) = (d * U) * (b * w)
      OBVIOUS
    <3>3. det \in Int /\ q \in Int /\ rest \in Int /\ Unit \in Int /\ t \in Int
      BY <1>1, <2>2, <2>3
    <3>4. (det * q + rest) * (Unit * t) - (rest * (Unit * t)) = (det * Unit) * (q * t)
      BY ONLY <3>2, <3>3
    <3> QED BY <3>1, <3>4
  <2>9. CASE pi = g * (one - r)
    <3> DEFINE P == rest * y
    <3>1. P \in Nat
      BY <2>2
    <3>2. pi * y = Unit * ((one - r) * P + r * 0)
      <4>1. ASSUME NEW e \in Int, NEW U \in Int, NEW k \in Int, NEW w \in Int, NEW s \in Int
            PROVE  ((e * U) * k) * w = U * (k * (e * w) + s * 0)
        OBVIOUS
      <4>2. rest \in Int /\ Unit \in Int /\ one - r \in Int /\ y \in Int /\ r \in Int
        BY <1>1, <1>2, <2>2
      <4> HIDE DEF one
      <4>3. ((rest * Unit) * (one - r)) * y = Unit * ((one - r) * (rest * y) + r * 0)
        BY ONLY <4>1, <4>2
      <4> QED BY <2>9, <4>3
    <3>3. P - 0 = a * y - one * (q * t)
      <4>1. one * (q * t) \in Int /\ a * y \in Int
        <5> HIDE DEF one
        <5> QED BY <1>2, <2>2, <2>3
      <4> HIDE DEF P, one
      <4>2. P \in Int /\ a * y - P = one * (q * t)
        BY <2>8, <3>1 DEF P
      <4> QED BY <4>1, <4>2
    <3>4. q * t \in Int
      BY <2>2, <2>3
    <3> HIDE DEF P, one
    <3>5. GomorySplit(pi * y, a * y, one, r)
      BY <3>1, <3>2, <3>3, <3>4 DEF GomorySplit
    <3> HIDE DEF g
    <3> QED BY <2>6, <2>9, <3>5 DEF one, pi
  <2>10. CASE pi = (one - g) * r
    <3> DEFINE N == (det - rest) * y
    <3>1. N \in Nat
      <4>1. det - rest \in Nat
        BY <2>2
      <4> HIDE DEF rest
      <4> QED BY <4>1
    <3>2. pi * y = Unit * ((one - r) * 0 + r * N)
      <4>1. ASSUME NEW d \in Int, NEW e \in Int, NEW U \in Int,
                   NEW k \in Int, NEW w \in Int, NEW s \in Int
            PROVE  ((d * U - e * U) * s) * w = U * (k * 0 + s * ((d - e) * w))
        OBVIOUS
      <4>2. det \in Int /\ rest \in Int /\ Unit \in Int /\ one - r \in Int /\ y \in Int /\ r \in Int
        BY <1>1, <1>2, <2>2
      <4>3. ((det * Unit - rest * Unit) * r) * y = Unit * ((one - r) * 0 + r * ((det - rest) * y))
        <5> DEFINE k == one - r
        <5>1. k \in Int
          BY <4>2
        <5> HIDE DEF k
        <5>2. ((det * Unit - rest * Unit) * r) * y = Unit * (k * 0 + r * ((det - rest) * y))
          BY ONLY <4>1, <4>2, <5>1
        <5> QED BY <5>2 DEF k
      <4> QED BY <2>10, <4>3
    <3>3. 0 - N = a * y - one * (q * t + t)
      <4> DEFINE e == rest * y
                 ay == a * y
                 s == q * t
      <4>1. e \in Int /\ ay \in Int /\ s \in Int /\ t \in Int /\ y \in Int /\ det \in Int
        BY <2>2, <2>3
      <4>2. N = det * y - e
        BY <2>2
      <4>3. det * y = one * t
        BY <1>1, <2>3
      <4>4. ay - e = one * s
        BY <2>8
      <4> HIDE DEF e, ay, s, N, one
      <4>5. one * (s + t) = one * s + one * t /\ one * s \in Int /\ one * t \in Int
        BY <1>2, <4>1
      <4>6. 0 - N = ay - one * (s + t)
        BY <4>1, <4>2, <4>3, <4>4, <4>5
      <4> QED BY <4>6 DEF ay, s
    <3>4. q * t + t \in Int
      BY <2>2, <2>3
    <3> HIDE DEF N, one
    <3>5. GomorySplit(pi * y, a * y, one, r)
      BY <3>1, <3>2, <3>3, <3>4 DEF GomorySplit
    <3> HIDE DEF g
    <3> QED BY <2>6, <2>10, <3>5 DEF one, pi
  <2> QED BY <2>7, <2>9, <2>10
<1>4. CASE ~asInt /\ a > 0
  <2>1. pi = a * Unit * (one - r)
    BY <1>4 DEF GomoryPi
  <2> DEFINE P == a * y
             k == one - r
  <2>2. P \in Nat /\ k \in Int
    BY <1>1, <1>2, <1>4
  <2>3. pi = (a * Unit) * k
    BY <2>1
  <2> HIDE DEF pi
  <2>4. pi * y = Unit * (k * P + r * 0) /\ pi \in Int
    <3> HIDE DEF k
    <3>1. ASSUME NEW b \in Int, NEW U \in Int, NEW w \in Int, NEW s \in Int, NEW j \in Int
          PROVE  ((b * U) * j) * w = U * (j * (b * w) + s * 0) /\ (b * U) * j \in Int
      OBVIOUS
    <3>2. a \in Int /\ Unit \in Int /\ y \in Int /\ r \in Int
      BY <1>1
    <3>3. ((a * Unit) * k) * y = Unit * (k * (a * y) + r * 0) /\ (a * Unit) * k \in Int
      BY ONLY <2>2, <3>1, <3>2
    <3> QED BY <2>3, <3>3
  <2>5. P - 0 = a * y - one * 0
    <3> HIDE DEF one
    <3> QED BY <1>2, <2>2
  <2> HIDE DEF P, one
  <2>6. GomorySplit(pi * y, a * y, one, r)
    BY <2>2, <2>4, <2>5 DEF GomorySplit
  <2> QED BY <2>4, <2>6 DEF one, pi
<1>5. CASE ~asInt /\ ~(a > 0)
  <2>1. pi = -(a * Unit * r)
    BY <1>5, Zenon DEF GomoryPi
  <2> DEFINE n == -a
             N == n * y
             k == one - r
  <2>2. n \in Nat /\ k \in Int
    BY <1>1, <1>2, <1>5
  <2>3. a = -n /\ pi = (n * Unit) * r
    <3>1. a = -n
      OBVIOUS
    <3> HIDE DEF n, pi
    <3>2. ASSUME NEW b \in Int, NEW U \in Int, NEW s \in Int
          PROVE  -((-b) * U * s) = (b * U) * s
      OBVIOUS
    <3>3. -((-n) * Unit * r) = (n * Unit) * r
      <4>1. n \in Int /\ Unit \in Int /\ r \in Int
        BY <1>1, <2>2
      <4> QED BY ONLY <3>2, <4>1
    <3> QED BY <2>1, <3>1, <3>3
  <2> HIDE DEF pi, n
  <2>4. N \in Nat
    BY <2>2
  <2>5. pi * y = Unit * (k * 0 + r * N) /\ pi \in Int
    <3> HIDE DEF k
    <3>1. ASSUME NEW b \in Int, NEW U \in Int, NEW w \in Int, NEW s \in Int, NEW j \in Int
          PROVE  ((b * U) * s) * w = U * (j * 0 + s * (b * w)) /\ (b * U) * s \in Int
      OBVIOUS
    <3>2. n \in Int /\ Unit \in Int /\ y \in Int /\ r \in Int
      BY <1>1, <2>2
    <3>3. ((n * Unit) * r) * y = Unit * (k * 0 + r * (n * y)) /\ (n * Unit) * r \in Int
      BY ONLY <2>2, <3>1, <3>2
    <3> QED BY <2>3, <3>3
  <2>6. 0 - N = a * y - one * 0
    <3> HIDE DEF one
    <3>1. a * y = 0 - n * y
      BY <2>2, <2>3
    <3> QED BY <1>2, <2>4, <3>1
  <2> HIDE DEF N, one
  <2>7. GomorySplit(pi * y, a * y, one, r)
    BY <2>4, <2>5, <2>6 DEF GomorySplit
  <2> QED BY <2>5, <2>7 DEF one, pi
<1> QED BY <1>3, <1>4, <1>5

\* What the terms are worth together is at least what the constant leaves.
LEMMA GomoryRounds ==
  ASSUME NEW one \in Nat \ {0}, NEW r \in 1 .. one - 1, NEW v \in Int, NEW u \in Int,
         GomorySplit(v, u, one, r), NEW b \in Int, b % one = r, NEW j \in Int, u = b - one * j
  PROVE  v >= Unit * (r * (one - r))
<1>1. PICK P \in Nat, N \in Nat, q \in Int :
        v = Unit * ((one - r) * P + r * N) /\ P - N = u - one * q
  BY DEF GomorySplit
<1>2. Unit \in Nat
  BY LinearAssumption
<1> DEFINE m == (b \div one) - j - q
           k == one - r
<1>3. P - N = r + one * m /\ m \in Int
  <2> DEFINE d == b \div one
  <2>1. b = one * d + r /\ d \in Int
    BY DivMod
  <2> HIDE DEF d
  <2>2. m = d - j - q
    BY DEF d
  <2>3. one * (d - j - q) = one * d - one * j - one * q
        /\ one * d \in Int /\ one * j \in Int /\ one * q \in Int
    BY <2>1
  <2>4. P - N = r + one * (d - j - q)
    BY <1>1, <2>1, <2>3
  <2> HIDE DEF m
  <2> QED BY <2>1, <2>2, <2>4
<1> HIDE DEF m
<1>4. k \in Nat /\ r \in Nat
  OBVIOUS
<1>5. k * P \in Nat /\ r * N \in Nat
  BY <1>4
<1>6. k * P + r * N >= r * k
  <2>1. CASE m >= 0
    <3>1. one * m >= 0
      BY <2>1, <1>3
    <3>2. P >= r
      BY <1>3, <3>1
    <3> HIDE DEF k
    <3>3. k * r <= k * P /\ k * r = r * k
      BY <1>4, <3>2, ScaleLe
    <3> QED BY <1>4, <1>5, <3>3
  <2>2. CASE ~(m >= 0)
    <3>1. one * m <= -one
      <4>1. one * (m + 1) <= 0
        BY <1>3, <2>2
      <4>2. one * (m + 1) = one * m + one
        BY <1>3
      <4> QED BY <1>3, <4>1, <4>2
    <3>2. N >= k
      <4>1. one * m \in Int
        BY <1>3
      <4> QED BY <1>3, <3>1, <4>1
    <3> HIDE DEF k
    <3>3. r * k <= r * N
      BY <1>4, <3>2, ScaleLe
    <3> QED BY <1>4, <1>5, <3>3
  <2> QED BY <1>3, <2>1, <2>2
<1> HIDE DEF k
<1>7. Unit * (r * k) <= Unit * (k * P + r * N)
  <2>1. r * k \in Int /\ k * P + r * N \in Int
    BY <1>4, <1>5
  <2> QED BY <1>2, <1>6, <2>1, ScaleLe
<1> QED BY <1>1, <1>7 DEF k

\* The coefficients of the rows of rs, each taken z[i] times.
Combination(alpha, z, rs, C, R) ==
  \A c \in C : alpha[c] = Total([i \in R |-> z[i] * rs[i].coef[c]], R)

\* Such a combination and what each row adds to it at q.
Combined(C, R, rs, z, alpha, q, G) ==
  /\ \A i \in R : rs[i].coef \in [C -> Int] /\ z[i] \in Int
  /\ Combination(alpha, z, rs, C, R)
  /\ \A c \in C : q[c] \in Int
  /\ G = [i \in R |-> z[i] * Activity(rs[i], q)]

\* A combination of rows is worth the same combination of their activities.
LEMMA CombinationIs ==
  ASSUME NEW C, IsFiniteSet(C), NEW R, IsFiniteSet(R), NEW rs, NEW z, NEW alpha, NEW q, NEW G,
         Combined(C, R, rs, z, alpha, q, G)
  PROVE  /\ \A c \in C : alpha[c] \in Int
         /\ Total(Products(alpha, q, C), C) = Total(G, R)
<1> DEFINE term(i, c) == z[i] * rs[i].coef[c] * q[c]
           M == [c \in C |-> [i \in R |-> term(i, c)]]
           N == [i \in R |-> [c \in C |-> term(i, c)]]
           F == Products(alpha, q, C)
<1> USE DEF Combined
<1>1. ASSUME NEW c \in C, NEW i \in R
      PROVE  /\ rs[i].coef[c] \in Int /\ z[i] \in Int /\ q[c] \in Int /\ term(i, c) \in Int
             /\ term(i, c) = q[c] * (z[i] * rs[i].coef[c])
             /\ term(i, c) = z[i] * (rs[i].coef[c] * q[c])
  <2> DEFINE a == rs[i].coef[c]
             b == z[i]
             d == q[c]
  <2>1. a \in Int /\ b \in Int /\ d \in Int
    OBVIOUS
  <2>2. term(i, c) = b * a * d
    OBVIOUS
  <2> HIDE DEF term, a, b, d
  <2>3. b * a * d \in Int /\ b * a * d = d * (b * a) /\ b * a * d = b * (a * d)
    BY <2>1
  <2> QED BY <2>1, <2>2, <2>3 DEF a, b, d
<1>2. ASSUME NEW c \in C PROVE alpha[c] \in Int /\ F[c] = Total(M[c], R)
  <2> DEFINE f == [i \in R |-> z[i] * rs[i].coef[c]]
             d == q[c]
             h == M[c]
  <2>1. \A i \in R : f[i] \in Int
    BY <1>1
  <2>2. \A i \in R : h[i] = d * f[i]
    BY <1>1
  <2>3. alpha[c] = Total(f, R) /\ d \in Int /\ F[c] = alpha[c] * d
    BY DEF Products, Combination
  <2> HIDE DEF f, d, h, F
  <2>4. Total(h, R) = d * Total(f, R)
    BY <2>1, <2>2, <2>3, TotalScale
  <2>5. Total(f, R) \in Int
    BY <2>1, TotalInt
  <2> QED BY <2>3, <2>4, <2>5 DEF h
<1>3. ASSUME NEW i \in R PROVE G[i] = Total(N[i], C)
  <2> DEFINE f == Products(rs[i].coef, q, C)
             b == z[i]
             h == N[i]
  <2>1. \A c \in C : f[c] \in Int
    BY <1>1 DEF Products
  <2>2. \A c \in C : h[c] = b * f[c]
    BY <1>1 DEF Products
  <2>3. Activity(rs[i], q) = Total(f, C) /\ b \in Int
    BY ActivityIs
  <2>4. G[i] = b * Activity(rs[i], q)
    OBVIOUS
  <2> HIDE DEF f, b, h
  <2>5. Total(h, C) = b * Total(f, C)
    BY <2>1, <2>2, <2>3, TotalScale
  <2> QED BY <2>3, <2>4, <2>5 DEF h
<1>4. Transposed(M, N, C, R)
  BY <1>1, Zenon DEF Transposed
<1>5. RowSums(F, M, C, R) /\ RowSums(G, N, R, C)
  BY <1>2, <1>3 DEF RowSums
<1> HIDE DEF M, N, F
<1>6. Total(F, C) = Total(G, R)
  BY <1>4, <1>5, TotalSwap
<1> QED BY <1>2, <1>6 DEF F

\* A row's activity moves with the point.
LEMMA ActivityMoves ==
  ASSUME NEW C, IsFiniteSet(C), NEW row, row.coef \in [C -> Int], NEW p, NEW x, NEW move,
         \A c \in C : p[c] \in Int /\ x[c] \in Int /\ move[c] = p[c] - x[c]
  PROVE  /\ Activity(row, p) \in Int /\ Activity(row, x) \in Int
         /\ Activity(row, move) = Activity(row, p) - Activity(row, x)
<1> DEFINE f == Products(row.coef, p, C)
           g == Products(row.coef, x, C)
           h == Products(row.coef, move, C)
<1>1. \A c \in C : p[c] \in Int
  OBVIOUS
<1>2. \A c \in C : x[c] \in Int
  OBVIOUS
<1>3. \A c \in C : move[c] \in Int
  OBVIOUS
<1>4. Activity(row, p) = Total(f, C) /\ Activity(row, p) \in Int
  BY <1>1, ActivityIs
<1>5. Activity(row, x) = Total(g, C) /\ Activity(row, x) \in Int
  BY <1>2, ActivityIs
<1>6. Activity(row, move) = Total(h, C) /\ Activity(row, move) \in Int
  BY <1>3, ActivityIs
<1>7. \A c \in C : f[c] \in Int /\ g[c] \in Int /\ h[c] \in Int /\ f[c] = g[c] + h[c]
  <2> SUFFICES ASSUME NEW c \in C
               PROVE  f[c] \in Int /\ g[c] \in Int /\ h[c] \in Int /\ f[c] = g[c] + h[c]
    OBVIOUS
  <2> DEFINE a == row.coef[c]
             u == p[c]
             v == x[c]
  <2>1. a \in Int /\ u \in Int /\ v \in Int
    OBVIOUS
  <2>2. f[c] = a * u /\ g[c] = a * v /\ h[c] = a * (u - v)
    BY DEF Products
  <2> HIDE DEF a, u, v, f, g, h
  <2>3. a * (u - v) = a * u - a * v /\ a * u \in Int /\ a * v \in Int
    BY <2>1
  <2> QED BY <2>2, <2>3
<1> HIDE DEF f, g, h
<1>8. Total(f, C) = Total(g, C) + Total(h, C)
  BY <1>7, TotalShift
<1> QED BY <1>4, <1>5, <1>6, <1>8

\* Row multipliers that leave k alone among the basic columns and spare the basic rows.
Tableau(rs, C, basicCols, basicRows, k, det, z, alpha) ==
  /\ basicCols \in SUBSET C /\ k \in basicCols /\ det \in Nat \ {0}
  /\ \A i \in DOMAIN rs : z[i] \in Int /\ (i \in basicRows => z[i] = 0)
  /\ Combination(alpha, z, rs, C, DOMAIN rs)
  /\ \A c \in basicCols : alpha[c] = IF c = k THEN det ELSE 0

\* What the moves of the nonbasic columns and rows add to the row of k.
TableauMoves(rs, C, p, x, B, L, k, det, z, alpha, cu, ru) ==
  /\ Tableau(rs, C, B, L, k, det, z, alpha)
  /\ \A i \in DOMAIN rs : rs[i].coef \in [C -> Int]
  /\ \A c \in C : p[c] \in Int /\ x[c] \in Int
  /\ \A c \in C \ B : cu[c] = alpha[c] * (p[c] - x[c])
  /\ \A i \in DOMAIN rs \ L : ru[i] = -(z[i] * (Activity(rs[i], p) - Activity(rs[i], x)))

\* The row of the tableau k is basic in.
LEMMA TableauRow ==
  ASSUME NEW C, IsFiniteSet(C), NEW rs, IsFiniteSet(DOMAIN rs), NEW p, NEW x,
         NEW B, NEW L, NEW k, NEW det, NEW z, NEW alpha,
         NEW cu, NEW ru, TableauMoves(rs, C, p, x, B, L, k, det, z, alpha, cu, ru)
  PROVE  /\ Total(cu, C \ B) \in Int /\ Total(ru, DOMAIN rs \ L) \in Int
         /\ Total(cu, C \ B) + Total(ru, DOMAIN rs \ L) = det * x[k] - det * p[k]
<1> DEFINE R == DOMAIN rs
           move == [c \in C |-> p[c] - x[c]]
           f == Products(alpha, move, C)
           g == [i \in R |-> z[i] * Activity(rs[i], move)]
<1> USE DEF TableauMoves
<1>1. /\ B \in SUBSET C /\ k \in B /\ det \in Nat \ {0}
      /\ \A i \in R : z[i] \in Int /\ (i \in L => z[i] = 0)
      /\ Combination(alpha, z, rs, C, R)
      /\ \A c \in B : alpha[c] = IF c = k THEN det ELSE 0
  BY DEF Tableau
<1>2. \A c \in C : move[c] \in Int /\ move[c] = p[c] - x[c]
  OBVIOUS
<1>3. (\A c \in C : alpha[c] \in Int) /\ Total(f, C) = Total(g, R)
  <2>1. \A i \in R : rs[i].coef \in [C -> Int] /\ z[i] \in Int
    BY <1>1
  <2>2. \A c \in C : move[c] \in Int
    BY <1>2
  <2>3. IsFiniteSet(R)
    OBVIOUS
  <2>4. g = [i \in R |-> z[i] * Activity(rs[i], move)]
    OBVIOUS
  <2>5. Combination(alpha, z, rs, C, R)
    BY <1>1
  <2> HIDE DEF move, g, R
  <2>6. Combined(C, R, rs, z, alpha, move, g)
    BY <2>1, <2>2, <2>4, <2>5 DEF Combined
  <2> QED BY <2>3, <2>6, CombinationIs
<1>4. \A c \in C : f[c] \in Int /\ f[c] = alpha[c] * (p[c] - x[c])
  BY <1>3 DEF Products
<1>5. ASSUME NEW i \in R
      PROVE  g[i] \in Int /\ g[i] = z[i] * (Activity(rs[i], p) - Activity(rs[i], x))
  <2>1. /\ Activity(rs[i], p) \in Int /\ Activity(rs[i], x) \in Int
        /\ Activity(rs[i], move) = Activity(rs[i], p) - Activity(rs[i], x)
    <3>1. \A c \in C : p[c] \in Int /\ x[c] \in Int /\ move[c] = p[c] - x[c]
      BY <1>2
    <3>2. rs[i].coef \in [C -> Int]
      OBVIOUS
    <3> HIDE DEF move
    <3> QED BY <3>1, <3>2, ActivityMoves
  <2>2. z[i] \in Int
    BY <1>1
  <2>3. g[i] = z[i] * Activity(rs[i], move)
    OBVIOUS
  <2> HIDE DEF g, move
  <2> DEFINE b == z[i]
             u == Activity(rs[i], p)
             v == Activity(rs[i], x)
  <2>4. b \in Int /\ u \in Int /\ v \in Int /\ g[i] = b * (u - v)
    BY <2>1, <2>2, <2>3
  <2> HIDE DEF b, u, v
  <2>5. g[i] \in Int /\ g[i] = b * (u - v)
    BY <2>4
  <2> QED BY <2>5 DEF b, u, v
<1> HIDE DEF move, f, g
<1>6. Total(f, C) = Total(f, C \cap B) + Total(f, C \ B)
  BY <1>4, TotalSplit
<1>7. Total(f, C \cap B) = det * (p[k] - x[k])
  <2>1. IsFiniteSet(C \cap B) /\ k \in C \cap B
    BY <1>1, FS_Subset
  <2>2. f[k] \in Int /\ f[k] = det * (p[k] - x[k])
    BY <1>1, <1>4
  <2>3. \A c \in (C \cap B) \ {k} : f[c] = 0
    <3> SUFFICES ASSUME NEW c \in C \cap B, c # k PROVE f[c] = 0
      OBVIOUS
    <3>1. alpha[c] = 0
      BY <1>1
    <3>2. p[c] - x[c] \in Int
      OBVIOUS
    <3> DEFINE d == p[c] - x[c]
    <3> HIDE DEF d
    <3>3. f[c] = 0 * d /\ d \in Int
      BY <1>4, <3>1, <3>2 DEF d
    <3> QED BY <3>3
  <2> QED BY <2>1, <2>2, <2>3, TotalOne
<1>8. Total(cu, C \ B) = Total(f, C \ B) /\ Total(f, C \ B) \in Int
  <2>1. IsFiniteSet(C \ B)
    BY FS_Subset
  <2>2. \A c \in C \ B : f[c] \in Int /\ cu[c] = f[c]
    BY <1>4
  <2>3. \A c \in C \ B : f[c] \in Int
    BY <1>4
  <2> QED BY <2>1, <2>2, <2>3, TotalSame, TotalInt
<1>9. Total(g, R) = Total(g, R \ L)
  <2>1. \A i \in R : g[i] \in Int
    BY <1>5
  <2>2. \A i \in R \ (R \ L) : g[i] = 0
    <3> SUFFICES ASSUME NEW i \in R, i \in L PROVE g[i] = 0
      OBVIOUS
    <3>1. z[i] = 0
      BY <1>1
    <3>2. Activity(rs[i], p) \in Int /\ Activity(rs[i], x) \in Int
      BY ActivityIs
    <3> DEFINE d == Activity(rs[i], p) - Activity(rs[i], x)
    <3>3. d \in Int
      BY <3>2
    <3> HIDE DEF d
    <3>4. g[i] = 0 * d
      BY <1>5, <3>1 DEF d
    <3> QED BY <3>3, <3>4
  <2>3. R \ L \in SUBSET R
    OBVIOUS
  <2> QED BY <2>1, <2>2, <2>3, TotalWithin
<1>10. Total(ru, R \ L) = (-1) * Total(g, R \ L) /\ Total(g, R \ L) \in Int
  <2>1. IsFiniteSet(R \ L)
    BY FS_Subset
  <2>2. \A i \in R \ L : g[i] \in Int /\ ru[i] = (-1) * g[i]
    <3> SUFFICES ASSUME NEW i \in R \ L PROVE g[i] \in Int /\ ru[i] = (-1) * g[i]
      OBVIOUS
    <3>1. ru[i] = -g[i] /\ g[i] \in Int
      BY <1>5
    <3> QED BY <3>1
  <2>3. \A i \in R \ L : g[i] \in Int
    BY <1>5
  <2>4. Total(ru, R \ L) = (-1) * Total(g, R \ L)
    BY <2>1, <2>2, -1 \in Int, TotalScale
  <2>5. Total(g, R \ L) \in Int
    BY <2>1, <2>3, TotalInt
  <2> QED BY <2>4, <2>5
<1>11. det * (p[k] - x[k]) = det * p[k] - det * x[k] /\ det * p[k] \in Int /\ det * x[k] \in Int
  <2> DEFINE u == p[k]
             v == x[k]
  <2>1. u \in Int /\ v \in Int /\ det \in Int
    BY <1>1
  <2> HIDE DEF u, v
  <2>2. det * (u - v) = det * u - det * v /\ det * u \in Int /\ det * v \in Int
    BY <2>1
  <2> QED BY <2>2 DEF u, v
<1> DEFINE tf == Total(f, C \ B)
           tg == Total(g, R \ L)
           a == det * p[k]
           b == det * x[k]
<1>12. tf \in Int /\ tg \in Int /\ a \in Int /\ b \in Int /\ (a - b) + tf = tg
  BY <1>3, <1>6, <1>7, <1>8, <1>9, <1>10, <1>11
<1>13. Total(cu, C \ B) = tf /\ Total(ru, R \ L) = -tg
  BY <1>8, <1>10
<1> HIDE DEF tf, tg, a, b
<1>14. tf + (-tg) = b - a /\ tf \in Int /\ -tg \in Int
  BY <1>12
<1> QED BY <1>13, <1>14 DEF a, b

\* A nonbasic quantity d away from its bound, on the side s says.
LEMMA MoveTerm ==
  ASSUME NEW det \in Nat \ {0}, NEW r \in 1 .. det * Unit - 1, NEW s \in {1, -1}, NEW a \in Int,
         NEW d \in Int, s * d >= 0, NEW fixed \in BOOLEAN, fixed => d = 0,
         NEW asInt \in BOOLEAN, asInt => d % Unit = 0, NEW e, e = s * a,
         NEW pi, pi = IF fixed THEN 0 ELSE GomoryPi(e, asInt, det, r)
  PROVE  pi \in Int /\ GomorySplit((s * pi) * d, a * d, det * Unit, r)
<1> DEFINE one == det * Unit
           y == s * d
<1>1. Unit \in Nat \ {0} /\ s \in Int
  BY LinearAssumption
<1>2. one \in Int /\ r \in Int
  BY <1>1
<1>3. y \in Nat /\ e \in Int
  BY <1>1
<1>4. asInt => y % Unit = 0
  <2> SUFFICES ASSUME asInt PROVE y % Unit = 0
    OBVIOUS
  <2>1. d = Unit * (d \div Unit) /\ d \div Unit \in Int
    BY <1>1, Multiples
  <2> DEFINE t == d \div Unit
  <2>2. d = Unit * t /\ t \in Int
    BY <2>1
  <2> HIDE DEF t
  <2>3. y = Unit * (s * t) /\ s * t \in Int
    BY <1>1, <2>2
  <2> HIDE DEF y
  <2> QED BY <1>1, <2>3, ModOfMultiple
<1>5. e * y = a * d
  <2>1. CASE s = 1
    BY <2>1
  <2>2. CASE s = -1
    <3>1. e = -a /\ y = -d
      BY <2>2
    <3>2. (-a) * (-d) = a * d
      OBVIOUS
    <3> QED BY <3>1, <3>2
  <2> QED BY <2>1, <2>2
<1> HIDE DEF y
<1>6. CASE fixed
  <2>1. pi = 0 /\ d = 0
    BY <1>6
  <2>2. (s * pi) * d = 0 /\ a * d = 0
    BY <1>1, <2>1
  <2> HIDE DEF one
  <2>3. GomorySplit((s * pi) * d, a * d, one, r)
    BY <1>2, <2>2, SplitNone
  <2> QED BY <2>1, <2>3 DEF one
<1>7. CASE ~fixed
  <2>1. pi = GomoryPi(e, asInt, det, r)
    BY <1>7
  <2>2. /\ GomoryPi(e, asInt, det, r) \in Int
        /\ GomorySplit(GomoryPi(e, asInt, det, r) * y, e * y, det * Unit, r)
    BY <1>3, <1>4, GomoryTerm
  <2>3. pi \in Int /\ GomorySplit(pi * y, a * d, det * Unit, r)
    BY <1>5, <2>1, <2>2
  <2>4. pi * y = (s * pi) * d
    BY <1>1, <2>3 DEF y
  <2> QED BY <2>3, <2>4
<1> QED BY <1>6, <1>7

\* The cut in the columns: what the nonbasic columns carry, and the rows by their activity.
Weighted(C, N, R, rs, cm, rm, gamma) ==
  /\ N \in SUBSET C
  /\ \A c \in N : cm[c] \in Int
  /\ \A i \in R : rm[i] \in Int /\ rs[i].coef \in [C -> Int]
  /\ \A c \in C : gamma[c] = (IF c \in N THEN cm[c] ELSE 0)
                             + Total([i \in R |-> rm[i] * rs[i].coef[c]], R)

\* What they are worth at q.
WeightsAt(C, N, R, rs, cm, rm, gamma, q, f, g) ==
  /\ Weighted(C, N, R, rs, cm, rm, gamma)
  /\ \A c \in C : q[c] \in Int
  /\ f = [c \in N |-> cm[c] * q[c]]
  /\ g = [i \in R |-> rm[i] * Activity(rs[i], q)]

\* What the cut is worth at q, from the columns and from the rows.
LEMMA WeightedIs ==
  ASSUME NEW C, IsFiniteSet(C), NEW N, NEW R, IsFiniteSet(R), NEW rs, NEW cm, NEW rm, NEW gamma,
         NEW q, NEW f, NEW g, WeightsAt(C, N, R, rs, cm, rm, gamma, q, f, g)
  PROVE  /\ \A c \in C : gamma[c] \in Int
         /\ Total(f, N) \in Int /\ Total(g, R) \in Int
         /\ Total(Products(gamma, q, C), C) = Total(f, N) + Total(g, R)
<1> DEFINE cg == [c \in C |-> IF c \in N THEN cm[c] ELSE 0]
           lg == [c \in C |-> Total([i \in R |-> rm[i] * rs[i].coef[c]], R)]
           F == Products(cg, q, C)
           G == Products(lg, q, C)
           H == Products(gamma, q, C)
<1> USE DEF WeightsAt
<1>1. /\ N \in SUBSET C
      /\ \A c \in N : cm[c] \in Int
      /\ \A i \in R : rm[i] \in Int /\ rs[i].coef \in [C -> Int]
      /\ \A c \in C : gamma[c] = cg[c] + lg[c]
  BY DEF Weighted
<1>2. \A c \in C : cg[c] \in Int /\ cg[c] = IF c \in N THEN cm[c] ELSE 0
  BY <1>1
<1>3. Combined(C, R, rs, rm, lg, q, g)
  <2>1. Combination(lg, rm, rs, C, R)
    BY DEF Combination
  <2> HIDE DEF lg
  <2> QED BY <1>1, <2>1 DEF Combined
<1> HIDE DEF cg, lg
<1>4. (\A c \in C : lg[c] \in Int) /\ Total(G, C) = Total(g, R)
  BY <1>3, CombinationIs
<1>5. \A c \in C : F[c] \in Int /\ G[c] \in Int /\ F[c] = cg[c] * q[c] /\ G[c] = lg[c] * q[c]
                   /\ H[c] = gamma[c] * q[c]
  BY <1>2, <1>4 DEF Products
<1>6. \A c \in C : gamma[c] \in Int
  BY <1>1, <1>2, <1>4
<1>7. \A c \in C : F[c] \in Int /\ G[c] \in Int /\ H[c] = F[c] + G[c]
  <2> SUFFICES ASSUME NEW c \in C PROVE F[c] \in Int /\ G[c] \in Int /\ H[c] = F[c] + G[c]
    OBVIOUS
  <2> DEFINE u == cg[c]
             v == lg[c]
             w == q[c]
  <2>1. u \in Int /\ v \in Int /\ w \in Int
    BY <1>2, <1>4
  <2>2. H[c] = (u + v) * w /\ F[c] = u * w /\ G[c] = v * w
    BY <1>1, <1>5
  <2> HIDE DEF u, v, w, F, G, H
  <2>3. (u + v) * w = u * w + v * w /\ u * w \in Int /\ v * w \in Int
    BY <2>1
  <2> QED BY <2>2, <2>3
<1> HIDE DEF F, G, H
<1>8. Total(H, C) = Total(F, C) + Total(G, C)
  BY <1>7, TotalAdd
<1>9. \A c \in C : F[c] \in Int
  BY <1>7
<1>10. \A c \in C : G[c] \in Int
  BY <1>7
<1>11. \A c \in C \ N : F[c] = 0
  <2> SUFFICES ASSUME NEW c \in C \ N PROVE F[c] = 0
    OBVIOUS
  <2>1. F[c] = 0 * q[c] /\ q[c] \in Int
    BY <1>2, <1>5
  <2> QED BY <2>1
<1>12. Total(F, C) = Total(F, N)
  BY <1>1, <1>9, <1>11, TotalWithin
<1>13. IsFiniteSet(N)
  BY <1>1, FS_Subset
<1>14. \A c \in N : F[c] \in Int /\ f[c] = F[c]
  BY <1>1, <1>2, <1>5
<1>15. Total(f, N) = Total(F, N)
  BY <1>13, <1>14, TotalSame
<1>16. Total(F, C) \in Int /\ Total(G, C) \in Int
  BY <1>9, <1>10, TotalInt
<1>17. Total(H, C) = Total(f, N) + Total(g, R) /\ Total(f, N) \in Int /\ Total(g, R) \in Int
  BY <1>4, <1>8, <1>12, <1>15, <1>16
<1> QED BY <1>6, <1>17 DEF H

\* What quantities are worth at k each: before, after, and for the move.
Worths(S, k, from, to, f, g, h) ==
  /\ \A s \in S : k[s] \in Int /\ from[s] \in Int /\ to[s] \in Int
  /\ f = [s \in S |-> k[s] * from[s]] /\ g = [s \in S |-> k[s] * to[s]]
  /\ h = [s \in S |-> k[s] * (to[s] - from[s])]

\* A sum of what a quantity was worth and what its move is worth.
LEMMA WorthMoves ==
  ASSUME NEW S, IsFiniteSet(S), NEW k, NEW from, NEW to,
         NEW f, NEW g, NEW h, Worths(S, k, from, to, f, g, h)
  PROVE  /\ Total(f, S) \in Int /\ Total(h, S) \in Int
         /\ Total(g, S) = Total(f, S) + Total(h, S)
<1> USE DEF Worths
<1>1. \A s \in S : f[s] \in Int /\ h[s] \in Int /\ g[s] = f[s] + h[s]
  <2> SUFFICES ASSUME NEW s \in S PROVE f[s] \in Int /\ h[s] \in Int /\ g[s] = f[s] + h[s]
    OBVIOUS
  <2> DEFINE a == k[s]
             u == from[s]
             v == to[s]
  <2>1. a \in Int /\ u \in Int /\ v \in Int
    OBVIOUS
  <2>2. f[s] = a * u /\ g[s] = a * v /\ h[s] = a * (v - u)
    OBVIOUS
  <2> HIDE DEF a, u, v
  <2>3. a * (v - u) = a * v - a * u /\ a * u \in Int /\ a * v \in Int
    BY <2>1
  <2> QED BY <2>2, <2>3
<1>2. \A s \in S : f[s] \in Int
  BY <1>1
<1>3. \A s \in S : h[s] \in Int
  BY <1>1
<1>4. Total(f, S) \in Int /\ Total(h, S) \in Int
  BY <1>2, <1>3, TotalInt
<1>5. Total(g, S) = Total(f, S) + Total(h, S)
  BY <1>1, TotalAdd
<1> QED BY <1>4, <1>5

\* x stands at a bound in every nonbasic column and row.
AtVertex(rs, C, lo, up, x, basicCols, basicRows) ==
  /\ \A c \in C \ basicCols : x[c] \in {lo[c], up[c]}
  /\ \A i \in DOMAIN rs \ basicRows :
       \E side \in {rs[i].rl, rs[i].ru} : Finite(side) /\ Activity(rs[i], x) = side

\* A nonbasic column moves away from its bound.
LEMMA ColumnMoves ==
  ASSUME NEW C, NEW lo, NEW up, NEW ints, NEW p, PointIn(p, C, lo, up, ints),
         NEW c \in C, NEW x, x[c] \in {lo[c], up[c]}
  PROVE  LET s == IF x[c] = lo[c] THEN 1 ELSE -1
         IN  /\ x[c] \in Int /\ p[c] \in Int /\ s * (p[c] - x[c]) >= 0
             /\ lo[c] = up[c] => p[c] - x[c] = 0
             /\ c \in ints /\ Whole(x[c]) => (p[c] - x[c]) % Unit = 0
<1>1. lo[c] \in Int /\ up[c] \in Int /\ p[c] \in Int /\ lo[c] <= p[c] /\ p[c] <= up[c]
      /\ (c \in ints => p[c] % Unit = 0)
  BY DEF PointIn
<1>2. x[c] \in Int
  BY <1>1
<1> DEFINE s == IF x[c] = lo[c] THEN 1 ELSE -1
<1>3. s * (p[c] - x[c]) >= 0
  <2>1. CASE x[c] = lo[c]
    BY <1>1, <2>1
  <2>2. CASE x[c] # lo[c]
    <3>1. x[c] = up[c] /\ s = -1
      BY <2>2
    <3> QED BY <1>1, <1>2, <3>1
  <2> QED BY <2>1, <2>2
<1>4. lo[c] = up[c] => p[c] - x[c] = 0
  BY <1>1, <1>2
<1>5. c \in ints /\ Whole(x[c]) => (p[c] - x[c]) % Unit = 0
  <2> SUFFICES ASSUME c \in ints, Whole(x[c]) PROVE (p[c] - x[c]) % Unit = 0
    OBVIOUS
  <2> DEFINE u == p[c]
             v == x[c]
             i == u \div Unit
             j == v \div Unit
  <2>1. Unit \in Nat \ {0} /\ u \in Int /\ v \in Int /\ u % Unit = 0 /\ v % Unit = 0
    BY <1>1, <1>2, LinearAssumption DEF Whole
  <2> HIDE DEF u, v
  <2>2. u = Unit * i /\ v = Unit * j /\ i \in Int /\ j \in Int
    BY <2>1, Multiples
  <2> HIDE DEF i, j
  <2>3. u - v = Unit * (i - j) /\ i - j \in Int
    BY <2>1, <2>2
  <2>4. (u - v) % Unit = 0
    BY <2>1, <2>3, ModOfMultiple
  <2> QED BY <2>4 DEF u, v
<1> QED BY <1>1, <1>2, <1>3, <1>4, <1>5

\* A nonbasic row moves away from its side.
LEMMA RowMoves ==
  ASSUME NEW C, IsFiniteSet(C), NEW row \in WorkRows(C), NEW p, NEW x,
         \A c \in C : p[c] \in Int /\ x[c] \in Int, Holds(row, p),
         \E side \in {row.rl, row.ru} : Finite(side) /\ Activity(row, x) = side
  PROVE  LET s == IF Activity(row, x) = row.rl THEN 1 ELSE -1
             d == Activity(row, p) - Activity(row, x)
         IN  /\ d \in Int /\ s * d >= 0 /\ (row.rl = row.ru => d = 0)
             /\ Activity(row, p) \in Int /\ Activity(row, x) \in Int
<1>1. row.rl \in Int /\ row.ru \in Int /\ row.coef \in [C -> Int]
  BY DEF WorkRows
<1>2. Activity(row, p) \in Int /\ Activity(row, x) \in Int
  <2>1. \A c \in C : p[c] \in Int
    OBVIOUS
  <2>2. \A c \in C : x[c] \in Int
    OBVIOUS
  <2> QED BY <1>1, <2>1, <2>2, ActivityIs
<1>3. PICK side \in {row.rl, row.ru} : Finite(side) /\ Activity(row, x) = side
  OBVIOUS
<1> DEFINE u == Activity(row, p)
           v == Activity(row, x)
           s == IF v = row.rl THEN 1 ELSE -1
<1>4. (Finite(row.rl) => row.rl <= u) /\ (Finite(row.ru) => u <= row.ru)
  BY DEF Holds
<1>5. u \in Int /\ v \in Int
  BY <1>2
<1>6. v = side /\ Finite(v)
  BY <1>3
<1> HIDE DEF u, v
<1>7. s * (u - v) >= 0 /\ (row.rl = row.ru => u - v = 0)
  <2>1. CASE v = row.rl
    BY <1>1, <1>4, <1>5, <1>6, <2>1
  <2>2. CASE v # row.rl
    <3>1. v = row.ru /\ s = -1
      BY <1>6, <2>2
    <3> QED BY <1>1, <1>4, <1>5, <1>6, <2>2, <3>1
  <2> QED BY <2>1, <2>2
<1> QED BY <1>5, <1>7 DEF u, v

\* A Gomory cut holds at every point of the box that satisfies the rows.
LEMMA GomoryFromHolds ==
  ASSUME NEW C, IsFiniteSet(C), NEW rs, IsFiniteSet(DOMAIN rs), NEW lo, NEW up, NEW ints,
         NEW p, PointIn(p, C, lo, up, ints), ValidRows(rs, p, C),
         NEW x, DOMAIN x = C, \A c \in C : x[c] \in Int,
         NEW B, NEW L, AtVertex(rs, C, lo, up, x, B, L),
         NEW k, k \in ints, ~Whole(x[k]), NEW det, NEW z, NEW alpha, DOMAIN alpha = C,
         alpha = [c \in C |-> SumFunction([i \in DOMAIN rs |-> z[i] * rs[i].coef[c]])],
         Tableau(rs, C, B, L, k, det, z, alpha)
  PROVE  LET cut == GomoryFrom(rs, x, lo, up, ints, B, L, k, det, z)
         IN  cut \in WorkRows(C) /\ Holds(cut, p)
<1> DEFINE N == C \ B
           R == DOMAIN rs \ L
           one == det * Unit
           r == (x[k] * det) % one
           sign == [c \in N |-> IF x[c] = lo[c] THEN 1 ELSE -1]
           rowSign == [i \in R |-> IF Activity(rs[i], x) = rs[i].rl THEN 1 ELSE -1]
           pi == [c \in N |-> IF lo[c] = up[c] THEN 0
                              ELSE GomoryPi(sign[c] * alpha[c], c \in ints /\ Whole(x[c]), det, r)]
           rowPi == [i \in R |-> IF rs[i].rl = rs[i].ru THEN 0
                                 ELSE GomoryPi(-rowSign[i] * z[i], FALSE, det, r)]
           gamma == [c \in C |-> (IF c \in N THEN sign[c] * pi[c] ELSE 0)
                                 + SumFunction([i \in R |-> rowSign[i] * rowPi[i] * rs[i].coef[c]])]
           beta == r * (det * Unit - r) * Unit
                   + SumFunction([c \in N |-> sign[c] * pi[c] * x[c]])
                   + SumFunction([i \in R |-> rowSign[i] * rowPi[i] * Activity(rs[i], x)])
           cm == [c \in N |-> sign[c] * pi[c]]
           rm == [i \in R |-> rowSign[i] * rowPi[i]]
           fx == [c \in N |-> cm[c] * x[c]]
           fp == [c \in N |-> cm[c] * p[c]]
           fd == [c \in N |-> cm[c] * (p[c] - x[c])]
           act(q) == [i \in R |-> Activity(rs[i], q)]
           ax == [i \in R |-> Activity(rs[i], x)]
           ap == [i \in R |-> Activity(rs[i], p)]
           gx == [i \in R |-> rm[i] * ax[i]]
           gp == [i \in R |-> rm[i] * ap[i]]
           gd == [i \in R |-> rm[i] * (ap[i] - ax[i])]
           cu == [c \in N |-> alpha[c] * (p[c] - x[c])]
           ru == [i \in R |-> -(z[i] * (ap[i] - ax[i]))]
           coef == [c \in C |-> -gamma[c]]
<1>1. GomoryFrom(rs, x, lo, up, ints, B, L, k, det, z) = Cut(coef, -beta, r * (det * Unit - r))
  BY Zenon DEF GomoryFrom
<1>2. Unit \in Nat \ {0} /\ \A c \in C : p[c] \in Int /\ x[c] \in Int
  BY LinearAssumption DEF PointIn
<1>3. /\ B \in SUBSET C /\ k \in B /\ k \in C /\ det \in Nat \ {0}
      /\ \A i \in DOMAIN rs : z[i] \in Int
      /\ Combination(alpha, z, rs, C, DOMAIN rs)
  BY DEF Tableau
<1>4. \A i \in DOMAIN rs : rs[i] \in WorkRows(C) /\ Holds(rs[i], p) /\ rs[i].coef \in [C -> Int]
  BY DEF ValidRows, WorkRows
<1>5. IsFiniteSet(N) /\ IsFiniteSet(R) /\ N \in SUBSET C
  BY FS_Subset
<1>6. \A c \in C : alpha[c] \in Int
  <2> DEFINE q == [c \in C |-> 0]
             g == [i \in DOMAIN rs |-> z[i] * Activity(rs[i], q)]
  <2>1. Combined(C, DOMAIN rs, rs, z, alpha, q, g)
    BY <1>3, <1>4 DEF Combined
  <2> HIDE DEF q, g
  <2> QED BY <2>1, CombinationIs
<1>7. one \in Nat \ {0}
  <2>1. det * Unit \in Nat \ {0}
    BY <1>2, <1>3
  <2> QED BY <2>1
<1>8. r \in 1 .. one - 1 /\ r \in Int
  <2> DEFINE v == x[k]
             q == (v * det) \div one
  <2>1. v \in Int /\ v % Unit # 0
    BY <1>3 DEF Whole
  <2>2. v * det \in Int
    BY <1>3, <2>1
  <2> HIDE DEF v, one
  <2>3. r \in 0 .. one - 1 /\ q \in Int /\ v * det = one * q + r
    BY <1>7, <2>2, DivMod DEF v
  <2>4. r # 0
    <3> SUFFICES ASSUME r = 0 PROVE FALSE
      OBVIOUS
    <3>1. v * det = one * q
      BY <1>7, <2>3
    <3> HIDE DEF q, r
    <3>2. v * det = (Unit * q) * det
      BY <1>2, <1>3, <2>3, <3>1 DEF one
    <3>3. v = Unit * q
      <4> DEFINE w == Unit * q
      <4>1. w \in Int /\ v * det = w * det
        BY <1>2, <2>3, <3>2
      <4> HIDE DEF w
      <4>2. v = w
        <5>1. CASE v < w
          <6>1. (w - v) * det > 0
            BY <1>3, <2>1, <4>1, <5>1
          <6> QED BY <1>3, <2>1, <4>1, <6>1
        <5>2. CASE v > w
          <6>1. (v - w) * det > 0
            BY <1>3, <2>1, <4>1, <5>2
          <6> QED BY <1>3, <2>1, <4>1, <6>1
        <5> QED BY <2>1, <4>1, <5>1, <5>2
      <4> QED BY <4>2 DEF w
    <3> QED BY <1>2, <2>1, <2>3, <3>3, ModOfMultiple
  <2> HIDE DEF r, q
  <2> QED BY <1>7, <2>3, <2>4
<1> HIDE DEF r
<1>9. ASSUME NEW c \in N
      PROVE  /\ cm[c] \in Int /\ fd[c] \in Int /\ cu[c] \in Int
             /\ GomorySplit(fd[c], cu[c], one, r)
  <2> DEFINE s == sign[c]
             d == p[c] - x[c]
             fixed == lo[c] = up[c]
             asInt == c \in ints /\ Whole(x[c])
             e == sign[c] * alpha[c]
             a == alpha[c]
  <2>1. x[c] \in {lo[c], up[c]} /\ c \in C
    BY DEF AtVertex
  <2>2. /\ d \in Int /\ s * d >= 0 /\ s \in {1, -1}
        /\ fixed => d = 0
        /\ asInt => d % Unit = 0
    BY <2>1, ColumnMoves
  <2>3. fixed \in BOOLEAN /\ asInt \in BOOLEAN
    BY Zenon DEF Whole
  <2>4. a \in Int /\ e = s * a
    BY <1>6
  <2>5. pi[c] = IF fixed THEN 0 ELSE GomoryPi(e, asInt, det, r)
    OBVIOUS
  <2>6. r \in 1 .. det * Unit - 1
    BY <1>8
  <2>7. cm[c] = s * pi[c] /\ fd[c] = (s * pi[c]) * d /\ cu[c] = a * d
    OBVIOUS
  <2> HIDE DEF s, d, fixed, asInt, e, a, pi, cm, fd, cu, one
  <2>8. pi[c] \in Int /\ GomorySplit((s * pi[c]) * d, a * d, det * Unit, r)
    BY <1>3, <2>2, <2>3, <2>4, <2>5, <2>6, MoveTerm
  <2>9. cm[c] \in Int /\ cu[c] \in Int
    BY <2>2, <2>4, <2>7, <2>8
  <2>10. fd[c] \in Int
    BY <2>2, <2>7, <2>9
  <2> QED BY <2>7, <2>8, <2>9, <2>10 DEF one
<1>10. ASSUME NEW i \in R
       PROVE  /\ ax[i] \in Int /\ ap[i] \in Int /\ rm[i] \in Int /\ gd[i] \in Int /\ ru[i] \in Int
              /\ GomorySplit(gd[i], ru[i], one, r)
  <2> DEFINE s == rowSign[i]
             d == ap[i] - ax[i]
             fixed == rs[i].rl = rs[i].ru
             e == -rowSign[i] * z[i]
             a == -z[i]
  <2>1. /\ rs[i] \in WorkRows(C) /\ Holds(rs[i], p)
        /\ \E side \in {rs[i].rl, rs[i].ru} : Finite(side) /\ Activity(rs[i], x) = side
    BY <1>4 DEF AtVertex
  <2>2. /\ ax[i] \in Int /\ ap[i] \in Int
        /\ d \in Int /\ s * d >= 0 /\ s \in {1, -1} /\ (fixed => d = 0)
    BY <1>2, <2>1, RowMoves
  <2>3. fixed \in BOOLEAN
    OBVIOUS
  <2>4. a \in Int /\ e = s * a
    <3> DEFINE b == z[i]
    <3>1. b \in Int
      BY <1>3
    <3>2. s \in {1, -1}
      BY <2>2
    <3>3. e = -(s * b) /\ a = -b
      OBVIOUS
    <3> HIDE DEF b, s, e, a
    <3> QED BY <3>1, <3>2, <3>3
  <2>5. rowPi[i] = IF fixed THEN 0 ELSE GomoryPi(e, FALSE, det, r)
    OBVIOUS
  <2>6. r \in 1 .. det * Unit - 1
    BY <1>8
  <2>7. rm[i] = s * rowPi[i] /\ gd[i] = (s * rowPi[i]) * d /\ ru[i] = -(z[i] * d) /\ a = -z[i]
    OBVIOUS
  <2> DEFINE asInt == FALSE
  <2>8. asInt \in BOOLEAN /\ (asInt => d % Unit = 0)
    OBVIOUS
  <2>9. rowPi[i] = IF fixed THEN 0 ELSE GomoryPi(e, asInt, det, r)
    BY <2>5
  <2> HIDE DEF s, d, fixed, e, a, asInt, rowPi, rm, gd, ru, one, ap, ax
  <2>10. rowPi[i] \in Int /\ GomorySplit((s * rowPi[i]) * d, a * d, det * Unit, r)
    BY <1>3, <2>2, <2>3, <2>4, <2>6, <2>8, <2>9, MoveTerm
  <2>11. rm[i] \in Int
    BY <2>2, <2>7, <2>10
  <2>12. gd[i] \in Int
    BY <2>2, <2>7, <2>11
  <2>13. ru[i] = a * d /\ ru[i] \in Int
    <3> DEFINE b == z[i]
    <3>1. b \in Int /\ d \in Int /\ ru[i] = -(b * d) /\ a = -b
      BY <1>3, <2>2, <2>7
    <3> HIDE DEF b
    <3>2. (-b) * d = -(b * d) /\ -(b * d) \in Int
      BY <3>1
    <3> QED BY <3>1, <3>2
  <2> QED BY <2>2, <2>7, <2>10, <2>11, <2>12, <2>13 DEF one
\* The tableau row, rounded.
<1>11. /\ Total(cu, N) \in Int /\ Total(ru, R) \in Int
       /\ Total(cu, N) + Total(ru, R) = det * x[k] - det * p[k]
  <2>1. \A c \in C \ B : cu[c] = alpha[c] * (p[c] - x[c])
    OBVIOUS
  <2>2. \A i \in DOMAIN rs \ L : ru[i] = -(z[i] * (Activity(rs[i], p) - Activity(rs[i], x)))
    OBVIOUS
  <2>3. \A i \in DOMAIN rs : rs[i].coef \in [C -> Int]
    BY <1>4
  <2> HIDE DEF cu, ru
  <2>4. TableauMoves(rs, C, p, x, B, L, k, det, z, alpha, cu, ru)
    BY <1>2, <2>1, <2>2, <2>3 DEF TableauMoves
  <2>5. IsFiniteSet(C) /\ IsFiniteSet(DOMAIN rs)
    OBVIOUS
  <2>6. Total(cu, C \ B) \in Int
    BY <2>4, TableauRow
  <2>7. Total(ru, DOMAIN rs \ L) \in Int
    BY <2>4, TableauRow
  <2>8. Total(cu, C \ B) + Total(ru, DOMAIN rs \ L) = det * x[k] - det * p[k]
    BY <2>4, TableauRow
  <2> QED BY <2>6, <2>7, <2>8
<1> DEFINE worth == Total(fd, N) + Total(gd, R)
<1>12. Total(fd, N) \in Int /\ Total(gd, R) \in Int /\ worth >= Unit * (r * (one - r))
  <2> DEFINE u == Total(cu, N) + Total(ru, R)
             v == x[k]
             j == p[k] \div Unit
  <2>1. \A c \in N : fd[c] \in Int /\ cu[c] \in Int /\ GomorySplit(fd[c], cu[c], one, r)
    BY <1>9
  <2>2. \A i \in R : gd[i] \in Int /\ ru[i] \in Int /\ GomorySplit(gd[i], ru[i], one, r)
    BY <1>10
  <2>3. one \in Int /\ r \in Int
    BY <1>7, <1>8
  <2> HIDE DEF fd, gd, cu, ru, one, N, R
  <2>4. \A c \in N : fd[c] \in Int
    BY <2>1
  <2>5. \A i \in R : gd[i] \in Int
    BY <2>2
  <2>6. Total(fd, N) \in Int /\ Total(gd, R) \in Int
    BY <1>5, <2>4, <2>5, TotalInt
  <2>7. GomorySplit(Total(fd, N), Total(cu, N), one, r)
    BY <1>5, <2>1, <2>3, SplitTotal
  <2>8. GomorySplit(Total(gd, R), Total(ru, R), one, r)
    BY <1>5, <2>2, <2>3, SplitTotal
  <2>9. GomorySplit(worth, u, one, r)
    BY <1>11, <2>3, <2>6, <2>7, <2>8, SplitAdd
  <2>10. p[k] = Unit * j /\ j \in Int
    <3>1. p[k] \in Int /\ p[k] % Unit = 0
      BY <1>3 DEF PointIn
    <3> QED BY <1>2, <3>1, Multiples
  <2>11. v \in Int /\ v * det \in Int /\ (v * det) % one = r
    BY <1>2, <1>3 DEF r
  <2>12. u = v * det - one * j
    <3>1. u = det * v - det * p[k]
      BY <1>11
    <3> HIDE DEF u, v, j
    <3>2. det * (Unit * j) = (det * Unit) * j /\ det * v = v * det
      BY <1>2, <1>3, <2>10, <2>11
    <3> QED BY <2>10, <3>1, <3>2 DEF one
  <2>13. worth \in Int /\ u \in Int
    BY <1>11, <2>6
  <2> HIDE DEF worth, u, v, j
  <2>14. worth >= Unit * (r * (one - r))
    BY <1>7, <1>8, <2>9, <2>10, <2>11, <2>12, <2>13, GomoryRounds
  <2> QED BY <2>6, <2>14
\* Substituted back into the columns.
<1>13. Weighted(C, N, R, rs, cm, rm, gamma)
  <2>1. \A c \in C : gamma[c] = (IF c \in N THEN cm[c] ELSE 0)
                                + Total([i \in R |-> rm[i] * rs[i].coef[c]], R)
    <3> SUFFICES ASSUME NEW c \in C
                 PROVE  gamma[c] = (IF c \in N THEN cm[c] ELSE 0)
                                   + Total([i \in R |-> rm[i] * rs[i].coef[c]], R)
      OBVIOUS
    <3> DEFINE f == [i \in R |-> rowSign[i] * rowPi[i] * rs[i].coef[c]]
               g == [i \in R |-> rm[i] * rs[i].coef[c]]
    <3>1. f = g /\ DOMAIN f = R
      OBVIOUS
    <3>2. gamma[c] = (IF c \in N THEN cm[c] ELSE 0) + SumFunction(f)
      OBVIOUS
    <3> HIDE DEF f, g, gamma, cm
    <3>3. SumFunction(f) = Total(g, R)
      BY <3>1, SumIsTotal
    <3> QED BY <3>2, <3>3 DEF g
  <2>2. \A c \in N : cm[c] \in Int
    BY <1>9
  <2>3. \A i \in R : rm[i] \in Int /\ rs[i].coef \in [C -> Int]
    BY <1>4, <1>10
  <2> HIDE DEF gamma, cm, rm
  <2> QED BY <1>5, <2>1, <2>2, <2>3 DEF Weighted
<1>14. /\ \A c \in C : gamma[c] \in Int
       /\ Total(Products(gamma, p, C), C) = Total(fp, N) + Total(gp, R)
  <2>1. fp = [c \in N |-> cm[c] * p[c]] /\ gp = [i \in R |-> rm[i] * Activity(rs[i], p)]
    OBVIOUS
  <2>2. \A c \in C : p[c] \in Int
    BY <1>2
  <2> HIDE DEF fp, gp, gamma, cm, rm, N, R
  <2>3. WeightsAt(C, N, R, rs, cm, rm, gamma, p, fp, gp)
    BY <1>13, <2>1, <2>2 DEF WeightsAt
  <2>4. IsFiniteSet(C) /\ IsFiniteSet(R)
    BY <1>5
  <2>5. \A c \in C : gamma[c] \in Int
    BY <2>3, <2>4, WeightedIs
  <2>6. Total(Products(gamma, p, C), C) = Total(fp, N) + Total(gp, R)
    BY ONLY <2>3, <2>4, WeightedIs
  <2> QED BY <2>5, <2>6
<1>15. /\ Total(fx, N) \in Int /\ Total(fd, N) \in Int
       /\ Total(fp, N) = Total(fx, N) + Total(fd, N)
  <2>1. \A c \in N : cm[c] \in Int /\ x[c] \in Int /\ p[c] \in Int
    BY <1>2, <1>9
  <2>2. Worths(N, cm, x, p, fx, fp, fd)
    <3> HIDE DEF cm, N
    <3> QED BY <2>1 DEF Worths
  <2> HIDE DEF cm, N, fx, fp, fd
  <2> QED BY <1>5, <2>2, WorthMoves
<1>16. /\ Total(gx, R) \in Int /\ Total(gd, R) \in Int
       /\ Total(gp, R) = Total(gx, R) + Total(gd, R)
  <2>1. \A i \in R : rm[i] \in Int /\ ax[i] \in Int /\ ap[i] \in Int
    BY <1>10
  <2>2. Worths(R, rm, ax, ap, gx, gp, gd)
    <3> HIDE DEF rm, ax, ap, R
    <3> QED BY <2>1 DEF Worths
  <2> HIDE DEF rm, ax, ap, R, gx, gp, gd
  <2> QED BY <1>5, <2>2, WorthMoves
<1>17. beta = r * (one - r) * Unit + Total(fx, N) + Total(gx, R)
  <2> DEFINE f == [c \in N |-> sign[c] * pi[c] * x[c]]
             g == [i \in R |-> rowSign[i] * rowPi[i] * Activity(rs[i], x)]
  <2>1. f = fx /\ DOMAIN f = N
    OBVIOUS
  <2>2. g = gx /\ DOMAIN g = R
    OBVIOUS
  <2>3. beta = r * (one - r) * Unit + SumFunction(f) + SumFunction(g)
    OBVIOUS
  <2> HIDE DEF f, g, beta, fx, gx
  <2>4. SumFunction(f) = Total(fx, N) /\ SumFunction(g) = Total(gx, R)
    BY <2>1, <2>2, SumIsTotal
  <2> QED BY <2>3, <2>4
<1> DEFINE total == Total(Products(gamma, p, C), C)
<1>18. beta \in Int /\ total \in Int /\ beta <= total
  <2> DEFINE w == r * (one - r)
             a == Total(fx, N)
             b == Total(gx, R)
             d == Total(fd, N)
             e == Total(gd, R)
  <2>1. w \in Int
    BY <1>7, <1>8
  <2>2. a \in Int /\ b \in Int /\ d \in Int /\ e \in Int
    BY <1>15, <1>16
  <2>3. total = (a + d) + (b + e) /\ d + e >= Unit * w
    BY <1>12, <1>14, <1>15, <1>16
  <2>4. beta = w * Unit + a + b
    BY <1>17
  <2> HIDE DEF total, beta, a, b, d, e, w
  <2>5. w * Unit = Unit * w /\ w * Unit \in Int
    BY <1>2, <2>1
  <2> QED BY <2>2, <2>3, <2>4, <2>5
<1>19. coef \in [C -> Int] /\ Total(Products(coef, p, C), C) = (-1) * total
  <2> DEFINE f == Products(gamma, p, C)
             g == Products(coef, p, C)
  <2>1. \A c \in C : gamma[c] \in Int /\ coef[c] = -gamma[c] /\ p[c] \in Int
    BY <1>2, <1>14
  <2> HIDE DEF gamma
  <2>2. coef \in [C -> Int]
    BY <2>1
  <2> HIDE DEF coef
  <2>3. \A c \in C : f[c] \in Int /\ g[c] = (-1) * f[c]
    <3> SUFFICES ASSUME NEW c \in C PROVE f[c] \in Int /\ g[c] = (-1) * f[c]
      OBVIOUS
    <3> DEFINE u == gamma[c]
               v == p[c]
    <3>1. u \in Int /\ v \in Int /\ f[c] = u * v /\ g[c] = (-u) * v
      BY <2>1 DEF Products
    <3> HIDE DEF u, v, f, g
    <3>2. (-u) * v = (-1) * (u * v) /\ u * v \in Int
      BY <3>1
    <3> QED BY <3>1, <3>2
  <2> HIDE DEF f, g
  <2>4. Total(g, C) = (-1) * Total(f, C)
    BY <2>3, -1 \in Int, TotalScale
  <2> QED BY <2>2, <2>4 DEF f, g
<1>20. r * (det * Unit - r) \in Nat \ {0}
  <2> DEFINE w == det * Unit - r
  <2>1. w \in Nat \ {0} /\ r \in Nat \ {0}
    BY <1>7, <1>8
  <2> HIDE DEF w
  <2>2. r * w \in Nat \ {0}
    BY <2>1
  <2> QED BY <2>2 DEF w
<1> DEFINE den == r * (det * Unit - r)
<1> HIDE DEF coef, beta, total, den
<1>21. -beta \in Int /\ Total(Products(coef, p, C), C) <= -beta
  BY <1>18, <1>19
<1>22. den \in Nat \ {0} /\ \A c \in C : p[c] \in Int
  BY <1>2, <1>20 DEF den
<1>23. Cut(coef, -beta, den) \in WorkRows(C) /\ Holds(Cut(coef, -beta, den), p)
  BY <1>19, <1>21, <1>22, CutHolds
<1> QED BY <1>1, <1>23 DEF den

\* What Multipliers finds is a row of the tableau.
LEMMA MultipliersIs ==
  ASSUME NEW C, NEW rs, IsFiniteSet(DOMAIN rs), \A i \in DOMAIN rs : rs[i].coef \in [C -> Int],
         NEW B \in SUBSET C, NEW L, NEW k \in B, NEW q \in Multipliers(rs, B, L, k), NEW alpha,
         alpha = [c \in C |-> SumFunction([i \in DOMAIN rs |-> q.z[i] * rs[i].coef[c]])]
  PROVE  q.det \in Nat \ {0} /\ Tableau(rs, C, B, L, k, q.det, q.z, alpha)
<1> DEFINE R == DOMAIN rs
           column(z, c) == SumFunction([i \in DOMAIN z |-> z[i] * rs[i].coef[c]])
           full(t) == [i \in R |-> IF i \in L THEN 0 ELSE t[2][i]]
<1>1. PICK t \in (1 .. MaxDet) \X [R \ L -> -MaxDet .. MaxDet] :
        /\ q = [det |-> t[1], z |-> full(t)]
        /\ \A c \in B : column(t[2], c) = IF c = k THEN t[1] ELSE 0
  BY Zenon DEF Multipliers
<1> DEFINE w == t[2]
           z == full(t)
<1>2. q.det = t[1] /\ q.z = z /\ t[1] \in Nat \ {0}
  <2>1. MaxDet \in Nat
    BY CutsAssumption
  <2>2. t[1] \in 1 .. MaxDet
    OBVIOUS
  <2> QED BY <1>1, <2>1, <2>2
<1>3. w \in [R \ L -> Int] /\ DOMAIN w = R \ L
  <2>1. MaxDet \in Nat
    BY CutsAssumption
  <2>2. w \in [R \ L -> -MaxDet .. MaxDet]
    OBVIOUS
  <2>3. -MaxDet .. MaxDet \in SUBSET Int
    BY <2>1
  <2> HIDE DEF w
  <2> QED BY <2>2, <2>3
<1>4. \A i \in R : z[i] \in Int /\ (i \in L => z[i] = 0) /\ (i \notin L => z[i] = w[i])
  <2> SUFFICES ASSUME NEW i \in R
               PROVE  z[i] \in Int /\ (i \in L => z[i] = 0) /\ (i \notin L => z[i] = w[i])
    OBVIOUS
  <2>1. z[i] = IF i \in L THEN 0 ELSE w[i]
    OBVIOUS
  <2>2. i \notin L => w[i] \in Int
    BY <1>3
  <2> HIDE DEF z, w
  <2> QED BY <2>1, <2>2
<1> HIDE DEF z, w
<1>5. alpha = [c \in C |-> SumFunction([i \in R |-> z[i] * rs[i].coef[c]])]
  BY <1>2
<1>6. \A c \in C : alpha[c] = Total([i \in R |-> z[i] * rs[i].coef[c]], R)
  <2> SUFFICES ASSUME NEW c \in C
               PROVE  alpha[c] = Total([i \in R |-> z[i] * rs[i].coef[c]], R)
    OBVIOUS
  <2> DEFINE f == [i \in R |-> z[i] * rs[i].coef[c]]
  <2>1. alpha[c] = SumFunction(f) /\ DOMAIN f = R
    BY <1>5
  <2> HIDE DEF f
  <2>2. SumFunction(f) = Total(f, R)
    BY <2>1, SumIsTotal
  <2> QED BY <2>1, <2>2 DEF f
<1>7. ASSUME NEW c \in B PROVE alpha[c] = IF c = k THEN t[1] ELSE 0
  <2> DEFINE f == [i \in R |-> z[i] * rs[i].coef[c]]
             g == [i \in R \ L |-> w[i] * rs[i].coef[c]]
  <2>1. alpha[c] = Total(f, R)
    BY <1>6
  <2>2. column(w, c) = SumFunction(g) /\ DOMAIN g = R \ L
    BY <1>3
  <2>3. column(w, c) = IF c = k THEN t[1] ELSE 0
    BY <1>1 DEF w
  <2>4. \A i \in R : f[i] \in Int
    BY <1>4
  <2>5. \A i \in R \ (R \ L) : f[i] = 0
    <3> SUFFICES ASSUME NEW i \in R, i \in L PROVE f[i] = 0
      OBVIOUS
    <3>1. z[i] = 0 /\ rs[i].coef[c] \in Int
      BY <1>4
    <3> QED BY <3>1
  <2>6. \A i \in R \ L : f[i] \in Int /\ g[i] = f[i]
    BY <1>4
  <2>7. R \ L \in SUBSET R /\ IsFiniteSet(R \ L)
    BY FS_Subset
  <2> HIDE DEF f, g, column
  <2>8. Total(f, R) = Total(f, R \ L)
    BY <2>4, <2>5, <2>7, TotalWithin
  <2>9. Total(g, R \ L) = Total(f, R \ L)
    BY <2>6, <2>7, TotalSame
  <2>10. SumFunction(g) = Total(g, R \ L)
    BY <2>2, SumIsTotal
  <2> QED BY <2>1, <2>2, <2>3, <2>8, <2>9, <2>10
<1>8. Combination(alpha, z, rs, C, R)
  BY <1>6 DEF Combination
<1>9. Tableau(rs, C, B, L, k, t[1], z, alpha)
  BY <1>2, <1>4, <1>7, <1>8 DEF Tableau
<1> QED BY <1>2, <1>9

\* So says every Gomory cut, whatever basis of the vertex it is read from.
LEMMA GomoryHolds ==
  ASSUME NEW C, IsFiniteSet(C), NEW rs, IsFiniteSet(DOMAIN rs), NEW lo, NEW up, NEW ints,
         NEW p, PointIn(p, C, lo, up, ints), ValidRows(rs, p, C),
         NEW x, DOMAIN x = C, \A c \in C : x[c] \in Int,
         NEW cut \in GomoryCuts(rs, x, lo, up, ints)
  PROVE  cut \in WorkRows(C) /\ Holds(cut, p)
<1> DEFINE atBound == {c \in DOMAIN x : x[c] \in {lo[c], up[c]}}
           tight == {i \in DOMAIN rs : \E side \in {rs[i].rl, rs[i].ru} :
                                         Finite(side) /\ Activity(rs[i], x) = side}
<1>1. PICK b \in (SUBSET DOMAIN x) \X (SUBSET DOMAIN rs), k \in ints :
        /\ k \in b[1]
        /\ DOMAIN x \ b[1] \subseteq atBound /\ DOMAIN rs \ b[2] \subseteq tight
        /\ ~Whole(x[k])
        /\ LET found == Multipliers(rs, b[1], b[2], k)
               t == CHOOSE q \in found : \A o \in found : q.det <= o.det
           IN  cut \in IF found = {} THEN {}
                       ELSE {GomoryFrom(rs, x, lo, up, ints, b[1], b[2], k, t.det, t.z)}
  <2> DEFINE bases == {b \in (SUBSET DOMAIN x) \X (SUBSET DOMAIN rs) :
                         /\ Cardinality(b[1]) + Cardinality(b[2]) = Cardinality(DOMAIN rs)
                         /\ DOMAIN x \ b[1] \subseteq atBound /\ DOMAIN rs \ b[2] \subseteq tight}
             from(b, k) == LET found == Multipliers(rs, b[1], b[2], k)
                               t == CHOOSE q \in found : \A o \in found : q.det <= o.det
                           IN  IF found = {} THEN {}
                               ELSE {GomoryFrom(rs, x, lo, up, ints, b[1], b[2], k, t.det, t.z)}
             fractional(b) == {c \in b[1] \cap ints : ~Whole(x[c])}
  <2>1. GomoryCuts(rs, x, lo, up, ints) =
          UNION {UNION {from(b, k) : k \in fractional(b)} : b \in bases}
    BY Zenon DEF GomoryCuts
  <2> HIDE DEF from, fractional, bases
  <2>2. PICK b \in bases, k \in ints : k \in fractional(b) /\ cut \in from(b, k)
    <3>1. PICK b \in bases : cut \in UNION {from(b, k) : k \in fractional(b)}
      BY <2>1
    <3>2. PICK k \in fractional(b) : cut \in from(b, k)
      BY <3>1
    <3>3. k \in ints
      BY DEF fractional
    <3> QED BY <3>2, <3>3
  <2>3. k \in b[1] /\ k \in ints /\ ~Whole(x[k])
    BY <2>2 DEF fractional
  <2>4. /\ b \in (SUBSET DOMAIN x) \X (SUBSET DOMAIN rs)
        /\ DOMAIN x \ b[1] \subseteq atBound /\ DOMAIN rs \ b[2] \subseteq tight
    BY Zenon DEF bases
  <2> HIDE DEF atBound, tight
  <2> QED BY <2>2, <2>3, <2>4, Zenon DEF from
<1> DEFINE B == b[1]
           L == b[2]
           found == Multipliers(rs, B, L, k)
           t == CHOOSE q \in found : \A o \in found : q.det <= o.det
<1>2. found # {} /\ cut = GomoryFrom(rs, x, lo, up, ints, B, L, k, t.det, t.z)
  BY <1>1, Zenon
<1>3. B \in SUBSET C /\ k \in B /\ k \in ints /\ ~Whole(x[k])
  BY <1>1
<1>4. AtVertex(rs, C, lo, up, x, B, L)
  BY <1>1 DEF AtVertex
<1>5. \A i \in DOMAIN rs : rs[i].coef \in [C -> Int]
  BY DEF ValidRows, WorkRows
<1> HIDE DEF B, L
<1> DEFINE alphaOf(q) == [c \in C |-> SumFunction([i \in DOMAIN rs |-> q.z[i] * rs[i].coef[c]])]
<1>6. \A q \in found : q.det \in Nat \ {0} /\ Tableau(rs, C, B, L, k, q.det, q.z, alphaOf(q))
  <2> SUFFICES ASSUME NEW q \in found
               PROVE  q.det \in Nat \ {0} /\ Tableau(rs, C, B, L, k, q.det, q.z, alphaOf(q))
    OBVIOUS
  <2> DEFINE alpha == alphaOf(q)
  <2>1. alpha = [c \in C |-> SumFunction([i \in DOMAIN rs |-> q.z[i] * rs[i].coef[c]])]
    OBVIOUS
  <2> HIDE DEF alpha
  <2>2. q.det \in Nat \ {0} /\ Tableau(rs, C, B, L, k, q.det, q.z, alpha)
    BY <1>3, <1>5, <2>1, MultipliersIs
  <2> QED BY <2>2 DEF alpha
<1>7. t \in found
  <2> DEFINE dets == {q.det : q \in found}
  <2> HIDE DEF found
  <2>1. dets \in SUBSET Int /\ dets # {} /\ 0 \in Int /\ \A d \in dets : 0 <= d
    <3>1. \A q \in found : q.det \in Nat
      BY <1>6
    <3> QED BY <1>2, <3>1
  <2>2. \E d \in dets : \A e \in dets : d <= e
    <3> HIDE DEF dets
    <3> QED BY <2>1, LeastInteger
  <2>3. \E q \in found : \A o \in found : q.det <= o.det
    BY <2>2
  <2> QED BY <2>3, Zenon
<1> HIDE DEF t, found
<1> DEFINE alpha == alphaOf(t)
           det == t.det
           z == t.z
<1>8. Tableau(rs, C, B, L, k, det, z, alpha) /\ DOMAIN alpha = C
      /\ alpha = [c \in C |-> SumFunction([i \in DOMAIN rs |-> z[i] * rs[i].coef[c]])]
  BY <1>6, <1>7
<1>9. cut = GomoryFrom(rs, x, lo, up, ints, B, L, k, det, z)
  BY <1>2
<1> HIDE DEF alpha, det, z
<1> QED BY <1>3, <1>4, <1>8, <1>9, GomoryFromHolds

-----------------------------------------------------------------------------
\* The rows of the working model

\* The rows of the working model hold at every feasible point; before the first node the
\* working bounds are numbers.
RowsInv ==
  /\ model \in Models /\ BoundsInv
  /\ \A p \in points : ValidRows(rows, p, Cols(model))
  /\ AtRoot => \A p \in points, c \in Cols(model) : box.lo[c] \in Int /\ box.up[c] \in Int

\* The columns of a model are the numbers 1 .. n.
LEMMA ColsAre ==
  ASSUME NEW m \in Models
  PROVE  /\ Cols(m) \in SUBSET Int /\ IsFiniteSet(Cols(m)) /\ Rows(m) = 1 .. Len(m.rl)
         /\ DOMAIN m.ru = Rows(m) /\ Len(m.rl) \in Nat
         /\ \A r \in Rows(m) : m.coef[r] \in [Cols(m) -> Int] /\ m.rl[r] \in Int /\ m.ru[r] \in Int
         /\ \A c \in Cols(m) : m.lo[c] \in Int /\ m.up[c] \in Int
<1>1. WellFormed(m)
  BY CutRowsAssumption
<1>2. Len(m.cost) \in Nat /\ Cols(m) = 1 .. Len(m.cost)
  BY <1>1, LenProperties DEF WellFormed, Cols
<1>3. IsFiniteSet(Cols(m)) /\ Cols(m) \in SUBSET Int
  BY <1>2, FS_Interval
<1>4. Len(m.rl) \in Nat /\ Rows(m) = 1 .. Len(m.rl) /\ DOMAIN m.ru = 1 .. Len(m.rl)
  BY <1>1, LenProperties DEF WellFormed, Rows
<1>5. \A r \in Rows(m) : m.rl[r] \in Int /\ m.ru[r] \in Int
  <2>1. m.rl \in [1 .. Len(m.rl) -> Int] /\ m.ru \in [1 .. Len(m.ru) -> Int]
    BY <1>1, LenProperties DEF WellFormed
  <2> QED BY <1>1, <1>4, <2>1 DEF WellFormed
<1>6. m.coef \in [Rows(m) -> [Cols(m) -> Int]] /\ m.lo \in [Cols(m) -> Int]
        /\ m.up \in [Cols(m) -> Int]
  BY <1>1 DEF WellFormed
<1> QED BY <1>3, <1>4, <1>5, <1>6

\* A feasible point is within any bounds that hold at the feasible points.
LEMMA FeasibleIsIn ==
  ASSUME model \in Models, points = FeasiblePoints(model), NEW p \in points,
         NEW b, HoldsEverywhere(b), \A c \in Cols(model) : b.lo[c] \in Int /\ b.up[c] \in Int
  PROVE  PointIn(p, Cols(model), b.lo, b.up, model.int)
<1>1. Reach \in Nat /\ p \in [Cols(model) -> -Reach .. Reach] /\ Feasible(model, p)
  BY CutRowsAssumption DEF FeasiblePoints, Points
<1>2. \A c \in Cols(model) : p[c] \in Int
  BY <1>1
<1>3. \A c \in Cols(model) : b.lo[c] <= p[c] /\ p[c] <= b.up[c]
  BY DEF HoldsEverywhere
<1>4. \A c \in Cols(model) : c \in model.int => p[c] % Unit = 0
  BY <1>1 DEF Feasible
<1> QED BY <1>2, <1>3, <1>4 DEF PointIn

\* The rows of the model, with the sides of the rows of integer columns rounded, hold at a
\* feasible point.
LEMMA FirstRowsHold ==
  ASSUME model \in Models, points = FeasiblePoints(model), NEW p \in points
  PROVE  ValidRows(RowsOf(TightenIntegralRows(model)), p, Cols(model))
<1> DEFINE m == model
           C == Cols(m)
           eligible(r) == Support(ModelRow(m, r)) # {} /\ Support(ModelRow(m, r)) \subseteq m.int
           lower == [r \in DOMAIN m.rl |-> IF eligible(r) THEN RoundUp(m.rl[r]) ELSE m.rl[r]]
           upper == [r \in DOMAIN m.ru |-> IF eligible(r) THEN RoundDown(m.ru[r]) ELSE m.ru[r]]
           t == [m EXCEPT !.rl = lower, !.ru = upper]
<1>1. TightenIntegralRows(m) = t
  BY Zenon DEF TightenIntegralRows
<1>2. /\ {"coef", "rl", "ru"} \subseteq DOMAIN m /\ IsFiniteSet(C) /\ DOMAIN m.ru = Rows(m)
      /\ \A r \in Rows(m) : m.coef[r] \in [C -> Int] /\ m.rl[r] \in Int /\ m.ru[r] \in Int
      /\ \A c \in C : m.lo[c] \in Int /\ m.up[c] \in Int
  BY ColsAre, CutRowsAssumption DEF WellFormed
<1>3. \A r \in Rows(m) : /\ lower[r] = IF eligible(r) THEN RoundUp(m.rl[r]) ELSE m.rl[r]
                         /\ upper[r] = IF eligible(r) THEN RoundDown(m.ru[r]) ELSE m.ru[r]
  BY <1>2, Zenon DEF Rows
<1>4. DOMAIN lower = Rows(m)
  BY DEF Rows
<1> HIDE DEF lower, upper, eligible
<1>5. t.rl = lower /\ t.ru = upper /\ t.coef = m.coef
  BY <1>2
<1> HIDE DEF t
<1> SUFFICES ASSUME NEW r \in Rows(m)
             PROVE  ModelRow(t, r) \in WorkRows(C) /\ Holds(ModelRow(t, r), p)
  BY <1>1, <1>4, <1>5, Zenon DEF RowsOf, ValidRows
<1> DEFINE row == ModelRow(m, r)
           to == ModelRow(t, r)
<1>6. /\ row \in WorkRows(C) /\ row.coef = m.coef[r] /\ row.rl = m.rl[r] /\ row.ru = m.ru[r]
  BY <1>2 DEF ModelRow, WorkRows
<1>7. Holds(row, p)
  <2>1. m.rl[r] <= Dot(m.coef[r], p, C) /\ Dot(m.coef[r], p, C) <= m.ru[r]
    BY DEF FeasiblePoints, Feasible
  <2>2. DOMAIN m.coef[r] = C
    BY <1>2
  <2>3. Activity(row, p) = Dot(m.coef[r], p, C)
    BY <1>6, <2>2, Zenon DEF Activity
  <2> QED BY <1>6, <2>1, <2>3 DEF Holds
<1>8. /\ to.coef = row.coef /\ to.den = 1
      /\ to.rl = IF eligible(r) THEN RoundUp(row.rl) ELSE row.rl
      /\ to.ru = IF eligible(r) THEN RoundDown(row.ru) ELSE row.ru
      /\ to = [coef |-> to.coef, rl |-> to.rl, ru |-> to.ru, den |-> to.den]
  BY <1>3, <1>5, <1>6 DEF ModelRow
<1>9. PointIn(p, C, m.lo, m.up, m.int)
  <2>1. HoldsEverywhere(Global(m)) /\ Global(m).lo = m.lo /\ Global(m).up = m.up
    BY GlobalHolds DEF Global
  <2> DEFINE b == Global(m)
  <2>2. \A c \in Cols(model) : b.lo[c] \in Int /\ b.up[c] \in Int
    BY <1>2, <2>1
  <2> HIDE DEF b
  <2>3. PointIn(p, Cols(model), b.lo, b.up, model.int)
    BY <2>1, <2>2, FeasibleIsIn DEF b
  <2> QED BY <2>1, <2>3 DEF b
<1>10. CASE eligible(r)
  <2>1. RoundUp(row.rl) \in Int /\ RoundDown(row.ru) \in Int
    <3>1. Unit \in Int /\ row.rl \in Int /\ row.ru \in Int
      BY <1>2, <1>6, LinearAssumption
    <3> QED BY <3>1, LinearAssumption DEF RoundUp, RoundDown
  <2>2. to \in WorkRows(C)
    BY <1>6, <1>8, <1>10, <2>1 DEF WorkRows
  <2>3. Support(row) \subseteq m.int
    BY <1>10 DEF eligible
  <2>4. to.rl = RoundUp(row.rl) /\ to.ru = RoundDown(row.ru)
    BY <1>8, <1>10
  <2> HIDE DEF row, to
  <2>5. Holds(to, p)
    BY <1>2, <1>6, <1>7, <1>8, <1>9, <2>2, <2>3, <2>4, TightenedHolds
  <2> QED BY <2>2, <2>5 DEF to
<1>11. CASE ~eligible(r)
  <2>1. to = row
    BY <1>6, <1>8, <1>11 DEF ModelRow
  <2> QED BY <1>6, <1>7, <2>1
<1> QED BY <1>10, <1>11

\* Whatever the separators find at a point of the node LP holds at every feasible point.
LEMMA CandidatesHold ==
  ASSUME IInv, RowsInv, NEW p \in points, NEW x \in Relaxations, NEW cut \in Candidates(x)
  PROVE  cut \in WorkRows(Cols(model)) /\ Holds(cut, p)
<1> DEFINE C == Cols(model)
           ints == model.int
           local == SeparationBox
           lo == local.lo
           up == local.up
           global == Global(model)
           low == global.lo
           high == global.up
<1>1. /\ model \in Models /\ points = FeasiblePoints(model) /\ ValidRows(rows, p, C)
      /\ AtRoot => HoldsEverywhere(box)
      /\ AtRoot => \A c \in C : box.lo[c] \in Int /\ box.up[c] \in Int
  BY DEF RowsInv, BoundsInv
<1>2. C \in SUBSET Int /\ IsFiniteSet(C)
  BY <1>1, ColsAre
<1>3. IsFiniteSet(DOMAIN rows)
  <2>1. DOMAIN rows = 1 .. Len(rows) /\ Len(rows) \in Nat
    BY Lengths
  <2> QED BY <2>1, FS_Interval
<1>4. DOMAIN x = C /\ \A c \in C : x[c] \in Int
  <2>1. x \in [C -> -Reach .. Reach] /\ Reach \in Nat
    BY CutRowsAssumption DEF Relaxations, Points
  <2> QED BY <2>1
<1>5. HoldsEverywhere(global) /\ \A c \in C : low[c] \in Int /\ high[c] \in Int
  <2>1. \A c \in C : model.lo[c] \in Int /\ model.up[c] \in Int
    BY <1>1, ColsAre
  <2> QED BY <1>1, <2>1, GlobalHolds DEF Global
<1>6. HoldsEverywhere(local) /\ \A c \in C : lo[c] \in Int /\ up[c] \in Int
  BY <1>1, <1>5, Zenon DEF SeparationBox
<1>7. cut \in MirCuts(rows, x, lo, up, ints) \/ cut \in CliqueCuts(rows, x, low, high, ints)
        \/ cut \in ZeroHalfCuts(rows, x, low, high, ints)
        \/ cut \in CoverCuts(rows, lo, up, ints) \/ cut \in GomoryCuts(rows, x, lo, up, ints)
  <2>1. cut \in MirCuts(rows, x, lo, up, ints)
                  \cup CliqueCuts(rows, x, low, high, ints)
                  \cup ZeroHalfCuts(rows, x, low, high, ints)
                  \cup IF AtRoot THEN CoverCuts(rows, lo, up, ints)
                                      \cup GomoryCuts(rows, x, lo, up, ints)
                       ELSE {}
    BY Zenon DEF Candidates
  <2> QED BY <2>1, Zenon
<1> HIDE DEF local, global
<1>8. PointIn(p, C, lo, up, ints)
  BY <1>1, <1>6, FeasibleIsIn
<1>9. PointIn(p, C, low, high, ints)
  BY <1>1, <1>5, FeasibleIsIn
<1> HIDE DEF C, ints, lo, up, low, high
<1>10. CASE cut \in MirCuts(rows, x, lo, up, ints)
  BY <1>1, <1>2, <1>8, <1>10, MirCutsHold DEF C
<1>11. CASE cut \in CliqueCuts(rows, x, low, high, ints)
  BY <1>1, <1>2, <1>4, <1>9, <1>11, CliqueHolds DEF C
<1>12. CASE cut \in ZeroHalfCuts(rows, x, low, high, ints)
  BY <1>1, <1>2, <1>3, <1>4, <1>9, <1>12, ZeroHalfHolds DEF C
<1>13. CASE cut \in CoverCuts(rows, lo, up, ints)
  BY <1>1, <1>2, <1>8, <1>13, CoverHolds DEF C
<1>14. CASE cut \in GomoryCuts(rows, x, lo, up, ints)
  BY <1>1, <1>2, <1>3, <1>4, <1>8, <1>14, GomoryHolds DEF C
<1> QED BY <1>7, <1>10, <1>11, <1>12, <1>13, <1>14

\* A model whose points and rows did not change, nor its bounds before the first node.
LEMMA SameRows ==
  ASSUME RowsInv, BoundsInv', UNCHANGED model, UNCHANGED points, UNCHANGED rows,
         AtRoot' => UNCHANGED box /\ AtRoot
  PROVE  RowsInv'
BY DEF RowsInv

\* The first rows, and the first bounds: the model's, or the hull of its feasible points.
LEMMA InitRows == Init => RowsInv
<1> SUFFICES ASSUME Init PROVE RowsInv
  OBVIOUS
<1>1. /\ model \in Models /\ points = FeasiblePoints(model)
      /\ rows = RowsOf(TightenIntegralRows(model)) /\ box \in {Global(model), Hull(model)}
      /\ nodes = 0
  BY Zenon DEF Init
<1>2. BoundsInv
  <2>1. HoldsEverywhere(box)
    BY <1>1, GlobalHolds
  <2> QED BY <1>1, <2>1 DEF BoundsInv
<1>3. \A p \in points : ValidRows(rows, p, Cols(model))
  BY <1>1, FirstRowsHold, Zenon
<1>4. ASSUME NEW p \in points, NEW c \in Cols(model) PROVE box.lo[c] \in Int /\ box.up[c] \in Int
  <2>1. CASE box = Global(model)
    BY <1>1, <2>1, ColsAre DEF Global
  <2>2. CASE box = Hull(model)
    <3> DEFINE S == {x[c] : x \in points}
    <3>1. box.lo[c] = Min(S) /\ box.up[c] = Max(S)
      BY <1>1, <2>2, Zenon DEF Hull
    <3>2. S \in SUBSET Int /\ S # {} /\ Reach \in Int /\ -Reach \in Int
            /\ \A v \in S : -Reach <= v /\ v <= Reach
      <4>1. \A x \in points : x \in [Cols(model) -> -Reach .. Reach]
        BY <1>1 DEF FeasiblePoints, Points
      <4>2. \A x \in points : x[c] \in -Reach .. Reach
        BY <4>1
      <4> QED BY <4>2, CutRowsAssumption
    <3> HIDE DEF S
    <3>3. Min(S) \in S
      BY <3>2, MinIs
    <3>4. Max(S) \in S
      BY <3>2, MaxIs
    <3> QED BY <3>1, <3>2, <3>3, <3>4
  <2> QED BY <1>1, <2>1, <2>2
<1> QED BY <1>1, <1>2, <1>3, <1>4 DEF RowsInv

\* A round appends candidates.
LEMMA RoundRows == IInv /\ RowsInv /\ BoundsInv' /\ Round => RowsInv'
<1> SUFFICES ASSUME IInv, RowsInv, BoundsInv', Round PROVE RowsInv'
  OBVIOUS
<1> DEFINE C == Cols(model)
           n == Len(rows)
<1>1. UNCHANGED <<model, points, box, nodes>>
  BY Zenon DEF Round
<1>2. PICK x \in Relaxations, m \in 1 .. RowsPerRound :
        \E accepted \in [1 .. m -> Violated(Candidates(x), x)] : AppendCutRows(accepted)
  BY Zenon DEF Round
<1>3. PICK accepted \in [1 .. m -> Violated(Candidates(x), x)] : AppendCutRows(accepted)
  BY <1>2, Zenon
<1>4. m \in Nat
  BY CutRowsAssumption
<1>5. \A i \in 1 .. m : accepted[i] \in Candidates(x)
  BY <1>3 DEF Violated
<1>6. IsSeq(accepted) /\ Len(accepted) = m
  <2>1. accepted = [i \in 1 .. m |-> accepted[i]]
    BY <1>3
  <2> QED BY <1>4, <2>1, FunctionIsSeq
<1>7. IsSeq(rows) /\ n \in Nat /\ DOMAIN rows = 1 .. n
  BY Lengths DEF IInv, ShapeInv
<1>8. /\ IsSeq(rows \o accepted) /\ Len(rows \o accepted) = n + m
      /\ \A i \in 1 .. n : (rows \o accepted)[i] = rows[i]
      /\ \A i \in 1 .. m : (rows \o accepted)[n + i] = accepted[i]
  BY <1>6, <1>7, ConcatIs
<1>9. rows' = rows \o accepted
  BY <1>3, Zenon DEF AppendCutRows
<1>10. DOMAIN rows' = 1 .. n + m
  BY <1>8, <1>9, SeqIs
<1>11. ASSUME NEW p \in points, NEW i \in 1 .. n + m
       PROVE  rows'[i] \in WorkRows(C) /\ Holds(rows'[i], p)
  <2>1. CASE i \in 1 .. n
    <3>1. rows'[i] = rows[i]
      BY <1>8, <1>9, <2>1
    <3> QED BY <1>7, <2>1, <3>1 DEF RowsInv, ValidRows
  <2>2. CASE i \notin 1 .. n
    <3>1. i - n \in 1 .. m /\ i = n + (i - n)
      BY <1>4, <1>7, <2>2
    <3>2. rows'[i] = accepted[i - n]
      BY <1>8, <1>9, <3>1
    <3>3. accepted[i - n] \in Candidates(x)
      BY <1>5, <3>1
    <3>4. accepted[i - n] \in WorkRows(C) /\ Holds(accepted[i - n], p)
      BY <3>3, CandidatesHold
    <3> QED BY <3>2, <3>4
  <2> QED BY <2>1, <2>2
<1>12. \A p \in points : ValidRows(rows', p, C)
  BY <1>10, <1>11 DEF ValidRows
<1>13. AtRoot' = AtRoot /\ Cols(model)' = C /\ model' \in Models
  BY <1>1 DEF AtRoot, RowsInv, Cols
<1> QED BY <1>1, <1>12, <1>13 DEF RowsInv

\* A rollback leaves the first of the rows.
LEMMA RollBackRows == IInv /\ RowsInv /\ BoundsInv' /\ RollBack => RowsInv'
<1> SUFFICES ASSUME IInv, RowsInv, BoundsInv', RollBack PROVE RowsInv'
  OBVIOUS
<1> DEFINE C == Cols(model)
           n == Len(before.rows)
<1>1. UNCHANGED <<model, points, box, nodes>> /\ rows' = before.rows /\ at = "resolve"
  BY Zenon DEF RollBack
<1>2. /\ IsSeq(before.rows) /\ Len(rows) = n + (Len(pool) - before.pool)
      /\ before.pool \in 0 .. Len(pool) /\ \A i \in 1 .. n : rows[i] = before.rows[i]
  BY <1>1 DEF IInv, BeforeInv
<1>3. DOMAIN before.rows = 1 .. n /\ n \in Nat
  BY <1>2, SeqIs
<1>4. DOMAIN rows = 1 .. Len(rows) /\ Len(rows) \in Nat /\ Len(pool) \in Nat
  BY Lengths
<1>5. \A i \in 1 .. n : i \in DOMAIN rows
  BY <1>2, <1>3, <1>4
<1>6. \A p \in points : ValidRows(rows', p, C)
  <2> SUFFICES ASSUME NEW p \in points, NEW i \in 1 .. n
               PROVE  before.rows[i] \in WorkRows(C) /\ Holds(before.rows[i], p)
    BY <1>1, <1>3 DEF ValidRows
  <2>1. rows[i] \in WorkRows(C) /\ Holds(rows[i], p)
    BY <1>5 DEF RowsInv, ValidRows
  <2> QED BY <1>2, <2>1
<1>7. AtRoot' = AtRoot /\ Cols(model)' = C /\ model' \in Models
  BY <1>1 DEF AtRoot, RowsInv, Cols
<1> QED BY <1>1, <1>6, <1>7 DEF RowsInv

\* A row made free holds everywhere.
LEMMA AgeRows == IInv /\ RowsInv /\ BoundsInv' /\ Age => RowsInv'
<1> SUFFICES ASSUME IInv, RowsInv, BoundsInv', Age PROVE RowsInv'
  OBVIOUS
<1> DEFINE C == Cols(model)
<1>1. UNCHANGED <<model, points, box, nodes>>
  BY Zenon DEF Age
<1>2. PICK first, out :
        rows' = [i \in DOMAIN rows |-> IF i - first \in out THEN Free(rows[i]) ELSE rows[i]]
  BY Zenon DEF Age
<1>3. \A p \in points : ValidRows(rows', p, C)
  <2> SUFFICES ASSUME NEW p \in points, NEW i \in DOMAIN rows
               PROVE  rows'[i] \in WorkRows(C) /\ Holds(rows'[i], p)
    BY <1>2 DEF ValidRows
  <2>1. rows[i] \in WorkRows(C) /\ Holds(rows[i], p)
    BY DEF RowsInv, ValidRows
  <2>2. rows'[i] = Free(rows[i]) \/ rows'[i] = rows[i]
    BY <1>2
  <2>3. Free(rows[i]) \in WorkRows(C)
    <3>1. Inf \in Int /\ -Inf \in Int
      BY LinearAssumption
    <3> QED BY <2>1, <3>1 DEF Free, WorkRows
  <2>4. Holds(Free(rows[i]), p)
    <3>1. Free(rows[i]).rl = -Inf /\ Free(rows[i]).ru = Inf
      BY DEF Free
    <3>2. ~Finite(-Inf) /\ ~Finite(Inf)
      BY LinearAssumption DEF Finite
    <3> QED BY <3>1, <3>2, Zenon DEF Holds
  <2> QED BY <2>1, <2>2, <2>3, <2>4
<1>4. AtRoot' = AtRoot /\ Cols(model)' = C /\ model' \in Models
  BY <1>1 DEF AtRoot, RowsInv, Cols
<1> QED BY <1>1, <1>3, <1>4 DEF RowsInv

\* Every step keeps the rows valid.
LEMMA NextRows == IInv /\ RowsInv /\ BoundsInv' /\ [Next]_vars => RowsInv'
<1> SUFFICES ASSUME IInv, RowsInv, BoundsInv', [Next]_vars PROVE RowsInv'
  OBVIOUS
<1>1. CASE NoRound \/ Resolved \/ Branch \/ Over \/ UNCHANGED vars
  <2>1. UNCHANGED <<model, points, rows, box, nodes>>
    BY <1>1, Zenon DEF NoRound, Resolved, Branch, Over, vars
  <2>2. AtRoot' => UNCHANGED box /\ AtRoot
    BY <2>1 DEF AtRoot
  <2> QED BY <2>1, <2>2, SameRows
<1>2. CASE Pick
  <2>1. model' = model /\ points' = points /\ rows' = rows /\ nodes' = nodes + 1
    BY <1>2, Zenon DEF Pick
  <2>2. ~AtRoot'
    BY <2>1 DEF AtRoot, RowsInv, BoundsInv
  <2> QED BY <2>1, <2>2, SameRows
<1> QED BY <1>1, <1>2, RoundRows, RollBackRows, AgeRows DEF Next

\* No row of the working model, nor any cut a round of branch_and_bound_cuts.cpp appends in
\* whatever node, cuts off a feasible point of the caller's model, for every model, number
\* of rows, order of rounds, rollbacks and ageing.
THEOREM CutsAreGlobal == Spec => []RowsAreGlobal
<1>1. RowsInv => RowsAreGlobal
  BY DEF RowsInv, ValidRows, RowsAreGlobal
<1>2. Spec => []IInv
  BY InitIInv, NextIInv, PTL DEF Spec
<1>3. Spec => []BoundsInv
  BY BoundsHold
<1>4. Spec => []RowsInv
  BY <1>2, <1>3, InitRows, NextRows, PTL DEF Spec
<1> QED BY <1>1, <1>4, PTL

-----------------------------------------------------------------------------
\* The objective step

\* What a move of one column does to a scalar product.
LEMMA DotMoves ==
  ASSUME NEW C, IsFiniteSet(C), NEW k, NEW x, NEW y, NEW one \in C, NEW d \in Int,
         \A c \in C : k[c] \in Int /\ x[c] \in Int /\ y[c] \in Int,
         \A c \in C \ {one} : y[c] = x[c], y[one] = x[one] + d
  PROVE  Dot(k, y, C) = Dot(k, x, C) + k[one] * d /\ Dot(k, x, C) \in Int
<1> DEFINE f == Products(k, y, C)
           g == Products(k, x, C)
           h == [c \in C |-> IF c = one THEN k[one] * d ELSE 0]
<1>1. Dot(k, x, C) = Total(g, C) /\ Dot(k, y, C) = Total(f, C) /\ Dot(k, x, C) \in Int
  BY DotIs
<1>2. ASSUME NEW c \in C PROVE f[c] \in Int /\ g[c] \in Int /\ h[c] \in Int /\ f[c] = g[c] + h[c]
  <2>1. f[c] = k[c] * y[c] /\ g[c] = k[c] * x[c] /\ h[c] = IF c = one THEN k[one] * d ELSE 0
    BY DEF Products
  <2> HIDE DEF f, g, h
  <2>2. CASE c = one
    <3>1. k[one] * (x[one] + d) = k[one] * x[one] + k[one] * d
      <4>1. ASSUME NEW a \in Int, NEW b \in Int PROVE a * (b + d) = a * b + a * d
        OBVIOUS
      <4> QED BY <4>1
    <3> QED BY <2>1, <2>2, <3>1
  <2>3. CASE c # one
    BY <2>1, <2>3
  <2> QED BY <2>2, <2>3
<1>3. Total(h, C) = k[one] * d
  <2>1. h[one] \in Int /\ (\A c \in C \ {one} : h[c] = 0) /\ h[one] = k[one] * d
    OBVIOUS
  <2> HIDE DEF h
  <2> QED BY <2>1, TotalOne
<1> HIDE DEF f, g, h
<1>4. Total(f, C) = Total(g, C) + Total(h, C)
  BY <1>2, TotalShift
<1> QED BY <1>1, <1>3, <1>4

\* Every term of a scalar product but one is a multiple of q.
DividesOthers(q, one, k, x, C) ==
  /\ IsFiniteSet(C) /\ one \in C /\ q \in Nat \ {0}
  /\ \A c \in C : k[c] \in Int /\ x[c] \in Int
  /\ \A c \in C \ {one} : (k[c] * x[c]) % q = 0

\* So is then the sum, but for that term.
LEMMA DotModulo ==
  ASSUME NEW C, NEW k, NEW x, NEW one, NEW q, DividesOthers(q, one, k, x, C)
  PROVE  \E s \in Int : Dot(k, x, C) = k[one] * x[one] + q * s
<1> USE DEF DividesOthers
<1> DEFINE f == Products(k, x, C)
<1>1. Dot(k, x, C) = Total(f, C)
  BY DotIs
<1>2. \A c \in C : f[c] = k[c] * x[c] /\ f[c] \in Int
  BY DEF Products
<1> HIDE DEF f
<1>3. Total(f, C) = f[one] + Total(f, C \ {one})
  BY <1>2, SumTake
<1>4. IsFiniteSet(C \ {one}) /\ \A c \in C \ {one} : f[c] \in Int /\ f[c] % q = 0
  BY <1>2, FS_Subset
<1>5. Total(f, C \ {one}) % q = 0 /\ Total(f, C \ {one}) \in Int
  BY <1>4, TotalMultiple, TotalInt
<1>6. Total(f, C \ {one}) = q * (Total(f, C \ {one}) \div q) /\ Total(f, C \ {one}) \div q \in Int
  BY <1>5, Multiples
<1> QED BY <1>1, <1>2, <1>3, <1>6

\* A product of multiples.
LEMMA ProductDivides ==
  ASSUME NEW a \in Int, NEW b \in Int, NEW d \in Nat \ {0}, NEW u \in Nat \ {0},
         a % d = 0, b % u = 0
  PROVE  (a * b) % (d * u) = 0
<1> DEFINE s == a \div d
           t == b \div u
<1>1. a = d * s /\ s \in Int /\ b = u * t /\ t \in Int
  BY Multiples
<1> HIDE DEF s, t
<1>2. a * b = (d * u) * (s * t)
  <2>1. (d * s) * (u * t) = (d * u) * (s * t)
    <3>1. ASSUME NEW v \in Int, NEW w \in Int, NEW y \in Int, NEW z \in Int
          PROVE  (v * w) * (y * z) = (v * y) * (w * z)
      OBVIOUS
    <3> QED BY <1>1, <3>1
  <2> QED BY <1>1, <2>1
<1>3. d * u \in Nat \ {0} /\ s * t \in Int
  <2>1. d \in Int /\ u \in Int /\ d >= 1 /\ u >= 1
    OBVIOUS
  <2>2. d * 1 <= d * u
    BY <2>1, ScaleLe
  <2> QED BY <1>1, <2>1, <2>2
<1> QED BY <1>2, <1>3, ModOfMultiple

\* Only integer columns cost: every value is a multiple of the common divisor.
LEMMA IntegerStep ==
  ASSUME NEW C, IsFiniteSet(C), NEW k, NEW x, NEW g \in Nat \ {0},
         \A c \in C : k[c] \in Int /\ x[c] \in Int /\ k[c] % g = 0,
         \A c \in C : k[c] # 0 => x[c] % Unit = 0
  PROVE  Dot(k, x, C) % (g * Unit) = 0
<1> DEFINE f == Products(k, x, C)
<1>1. Dot(k, x, C) = Total(f, C)
  BY DotIs
<1>2. g * Unit \in Nat \ {0}
  <2>1. Unit \in Int /\ Unit >= 1 /\ g \in Int /\ g >= 1
    BY LinearAssumption
  <2>2. g * 1 <= g * Unit
    BY <2>1, ScaleLe
  <2> QED BY <2>1, <2>2
<1>3. ASSUME NEW c \in C PROVE f[c] \in Int /\ f[c] % (g * Unit) = 0
  <2>1. f[c] = k[c] * x[c]
    BY DEF Products
  <2> HIDE DEF f
  <2>2. CASE k[c] = 0
    <3>1. f[c] = (g * Unit) * 0
      <4>1. 0 * x[c] = 0 /\ (g * Unit) * 0 = 0
        BY <1>2
      <4> QED BY <2>1, <2>2, <4>1
    <3> QED BY <1>2, <3>1, ModOfMultiple
  <2>3. CASE k[c] # 0
    <3>1. x[c] % Unit = 0 /\ Unit \in Nat \ {0}
      BY <2>3, LinearAssumption
    <3>2. (k[c] * x[c]) % (g * Unit) = 0
      BY <3>1, ProductDivides
    <3> QED BY <2>1, <3>2
  <2> QED BY <2>2, <2>3
<1> HIDE DEF f
<1> QED BY <1>1, <1>2, <1>3, TotalMultiple

\* The absolute value, and what it divides.
LEMMA AbsIs ==
  ASSUME NEW a \in Int, a # 0
  PROVE  /\ AbsValue(a) \in Nat \ {0} /\ (a > 0 => AbsValue(a) = a) /\ (a < 0 => AbsValue(a) = -a)
         /\ a % AbsValue(a) = 0
         /\ \A b \in Int : AbsValue(b) % AbsValue(a) = 0 => b % AbsValue(a) = 0
<1> DEFINE g == AbsValue(a)
<1>1. g \in Nat \ {0} /\ (a > 0 => g = a) /\ (a < 0 => g = -a)
  BY DEF AbsValue
<1> HIDE DEF g
<1>2. a % g = 0
  <2>1. a = g * 1 \/ a = g * (-1)
    BY <1>1
  <2>2. (g * 1) % g = 0 /\ (g * (-1)) % g = 0
    BY <1>1, ModOfMultiple
  <2> QED BY <2>1, <2>2
<1>3. ASSUME NEW b \in Int, AbsValue(b) % g = 0 PROVE b % g = 0
  <2> DEFINE t == AbsValue(b) \div g
  <2>1. AbsValue(b) \in Int /\ (AbsValue(b) = b \/ AbsValue(b) = -b)
    BY DEF AbsValue
  <2>2. AbsValue(b) = g * t /\ t \in Int
    BY <1>1, <1>3, <2>1, Multiples
  <2> HIDE DEF t
  <2>3. b = g * t \/ b = g * (-t)
    <3>1. g * (-t) = -(g * t)
      BY <1>1, <2>2
    <3> QED BY <2>1, <2>2, <3>1
  <2>4. (g * t) % g = 0 /\ (g * (-t)) % g = 0
    <3>1. -t \in Int
      BY <2>2
    <3> QED BY <1>1, <2>2, <3>1, ModOfMultiple
  <2> QED BY <2>3, <2>4
<1> QED BY <1>1, <1>2, <1>3 DEF g

\* A row whose side is a multiple of what all its other terms are multiples of leaves a column
\* that is not whole room to move towards the side.
LEMMA SideLeavesRoom ==
  ASSUME NEW a \in Int, a # 0, NEW v \in Int, v % Unit # 0, NEW d \in {1, -1}, NEW s \in Int,
         NEW side \in Int, side % (AbsValue(a) * Unit) = 0, NEW dot,
         dot = a * v + (AbsValue(a) * Unit) * s
  PROVE  /\ a * d < 0 /\ side <= dot => side <= dot + a * d
         /\ a * d > 0 /\ dot <= side => dot + a * d <= side
<1> DEFINE g == AbsValue(a)
           sign == IF a > 0 THEN 1 ELSE -1
           t == side \div (g * Unit)
           e == sign * v + Unit * (s - t)
<1>1. g \in Nat \ {0} /\ g >= 1 /\ a = g * sign /\ sign \in {1, -1}
  BY AbsIs
<1>2. Unit \in Nat \ {0} /\ Unit \in Int
  BY LinearAssumption
<1>3. g * Unit \in Nat \ {0}
  <2>1. g \in Int /\ 1 \in Int /\ g >= 0 /\ 1 <= Unit
    BY <1>1, <1>2
  <2>2. g * 1 <= g * Unit
    BY <1>2, <2>1, ScaleLe
  <2> QED BY <1>1, <1>2, <2>2
<1>4. side = (g * Unit) * t /\ t \in Int
  BY <1>3, Multiples
<1> HIDE DEF g, sign, t
<1>5. e \in Int /\ g * e \in Int /\ dot - side = g * e
  <2>1. ASSUME NEW x \in Int, NEW y \in Int, NEW z \in Int, NEW w \in Int, NEW k \in Int,
               NEW u \in Int
        PROVE  (x * y) * z + (x * u) * w - (x * u) * k = x * (y * z + u * (w - k))
    OBVIOUS
  <2>2. g \in Int /\ sign \in Int
    BY <1>1
  <2>3. (g * sign) * v + (g * Unit) * s - (g * Unit) * t = g * e
    BY <1>2, <1>4, <2>1, <2>2
  <2>4. e \in Int
    BY <1>2, <1>4, <2>2
  <2> HIDE DEF e
  <2>5. dot = (g * sign) * v + (g * Unit) * s
    BY <1>1 DEF g
  <2>6. (g * sign) * v \in Int /\ (g * Unit) * s \in Int /\ (g * Unit) * t \in Int
    BY <1>3, <1>4, <2>2
  <2> QED BY <1>4, <2>2, <2>3, <2>4, <2>5, <2>6
<1>6. e # 0
  <2> SUFFICES ASSUME e = 0 PROVE FALSE
    OBVIOUS
  <2>1. v = Unit * (s - t) \/ v = Unit * (t - s)
    <3>1. Unit * (t - s) = -(Unit * (s - t)) /\ Unit * (s - t) \in Int
      BY <1>2, <1>4
    <3> QED BY <1>1, <3>1
  <2>2. s - t \in Int /\ t - s \in Int
    BY <1>4
  <2>3. (Unit * (s - t)) % Unit = 0 /\ (Unit * (t - s)) % Unit = 0
    BY <1>2, <2>2, ModOfMultiple
  <2> QED BY <2>1, <2>3
<1> HIDE DEF e
<1>7. a * d = g \/ a * d = -g
  BY <1>1
<1>8. dot \in Int
  BY <1>5, <1>1, <1>2, <1>3 DEF g
<1>9. /\ e <= 0 => g * e <= 0
      /\ e >= 0 => g * e >= 0
      /\ e >= 1 => g * e >= g
      /\ e <= -1 => g * e <= -g
  <2>1. /\ e <= 0 => g * e <= g * 0
        /\ 0 <= e => g * 0 <= g * e
        /\ 1 <= e => g * 1 <= g * e
        /\ e <= -1 => g * e <= g * (-1)
    BY <1>1, <1>5, ScaleLe
  <2> QED BY <1>1, <1>5, <2>1
<1>10. ASSUME a * d < 0, side <= dot PROVE side <= dot + a * d
  <2>1. a * d = -g /\ g * e >= 0
    BY <1>1, <1>5, <1>7, <1>8, <1>10
  <2>2. e >= 1
    BY <1>1, <1>5, <1>6, <1>9, <2>1
  <2> QED BY <1>1, <1>5, <1>8, <1>9, <2>1, <2>2
<1>11. ASSUME a * d > 0, dot <= side PROVE dot + a * d <= side
  <2>1. a * d = g /\ g * e <= 0
    BY <1>1, <1>5, <1>7, <1>8, <1>11
  <2>2. e <= -1
    BY <1>1, <1>5, <1>6, <1>9, <2>1
  <2> QED BY <1>1, <1>5, <1>8, <1>9, <2>1, <2>2
<1> QED BY <1>10, <1>11

\* What detect_objective_integrality found.
LEMMA StepIs ==
  ASSUME NEW m \in Models, ObjectiveStep(m) # 0
  PROVE  LET costed == {c \in Cols(m) : m.cost[c] # 0}
             loose == costed \ m.int
             step == ObjectiveStep(m)
             down(c) == m.sense * m.cost[c] > 0
             side(r, c) == DefiningSide(m.coef[r][c] > 0, down(c), m.rl[r], m.ru[r])
         IN  \/ /\ loose = {} /\ step \in Nat \ {0}
                /\ \A c \in costed : m.cost[c] % step = 0
             \/ \E one \in Cols(m) :
                  /\ costed = {one} /\ one \notin m.int
                  /\ step = AbsValue(m.cost[one])
                  /\ Finite(m.lo[one]) => Whole(m.lo[one])
                  /\ Finite(m.up[one]) => Whole(m.up[one])
                  /\ \A r \in Rows(m) : m.coef[r][one] # 0 /\ Finite(side(r, one)) =>
                       /\ side(r, one) % (AbsValue(m.coef[r][one]) * Unit) = 0
                       /\ \A c \in Cols(m) \ {one} : m.coef[r][c] # 0 =>
                            c \in m.int /\ AbsValue(m.coef[r][c]) % AbsValue(m.coef[r][one]) = 0
<1> DEFINE costed == {c \in Cols(m) : m.cost[c] # 0}
           loose == costed \ m.int
           divisor == CommonDivisor(AbsValue(m.cost[CHOOSE c \in costed : TRUE]),
                                    {m.cost[c] : c \in costed})
           step == IF costed = {} THEN 0 ELSE divisor
           one == CHOOSE c \in loose : TRUE
           down(c) == m.sense * m.cost[c] > 0
           side(r, c) == DefiningSide(m.coef[r][c] > 0, down(c), m.rl[r], m.ru[r])
           used == {r \in Rows(m) : m.coef[r][one] # 0}
           exact(r) ==
             side(r, one) % (m.coef[r][one] * (IF m.coef[r][one] > 0 THEN Unit ELSE -Unit)) = 0
           whole(r) ==
             \A c \in Cols(m) \ {one} : m.coef[r][c] # 0 =>
               c \in m.int /\ AbsValue(m.coef[r][c]) % AbsValue(m.coef[r][one]) = 0
           defines(r) == exact(r) /\ whole(r)
           defining == {r \in used : Finite(side(r, one))}
           ok == /\ used # {}
                 /\ \A b \in {m.lo[one], m.up[one]} : Finite(b) => Whole(b)
                 /\ \A r \in defining : defines(r)
                 /\ defining # {} \/ Finite(IF down(one) THEN m.lo[one] ELSE m.up[one])
<1>1. ObjectiveStep(m) =
        CASE loose = {} -> step
          [] Cardinality(loose) = 1 /\ costed = loose ->
               IF ok THEN AbsValue(m.cost[one]) ELSE 0
          [] OTHER -> 0
  BY Zenon DEF ObjectiveStep
<1>2. /\ Cols(m) \in SUBSET Int /\ IsFiniteSet(Cols(m))
      /\ \A c \in Cols(m) : m.cost[c] \in Int
      /\ \A r \in Rows(m), c \in Cols(m) : m.coef[r][c] \in Int
  <2>1. \A c \in Cols(m) : m.cost[c] \in Int
    <3>1. m.cost \in Seq(Int)
      BY CutRowsAssumption DEF WellFormed
    <3>2. m.cost \in [1 .. Len(m.cost) -> Int] /\ Cols(m) = 1 .. Len(m.cost)
      BY <3>1, LenProperties DEF Cols
    <3> QED BY <3>2
  <2> QED BY <2>1, ColsAre
<1>3. CASE loose = {}
  <2>1. ObjectiveStep(m) = step
    <3>1. Cardinality(loose) # 1
      BY <1>3, FS_EmptySet
    <3> HIDE DEF loose, costed, ok, step, one
    <3> QED BY <1>1, <1>3, <3>1
  <2>2. costed # {} /\ ObjectiveStep(m) = divisor
    BY <2>1
  <2> DEFINE some == CHOOSE c \in costed : TRUE
             values == {m.cost[c] : c \in costed}
  <2>3. some \in costed
    BY <2>2, Zenon
  <2>4. AbsValue(m.cost[some]) \in Nat \ {0}
    BY <1>2, <2>3, AbsIs
  <2>5. values \in SUBSET Int
    BY <1>2
  <2>6. divisor = CommonDivisor(AbsValue(m.cost[some]), values)
    OBVIOUS
  <2> HIDE DEF some, values, divisor
  <2>7. divisor \in Nat \ {0} /\ \A v \in values : v % divisor = 0
    BY <2>4, <2>5, <2>6, Divides
  <2>8. \A c \in costed : m.cost[c] % divisor = 0
    BY <2>7 DEF values
  <2> QED BY <1>3, <2>2, <2>7, <2>8
<1>4. CASE loose # {}
  <2>1. Cardinality(loose) = 1 /\ costed = loose /\ ok /\ ObjectiveStep(m) = AbsValue(m.cost[one])
    <3> HIDE DEF loose, costed, ok, step, one
    <3> QED BY <1>1, <1>4
  <2>2. one \in loose
    BY <1>4, Zenon
  <2>3. IsFiniteSet(loose)
    <3>1. loose \subseteq Cols(m)
      OBVIOUS
    <3> QED BY <1>2, <3>1, FS_Subset
  <2>4. loose = {one}
    <3>1. \E c : loose = {c}
      BY <2>1, <2>3, FS_Singleton
    <3> QED BY <2>2, <3>1
  <2>5. one \in Cols(m) /\ one \notin m.int /\ costed = {one}
    BY <2>1, <2>2, <2>4
  <2>6. ASSUME NEW r \in Rows(m), m.coef[r][one] # 0, Finite(side(r, one))
        PROVE  side(r, one) % (AbsValue(m.coef[r][one]) * Unit) = 0 /\ whole(r)
    <3>1. exact(r) /\ whole(r)
      BY <2>1, <2>6
    <3>2. m.coef[r][one] \in Int /\ Unit \in Int
      BY <1>2, <2>5, LinearAssumption
    <3>3. m.coef[r][one] * (IF m.coef[r][one] > 0 THEN Unit ELSE -Unit)
            = AbsValue(m.coef[r][one]) * Unit
      BY <2>6, <3>2 DEF AbsValue
    <3> QED BY <3>1, <3>3
  <2>7. (Finite(m.lo[one]) => Whole(m.lo[one])) /\ (Finite(m.up[one]) => Whole(m.up[one]))
    BY <2>1
  <2> HIDE DEF one, ok, defining, exact, side
  <2>8. /\ one \in Cols(m) /\ costed = {one} /\ one \notin m.int
        /\ ObjectiveStep(m) = AbsValue(m.cost[one])
        /\ Finite(m.lo[one]) => Whole(m.lo[one])
        /\ Finite(m.up[one]) => Whole(m.up[one])
        /\ \A r \in Rows(m) : m.coef[r][one] # 0 /\ Finite(side(r, one)) =>
             side(r, one) % (AbsValue(m.coef[r][one]) * Unit) = 0 /\ whole(r)
    BY <2>1, <2>5, <2>6, <2>7
  <2> QED BY <2>8, Zenon DEF side
<1> QED BY <1>3, <1>4

\* A row that stops the one costed column where the objective pushes it: its side is a whole
\* multiple of the column's coefficient, its other terms are such multiples of whole columns.
SideDefines(m, r, one) ==
  LET side == DefiningSide(m.coef[r][one] > 0, m.sense * m.cost[one] > 0, m.rl[r], m.ru[r])
  IN  m.coef[r][one] # 0 /\ Finite(side) =>
        /\ side % (AbsValue(m.coef[r][one]) * Unit) = 0
        /\ \A c \in Cols(m) \ {one} : m.coef[r][c] # 0 =>
             c \in m.int /\ AbsValue(m.coef[r][c]) % AbsValue(m.coef[r][one]) = 0

\* The side that stops the column.
LEMMA DefiningSideIs ==
  ASSUME NEW positive \in BOOLEAN, NEW down \in BOOLEAN, NEW rl, NEW ru
  PROVE  LET side == DefiningSide(positive, down, rl, ru)
         IN  /\ (positive /\ down) \/ (~positive /\ ~down) => side = rl
             /\ (positive /\ ~down) \/ (~positive /\ down) => side = ru
BY Zenon DEF DefiningSide

\* The one step by which the costed column, where it is not whole, may follow the objective
\* keeps every row.
LEMMA RowFollows ==
  ASSUME NEW m \in Models, NEW x \in FeasiblePoints(m), NEW one \in Cols(m), x[one] % Unit # 0,
         m.cost[one] # 0, NEW r \in Rows(m), SideDefines(m, r, one),
         NEW d, d = (IF m.sense * m.cost[one] > 0 THEN -1 ELSE 1),
         NEW y \in [Cols(m) -> -Reach .. Reach],
         \A c \in Cols(m) \ {one} : y[c] = x[c], y[one] = x[one] + d
  PROVE  m.rl[r] <= Dot(m.coef[r], y, Cols(m)) /\ Dot(m.coef[r], y, Cols(m)) <= m.ru[r]
<1> DEFINE C == Cols(m)
           k == m.coef[r]
           a == k[one]
           down == m.sense * m.cost[one] > 0
           side == DefiningSide(a > 0, down, m.rl[r], m.ru[r])
           dot == Dot(k, x, C)
           rl == m.rl[r]
           ru == m.ru[r]
<1>1. /\ IsFiniteSet(C) /\ rl \in Int /\ ru \in Int /\ \A c \in C : k[c] \in Int
      /\ Reach \in Nat /\ d \in {1, -1} /\ a \in Int
      /\ \A c \in C : x[c] \in Int /\ y[c] \in Int
      /\ x \in [C -> -Reach .. Reach] /\ Feasible(m, x)
  <2>1. \A c \in C : k[c] \in Int
    BY ColsAre
  <2>2. x \in [C -> -Reach .. Reach] /\ Feasible(m, x) /\ Reach \in Nat
    BY CutRowsAssumption DEF FeasiblePoints, Points
  <2>3. \A c \in C : x[c] \in Int /\ y[c] \in Int
    BY <2>2
  <2> QED BY <2>1, <2>2, <2>3, ColsAre
<1>2. rl <= dot /\ dot <= ru
  BY <1>1 DEF Feasible
<1>3. Finite(dot) /\ Finite(Dot(k, y, C))
  BY <1>1, StepAssumption
<1> DEFINE moved == Dot(k, y, C)
<1>4. moved = dot + a * d /\ dot \in Int /\ a * d \in Int
  <2>1. \A c \in C : k[c] \in Int /\ x[c] \in Int /\ y[c] \in Int
    BY <1>1
  <2>2. IsFiniteSet(C) /\ one \in C /\ d \in Int /\ y[one] = x[one] + d
    BY <1>1
  <2>4. \A c \in C \ {one} : y[c] = x[c]
    OBVIOUS
  <2> HIDE DEF k, C
  <2>3. Dot(k, y, C) = Dot(k, x, C) + k[one] * d /\ Dot(k, x, C) \in Int
    BY ONLY <2>1, <2>2, <2>4, DotMoves
  <2> QED BY <1>1, <2>2, <2>3
<1>5. CASE a = 0
  <2>1. a * d = 0
    BY <1>1, <1>5
  <2> HIDE DEF a, moved, dot, rl, ru
  <2>2. moved = dot
    BY <1>4, <2>1
  <2> QED BY <1>2, <2>2 DEF moved, rl, ru, dot
<1>6. CASE a # 0
  <2>1. /\ a * d < 0 => side = rl
        /\ a * d > 0 => side = ru
        /\ a * d # 0
    <3> DEFINE positive == a > 0
    <3>1. positive \in BOOLEAN /\ down \in BOOLEAN
      BY <1>1
    <3>2. side = DefiningSide(positive, down, rl, ru)
      OBVIOUS
    <3>3. d = (IF down THEN -1 ELSE 1) /\ a \in Int
      BY <1>1
    <3> HIDE DEF side, positive, a, down, rl, ru
    <3>4. /\ (positive /\ down) \/ (~positive /\ ~down) => side = rl
          /\ (positive /\ ~down) \/ (~positive /\ down) => side = ru
      BY <3>1, <3>2, DefiningSideIs
    <3>5. CASE (positive /\ down) \/ (~positive /\ ~down)
      <4>1. side = rl
        BY <3>4, <3>5
      <4>2. a * d < 0
        BY <1>6, <3>3, <3>5 DEF positive
      <4> QED BY <1>4, <4>1, <4>2
    <3>6. CASE (positive /\ ~down) \/ (~positive /\ down)
      <4>1. side = ru
        BY <3>4, <3>6
      <4>2. a * d > 0
        BY <1>6, <3>3, <3>6 DEF positive
      <4> QED BY <1>4, <4>1, <4>2
    <3> QED BY <3>5, <3>6
  <2>2. side \in Int
    <3>1. side = rl \/ side = ru
      BY Zenon DEF DefiningSide
    <3> QED BY <1>1, <3>1
  <2>3. CASE Finite(side)
    <3> DEFINE g == AbsValue(a)
    <3>1. /\ side % (g * Unit) = 0
          /\ \A c \in C \ {one} : k[c] # 0 => c \in m.int /\ AbsValue(k[c]) % g = 0
      BY <1>6, <2>3, Zenon DEF SideDefines
    <3>2. g \in Nat \ {0} /\ \A b \in Int : AbsValue(b) % g = 0 => b % g = 0
      BY <1>1, <1>6, AbsIs
    <3> HIDE DEF g, side
    <3>3. Unit \in Nat \ {0} /\ g * Unit \in Nat \ {0}
      <4>1. g \in Int /\ 1 \in Int /\ g >= 1 /\ Unit \in Int /\ 1 <= Unit
        BY <3>2, LinearAssumption
      <4>2. g * 1 <= g * Unit
        BY <4>1, ScaleLe
      <4> QED BY <4>1, <4>2
    <3>4. ASSUME NEW c \in C \ {one} PROVE (k[c] * x[c]) % (g * Unit) = 0
      <4>1. k[c] \in Int /\ x[c] \in Int
        BY <1>1
      <4>2. CASE k[c] = 0
        <5>1. ((g * Unit) * 0) % (g * Unit) = 0 /\ (g * Unit) * 0 = 0
          BY <3>3, ModOfMultiple
        <5>2. k[c] * x[c] = 0
          BY <4>1, <4>2
        <5> QED BY <5>1, <5>2
      <4>3. CASE k[c] # 0
        <5>1. c \in m.int /\ k[c] % g = 0
          BY <3>1, <3>2, <4>1, <4>3
        <5>2. x[c] % Unit = 0
          BY <1>1, <5>1 DEF Feasible
        <5> QED BY <3>2, <3>3, <4>1, <5>1, <5>2, ProductDivides
      <4> QED BY <4>2, <4>3
    <3>5. \E s \in Int : Dot(k, x, C) = k[one] * x[one] + (g * Unit) * s
      <4> DEFINE q == g * Unit
      <4>1. \A c \in C : k[c] \in Int /\ x[c] \in Int
        BY <1>1
      <4>2. IsFiniteSet(C) /\ one \in C /\ q \in Nat \ {0}
        BY <1>1, <3>3
      <4>3. \A c \in C \ {one} : (k[c] * x[c]) % q = 0
        BY <3>4
      <4> HIDE DEF k, C, q
      <4>4. DividesOthers(q, one, k, x, C)
        BY <4>1, <4>2, <4>3 DEF DividesOthers
      <4>5. \E s \in Int : Dot(k, x, C) = k[one] * x[one] + q * s
        BY ONLY <4>4, DotModulo
      <4> QED BY <4>5 DEF q
    <3>6. PICK s \in Int : dot = a * x[one] + (g * Unit) * s
      BY <3>5
    <3>7. x[one] \in Int /\ x[one] % Unit # 0
      BY <1>1
    <3> HIDE DEF a, dot, moved, rl, ru
    <3>8. /\ a * d < 0 /\ side <= dot => side <= dot + a * d
          /\ a * d > 0 /\ dot <= side => dot + a * d <= side
      BY <1>1, <1>6, <2>2, <3>1, <3>6, <3>7, SideLeavesRoom DEF g
    <3> QED BY <1>1, <1>2, <1>4, <2>1, <3>8 DEF rl, ru, moved
  <2>4. CASE ~Finite(side)
    <3> HIDE DEF a, dot, moved, rl, ru, side
    <3>1. /\ -Inf < dot /\ dot < Inf /\ -Inf < moved /\ moved < Inf
          /\ side <= -Inf \/ Inf <= side
      <4>1. Inf \in Int /\ -Inf \in Int
        BY LinearAssumption
      <4>2. ~(-Inf < side) \/ ~(side < Inf)
        BY <2>4 DEF Finite
      <4> QED BY <1>3, <2>2, <4>1, <4>2 DEF Finite, moved
    <3>2. Inf \in Int
      BY LinearAssumption
    <3>3. a * d < 0 => rl <= moved /\ moved <= ru
      BY <1>1, <1>2, <1>4, <2>1, <2>2, <3>1, <3>2
    <3>4. a * d > 0 => rl <= moved /\ moved <= ru
      BY <1>1, <1>2, <1>4, <2>1, <2>2, <3>1, <3>2
    <3> QED BY <1>4, <2>1, <3>3, <3>4 DEF moved, rl, ru
  <2> QED BY <2>3, <2>4
<1> QED BY <1>5, <1>6

\* The one costed column is whole where no point with the same integer columns is better.
LEMMA BestIsWhole ==
  ASSUME NEW m \in Models, NEW x \in FeasiblePoints(m), NEW one \in Cols(m),
         m.cost[one] \in Int, m.cost[one] # 0, one \notin m.int,
         Finite(m.lo[one]) => Whole(m.lo[one]), Finite(m.up[one]) => Whole(m.up[one]),
         \A r \in Rows(m) : SideDefines(m, r, one),
         NEW k, \A c \in Cols(m) : k[c] = IF c = one THEN m.cost[one] ELSE 0,
         \A y \in FeasiblePoints(m) :
           (\A c \in m.int : x[c] = y[c]) =>
             m.sense * Dot(k, x, Cols(m)) <= m.sense * Dot(k, y, Cols(m))
  PROVE  x[one] % Unit = 0
<1> SUFFICES ASSUME x[one] % Unit # 0 PROVE FALSE
  OBVIOUS
<1> DEFINE C == Cols(m)
           down == m.sense * m.cost[one] > 0
           d == IF down THEN -1 ELSE 1
           y == [x EXCEPT ![one] = @ + d]
<1>1. /\ IsFiniteSet(C) /\ d \in {1, -1} /\ m.sense \in {1, -1}
      /\ Reach \in Nat /\ Reach % Unit = 0 /\ Reach < Inf /\ Inf \in Int /\ Unit \in Nat \ {0}
      /\ m.lo[one] \in Int /\ m.up[one] \in Int
      /\ x \in [C -> -Reach .. Reach] /\ Feasible(m, x) /\ x[one] \in -Reach .. Reach
  BY ColsAre, CutRowsAssumption, StepAssumption, LinearAssumption DEF FeasiblePoints, Points
<1>2. \A b \in Int : b % Unit = 0 => b # x[one]
  OBVIOUS
<1>3. (-Reach) % Unit = 0
  <2>0. Reach \in Int /\ Unit \in Nat \ {0} /\ Reach % Unit = 0
    BY <1>1
  <2>1. Reach = Unit * (Reach \div Unit) /\ Reach \div Unit \in Int
    BY ONLY <2>0, Multiples
  <2> DEFINE t == Reach \div Unit
  <2> HIDE DEF t
  <2>2. -Reach = Unit * (-t) /\ -t \in Int
    BY <1>1, <2>1 DEF t
  <2> QED BY <1>1, <2>2, ModOfMultiple
<1>4. x[one] - 1 \in -Reach .. Reach /\ x[one] + 1 \in -Reach .. Reach
  <2>1. -Reach # x[one] /\ Reach # x[one]
    BY <1>1, <1>2, <1>3
  <2> QED BY <1>1, <2>1
<1>5. m.lo[one] <= x[one] - 1 /\ x[one] + 1 <= m.up[one]
  <2>1. m.lo[one] <= x[one] /\ x[one] <= m.up[one]
    BY <1>1 DEF Feasible
  <2>2. m.lo[one] <= x[one] - 1
    <3>1. CASE Finite(m.lo[one])
      BY <1>1, <2>1, <3>1 DEF Whole
    <3>2. CASE ~Finite(m.lo[one])
      BY <1>1, <1>4, <2>1, <3>2 DEF Finite
    <3> QED BY <3>1, <3>2
  <2>3. x[one] + 1 <= m.up[one]
    <3>1. CASE Finite(m.up[one])
      BY <1>1, <2>1, <3>1 DEF Whole
    <3>2. CASE ~Finite(m.up[one])
      BY <1>1, <1>4, <2>1, <3>2 DEF Finite
    <3> QED BY <3>1, <3>2
  <2> QED BY <2>2, <2>3
<1>6. /\ y \in [C -> -Reach .. Reach] /\ y[one] = x[one] + d
      /\ \A c \in C \ {one} : y[c] = x[c]
  <2>1. x[one] + d \in -Reach .. Reach
    BY <1>1, <1>4
  <2> QED BY <1>1, <2>1
<1>7. d = IF m.sense * m.cost[one] > 0 THEN -1 ELSE 1
  OBVIOUS
<1> HIDE DEF y, d
<1>8. ASSUME NEW c \in C
      PROVE  m.lo[c] <= y[c] /\ y[c] <= m.up[c] /\ (c \in m.int => y[c] % Unit = 0)
  <2>1. CASE c = one
    BY <1>1, <1>5, <1>6, <2>1
  <2>2. CASE c # one
    BY <1>1, <1>6, <2>2 DEF Feasible
  <2> QED BY <2>1, <2>2
<1>9. \A r \in Rows(m) : m.rl[r] <= Dot(m.coef[r], y, C) /\ Dot(m.coef[r], y, C) <= m.ru[r]
  BY <1>6, <1>7, RowFollows
<1>10. y \in FeasiblePoints(m)
  <2>1. Feasible(m, y)
    BY <1>8, <1>9 DEF Feasible
  <2>2. \A c \in C : y[c] \in Grid(c, Global(m))
    BY <1>6, <1>8 DEF Grid, Global
  <2> QED BY <1>6, <2>1, <2>2 DEF FeasiblePoints, Points
<1>11. \A c \in m.int : x[c] = y[c]
  <2>1. m.int \subseteq C
    BY CutRowsAssumption DEF WellFormed
  <2> QED BY <1>6, <2>1
<1>12. m.sense * Dot(k, x, C) <= m.sense * Dot(k, y, C)
  BY <1>10, <1>11
<1>13. Dot(k, y, C) = Dot(k, x, C) + m.cost[one] * d /\ Dot(k, x, C) \in Int
  <2>1. \A c \in C : k[c] \in Int /\ x[c] \in Int /\ y[c] \in Int
    BY <1>1, <1>6
  <2>2. IsFiniteSet(C) /\ one \in C /\ d \in Int /\ y[one] = x[one] + d
    BY <1>1, <1>6
  <2>3. \A c \in C \ {one} : y[c] = x[c]
    BY <1>6
  <2>4. k[one] = m.cost[one]
    OBVIOUS
  <2> HIDE DEF C
  <2>5. Dot(k, y, C) = Dot(k, x, C) + k[one] * d /\ Dot(k, x, C) \in Int
    BY ONLY <2>1, <2>2, <2>3, DotMoves
  <2> QED BY <2>4, <2>5
<1>14. m.sense * (m.cost[one] * d) < 0
  <2>1. m.cost[one] \in Int
    OBVIOUS
  <2> QED BY <1>1, <1>7, <2>1
<1> DEFINE from == Dot(k, x, C)
           to == Dot(k, y, C)
           move == m.cost[one] * d
<1>15. move \in Int
  BY <1>1
<1> HIDE DEF from, to, move
<1>16. m.sense * from <= m.sense * to /\ to = from + move /\ from \in Int /\ m.sense * move < 0
  BY <1>12, <1>13, <1>14 DEF from, to, move
<1> QED BY <1>1, <1>15, <1>16

\* The objective is a multiple of the step at the best point of every assignment of the
\* integer columns.
LEMMA StepHolds ==
  ASSUME model \in Models, points = FeasiblePoints(model)
  PROVE  StepIsExact
<1> DEFINE m == model
           C == Cols(m)
           step == ObjectiveStep(m)
           value(x) == m.sense * (Objective(m, x) - m.offset)
           same(x, y) == \A c \in m.int : x[c] = y[c]
           k == [c \in C |-> m.cost[c]]
           costed == {c \in C : m.cost[c] # 0}
<1> SUFFICES ASSUME step # 0, NEW x \in points, \A y \in points : same(x, y) => value(x) <= value(y)
             PROVE  value(x) % (step * Unit) = 0
  BY Zenon DEF StepIsExact
<1>1. /\ IsFiniteSet(C) /\ C \in SUBSET Int
      /\ \A c \in C : m.cost[c] \in Int /\ k[c] \in Int /\ k[c] = m.cost[c]
      /\ \A c \in C : m.lo[c] \in Int /\ m.up[c] \in Int
      /\ m.sense \in {1, -1} /\ m.offset \in Int
      /\ Reach \in Nat /\ Reach % Unit = 0 /\ Reach < Inf
  <2>1. \A c \in C : m.cost[c] \in Int
    <3>1. m.cost \in Seq(Int)
      BY CutRowsAssumption DEF WellFormed
    <3>2. m.cost \in [1 .. Len(m.cost) -> Int] /\ Cols(m) = 1 .. Len(m.cost)
      BY <3>1, LenProperties DEF Cols
    <3> QED BY <3>2
  <2> QED BY <2>1, ColsAre, StepAssumption, CutRowsAssumption
<1>2. \A y \in points : /\ y \in [C -> -Reach .. Reach] /\ Feasible(m, y)
                        /\ \A c \in C : y[c] \in Int
  <2>1. \A y \in points : y \in [C -> -Reach .. Reach] /\ Feasible(m, y)
    BY DEF FeasiblePoints, Points
  <2> QED BY <1>1, <2>1
<1>3. \A y \in points : value(y) = m.sense * Dot(k, y, C) /\ Dot(k, y, C) \in Int
  <2> SUFFICES ASSUME NEW y \in points
               PROVE  value(y) = m.sense * Dot(k, y, C) /\ Dot(k, y, C) \in Int
    OBVIOUS
  <2>1. Dot(k, y, C) \in Int
    BY <1>1, <1>2, DotIs
  <2>2. Objective(m, y) = m.offset + Dot(k, y, C)
    BY Zenon DEF Objective
  <2> HIDE DEF k
  <2>3. Objective(m, y) - m.offset = Dot(k, y, C)
    BY <1>1, <2>1, <2>2
  <2> QED BY <2>1, <2>3
<1> HIDE DEF k, value
<1>4. SUFFICES ASSUME TRUE
               PROVE  /\ step \in Nat \ {0} /\ \A c \in C : k[c] % step = 0
                      /\ \A c \in C : k[c] # 0 => x[c] % Unit = 0
  <2>1. Dot(k, x, C) % (step * Unit) = 0
    <3>1. IsFiniteSet(C) /\ step \in Nat \ {0}
      BY <1>1, <1>4
    <3>2. \A c \in C : k[c] \in Int /\ x[c] \in Int /\ k[c] % step = 0
      BY <1>1, <1>2, <1>4
    <3>3. \A c \in C : k[c] # 0 => x[c] % Unit = 0
      BY <1>4
    <3> HIDE DEF step, C
    <3> QED BY ONLY <3>1, <3>2, <3>3, IntegerStep
  <2>2. step * Unit \in Nat \ {0} /\ Dot(k, x, C) \in Int
    <3>1. step \in Int /\ Unit \in Int /\ step >= 1 /\ 1 <= Unit /\ 1 \in Int
      BY <1>4, LinearAssumption
    <3> HIDE DEF step
    <3>2. step * 1 <= step * Unit
      BY <3>1, ScaleLe
    <3> QED BY <1>3, <3>1, <3>2
  <2> DEFINE q == step * Unit
             dot == Dot(k, x, C)
             t == dot \div q
  <2> HIDE DEF q, dot
  <2>3. dot = q * t /\ t \in Int
    BY <2>1, <2>2, Multiples DEF q, dot
  <2>4. value(x) = q * (m.sense * t) /\ m.sense * t \in Int
    <3> HIDE DEF t
    <3>1. value(x) = m.sense * dot
      BY <1>3 DEF dot
    <3>2. m.sense * (q * t) = q * (m.sense * t) /\ m.sense * t \in Int
      BY <1>1, <2>2, <2>3 DEF q
    <3> QED BY <2>3, <3>1, <3>2
  <2>5. (q * (m.sense * t)) % q = 0
    BY <2>2, <2>4, ModOfMultiple DEF q
  <2>6. value(x) % q = 0
    BY <2>4, <2>5
  <2> QED BY <2>6 DEF q
<1>5. CASE /\ costed \ m.int = {} /\ step \in Nat \ {0}
           /\ \A c \in costed : m.cost[c] % step = 0
  <2>1. \A c \in C : k[c] # 0 => c \in m.int /\ x[c] % Unit = 0
    <3>1. \A c \in C : k[c] # 0 => c \in m.int
      BY <1>1, <1>5
    <3> QED BY <1>2, <3>1 DEF Feasible
  <2>2. ASSUME NEW c \in C PROVE k[c] % step = 0
    <3>1. CASE k[c] = 0
      <4>1. (step * 0) % step = 0 /\ step * 0 = 0
        BY <1>5, ModOfMultiple
      <4> QED BY <3>1, <4>1
    <3>2. CASE k[c] # 0
      BY <1>1, <1>5, <3>2
    <3> QED BY <3>1, <3>2
  <2> QED BY <1>5, <2>1, <2>2
<1>6. ASSUME NEW one \in C,
             costed = {one}, one \notin m.int, step = AbsValue(m.cost[one]),
             Finite(m.lo[one]) => Whole(m.lo[one]), Finite(m.up[one]) => Whole(m.up[one]),
             \A r \in Rows(m) :
               LET side == DefiningSide(m.coef[r][one] > 0, m.sense * m.cost[one] > 0,
                                        m.rl[r], m.ru[r])
               IN  m.coef[r][one] # 0 /\ Finite(side) =>
                     /\ side % (AbsValue(m.coef[r][one]) * Unit) = 0
                     /\ \A c \in C \ {one} : m.coef[r][c] # 0 =>
                          c \in m.int /\ AbsValue(m.coef[r][c]) % AbsValue(m.coef[r][one]) = 0
      PROVE  /\ step \in Nat \ {0} /\ \A c \in C : k[c] % step = 0
             /\ \A c \in C : k[c] # 0 => x[c] % Unit = 0
  <2>1. k[one] \in Int /\ k[one] # 0 /\ k[one] = m.cost[one] /\ \A c \in C \ {one} : k[c] = 0
    <3>1. one \in costed /\ \A c \in C \ {one} : c \notin costed
      BY <1>6
    <3> QED BY <1>1, <3>1
  <2>2. step \in Nat \ {0} /\ k[one] % step = 0
    BY <1>6, <2>1, AbsIs
  <2>3. \A c \in C : k[c] % step = 0
    <3>1. (step * 0) % step = 0 /\ step * 0 = 0
      BY <2>2, ModOfMultiple
    <3> QED BY <2>1, <2>2, <3>1
  <2>4. x[one] % Unit = 0
    <3>1. \A r \in Rows(m) : SideDefines(m, r, one)
      BY <1>6 DEF SideDefines
    <3>2. m.cost[one] \in Int /\ m.cost[one] # 0
      BY <1>1, <2>1
    <3>3. \A c \in Cols(m) : k[c] = IF c = one THEN m.cost[one] ELSE 0
      BY <2>1
    <3>4. ASSUME NEW y \in FeasiblePoints(m), \A c \in m.int : x[c] = y[c]
          PROVE  m.sense * Dot(k, x, Cols(m)) <= m.sense * Dot(k, y, Cols(m))
      <4>1. value(x) <= value(y)
        BY <3>4
      <4> QED BY <1>3, <3>4, <4>1
    <3>5. x \in FeasiblePoints(m) /\ m \in Models /\ one \in Cols(m)
      OBVIOUS
    <3>6. /\ one \notin m.int
          /\ Finite(m.lo[one]) => Whole(m.lo[one])
          /\ Finite(m.up[one]) => Whole(m.up[one])
      BY <1>6
    <3> HIDE DEF m, step, costed, same
    <3> QED BY <3>1, <3>2, <3>3, <3>4, <3>5, <3>6, BestIsWhole
  <2> QED BY <2>1, <2>2, <2>3, <2>4
<1>7. \/ costed \ m.int = {} /\ step \in Nat \ {0} /\ \A c \in costed : m.cost[c] % step = 0
      \/ \E one \in C :
           /\ costed = {one} /\ one \notin m.int /\ step = AbsValue(m.cost[one])
           /\ Finite(m.lo[one]) => Whole(m.lo[one])
           /\ Finite(m.up[one]) => Whole(m.up[one])
           /\ \A r \in Rows(m) :
               LET side == DefiningSide(m.coef[r][one] > 0, m.sense * m.cost[one] > 0,
                                        m.rl[r], m.ru[r])
               IN  m.coef[r][one] # 0 /\ Finite(side) =>
                     /\ side % (AbsValue(m.coef[r][one]) * Unit) = 0
                     /\ \A c \in C \ {one} : m.coef[r][c] # 0 =>
                          c \in m.int /\ AbsValue(m.coef[r][c]) % AbsValue(m.coef[r][one]) = 0
  BY StepIs
<1> QED BY <1>5, <1>6, <1>7

\* Whatever model the search is given, the step its bounds are rounded by is one
\* (detect_objective_integrality): the best objective value of every assignment of the
\* integer columns is a multiple of it.
THEOREM StepIsRight == Spec => []StepIsExact
<1>1. RowsInv => StepIsExact
  BY StepHolds DEF RowsInv, BoundsInv
<1>2. Spec => []IInv
  BY InitIInv, NextIInv, PTL DEF Spec
<1>3. Spec => []RowsInv
  BY <1>2, BoundsHold, InitRows, NextRows, PTL DEF Spec
<1> QED BY <1>1, <1>3, PTL
=============================================================================
