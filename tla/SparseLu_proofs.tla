--------------------------- MODULE SparseLu_proofs ---------------------------
(***************************************************************************)
(* The counts of the Markowitz elimination are exact and its row patterns  *)
(* miss no entry, for bases of any dimension over any field, whatever is   *)
(* pivoted on, fills in or cancels, and through refactorizations, updates  *)
(* and repairs.  A factored basis has permutations for its orders and no   *)
(* zero to divide by, and its updates follow one scheme at a time.         *)
(***************************************************************************)
EXTENDS SparseLu, FiniteSetTheorems, TLAPS

-----------------------------------------------------------------------------
\* The inductive invariant

Entries(i) == {j \in work.columns : work.cols[j][i] # 0}
EntriesOf(j) == {i \in work.rows : work.cols[j][i] # 0}

\* The active submatrix while it is eliminated: square, and what its counts and patterns
\* say of it.
ActiveInv ==
  /\ work.cols \in [Index -> Vectors]
  /\ work.rows \subseteq Index /\ work.columns \subseteq Index
  /\ Cardinality(work.rows) = Cardinality(work.columns)
  /\ \A i \in work.rows : work.rowCount[i] = Cardinality(Entries(i))
  /\ \A j \in work.columns : work.colCount[j] = Cardinality(EntriesOf(j))
  /\ \A i \in work.rows, j \in work.columns : work.cols[j][i] # 0 => j \in work.rowCols[i]

\* What the guard of the repair asks: a logical for each dependent position.
DefectIsSquare ==
  phase = "singular" =>
    defect.positions # {} /\ Cardinality(defect.positions) = Cardinality(defect.rows)

IInv ==
  /\ basis \in [Index -> Vectors]
  /\ phase = "eliminating" => ActiveInv
  /\ DefectIsSquare

-----------------------------------------------------------------------------
\* Arithmetic

\* The numbers of the field, and that it has two.
LEMMA FieldNumbers ==
  /\ Dim \in Nat /\ Prime \in Nat /\ Prime > 1 /\ Field \subseteq Int
  /\ 0 \in Field /\ 1 \in Field
  /\ \A v \in Int : v % Prime \in Field
  /\ \A v \in Field : v % Prime = v
<1>1. Dim \in Nat /\ Prime \in Nat /\ Prime > 1
  BY LuAssumption
<1> QED BY <1>1 DEF Field

\* An entry divided by a pivot is an entry.
LEMMA QuotientIsZero ==
  ASSUME NEW a \in Field, NEW b \in Field \ {0}
  PROVE  Quotient(a, b) \in Field /\ (Quotient(a, b) = 0 <=> a = 0)
<1> DEFINE c == CHOOSE c \in Field : (b * c) % Prime = 1
<1>1. c \in Field /\ (b * c) % Prime = 1
  <2>1. \E d \in Field : (b * d) % Prime = 1
    BY LuAssumption
  <2> QED BY <2>1, Zenon
<1>2. Quotient(a, b) = (a * c) % Prime
  BY Zenon DEF Quotient
<1> HIDE DEF c
<1>3. Prime \in Nat /\ Prime > 1 /\ a \in Int /\ b \in Int /\ c \in Int /\ 0 <= a /\ a < Prime
  BY <1>1, FieldNumbers DEF Field
<1>4. (a * c) % Prime \in Field
  BY <1>3, FieldNumbers
<1>5. a = 0 => (a * c) % Prime = 0
  BY <1>3
<1>6. ASSUME (a * c) % Prime = 0 PROVE a = 0
  <2>1. PICK q \in Int : a * c = Prime * q
    BY <1>3, <1>6
  <2>2. PICK k \in Int : b * c = Prime * k + 1
    BY <1>1, <1>3
  <2>3. a * (b * c) = b * (a * c)
    BY <1>3
  <2>4. a * (b * c) = Prime * (a * k) + a
    BY <1>3, <2>2
  <2>5. b * (a * c) = Prime * (b * q)
    BY <1>3, <2>1
  <2> DEFINE d == b * q - a * k
  <2>6. d \in Int /\ a = Prime * d
    BY <1>3, <2>3, <2>4, <2>5
  <2> HIDE DEF d
  <2>7. d < 1
    BY <1>3, <2>6
  <2>8. d > -1
    BY <1>3, <2>6
  <2> QED BY <1>3, <2>6, <2>7, <2>8
<1> QED BY <1>2, <1>4, <1>5, <1>6

\* An updated entry is an entry.
LEMMA MinusIs ==
  ASSUME NEW v \in Vectors, NEW c \in Field, NEW w \in Vectors
  PROVE  /\ Minus(v, c, w) \in Vectors
         /\ \A i \in Index : w[i] = 0 => Minus(v, c, w)[i] = v[i]
<1>1. ASSUME NEW i \in Index PROVE (v[i] - c * w[i]) % Prime \in Field
  <2>1. v[i] \in Int /\ w[i] \in Int /\ c \in Int
    BY FieldNumbers DEF Vectors
  <2>2. v[i] - c * w[i] \in Int
    BY <2>1, FieldNumbers
  <2> QED BY <2>2, FieldNumbers
<1>2. ASSUME NEW i \in Index, w[i] = 0 PROVE (v[i] - c * w[i]) % Prime = v[i]
  <2>1. v[i] \in Field /\ c \in Int /\ v[i] \in Int
    BY FieldNumbers DEF Vectors
  <2>2. v[i] - c * w[i] = v[i]
    BY <1>2, <2>1
  <2> QED BY <2>1, <2>2, FieldNumbers
<1> QED BY <1>1, <1>2 DEF Minus, Vectors

\* Unit vectors are vectors.
LEMMA UnitIs == \A i : Unit(i) \in Vectors
BY FieldNumbers DEF Unit, Zero, Vectors

-----------------------------------------------------------------------------
\* Counting

\* Sets that agree outside T differ in size by what T has in the one and not in the other.
LEMMA Changed ==
  ASSUME NEW A, NEW B, NEW T, IsFiniteSet(A), IsFiniteSet(B), IsFiniteSet(T),
         A \cup T = B \cup T
  PROVE  /\ Cardinality(B) = Cardinality(A) + (Cardinality(T \ A) - Cardinality(T \ B))
         /\ Cardinality(A) \in Nat /\ Cardinality(B) \in Nat
         /\ Cardinality(T \ A) \in Nat /\ Cardinality(T \ B) \in Nat
<1>1. \A X : IsFiniteSet(X) =>
        /\ Cardinality(X \cup T) = Cardinality(X) + Cardinality(T \ X)
        /\ Cardinality(X) \in Nat /\ Cardinality(T \ X) \in Nat
  <2> SUFFICES ASSUME NEW X, IsFiniteSet(X)
               PROVE  /\ Cardinality(X \cup T) = Cardinality(X) + Cardinality(T \ X)
                      /\ Cardinality(X) \in Nat /\ Cardinality(T \ X) \in Nat
    OBVIOUS
  <2>1. IsFiniteSet(T \ X)
    BY FS_Difference
  <2>2. X \cup (T \ X) = X \cup T /\ X \cap (T \ X) = {}
    OBVIOUS
  <2>3. Cardinality(X \cup (T \ X))
          = Cardinality(X) + Cardinality(T \ X) - Cardinality(X \cap (T \ X))
    BY <2>1, FS_Union
  <2>4. Cardinality(X) \in Nat /\ Cardinality(T \ X) \in Nat
    BY <2>1, FS_CardinalityType
  <2>5. Cardinality(X \cap (T \ X)) = 0
    BY <2>2, FS_EmptySet
  <2>6. Cardinality(X \cup (T \ X)) = Cardinality(X) + Cardinality(T \ X)
    BY <2>3, <2>4, <2>5
  <2> QED BY <2>2, <2>4, <2>6
<1>2. Cardinality(A) + Cardinality(T \ A) = Cardinality(B) + Cardinality(T \ B)
  BY <1>1
<1>3. /\ Cardinality(A) \in Nat /\ Cardinality(B) \in Nat
      /\ Cardinality(T \ A) \in Nat /\ Cardinality(T \ B) \in Nat
  BY <1>1
<1> QED BY <1>2, <1>3

\* One element less.
LEMMA WithoutOne ==
  ASSUME NEW S, IsFiniteSet(S), NEW x \in S
  PROVE  IsFiniteSet(S \ {x}) /\ Cardinality(S \ {x}) = Cardinality(S) - 1
BY FS_RemoveElement

\* Sets of indices are finite.
LEMMA IndexFinite == \A S \in SUBSET Index : IsFiniteSet(S)
<1>1. IsFiniteSet(Index)
  BY FieldNumbers, FS_Interval DEF Index
<1> QED BY <1>1, FS_Subset
-----------------------------------------------------------------------------
\* The steps

\* A freshly loaded basis.
LEMMA LoadedIs ==
  ASSUME NEW b \in [Index -> Vectors], work' = Loaded(b)
  PROVE  ActiveInv'
<1>1. /\ work'.cols = b /\ work'.rows = Index /\ work'.columns = Index
      /\ work'.rowCols = [i \in Index |-> {j \in Index : b[j][i] # 0}]
      /\ work'.rowCount = [i \in Index |-> Cardinality({j \in Index : b[j][i] # 0})]
      /\ work'.colCount = [j \in Index |-> Cardinality({i \in Index : b[j][i] # 0})]
  BY DEF Loaded
<1>2. /\ \A i : Entries(i)' = {j \in Index : b[j][i] # 0}
      /\ \A j : EntriesOf(j)' = {i \in Index : b[j][i] # 0}
  BY <1>1, Zenon DEF Entries, EntriesOf
<1>3. \A i \in Index : work'.rowCount[i] = Cardinality(Entries(i)')
  BY <1>1, <1>2
<1>4. \A j \in Index : work'.colCount[j] = Cardinality(EntriesOf(j)')
  BY <1>1, <1>2
<1>5. \A i, j \in Index : b[j][i] # 0 => j \in work'.rowCols[i]
  BY <1>1
<1> QED BY <1>1, <1>3, <1>4, <1>5 DEF ActiveInv

\* The counts after a pivot: a row or a column loses the pivot's entry, gains what filled in
\* and loses what cancelled.
LEMMA EliminateKeepsTheCounts ==
  ASSUME ActiveInv, NEW i \in Index, NEW j \in Index, ActiveEntry(i, j),
         work' = Eliminated(i, j).work
  PROVE  ActiveInv'
<1> DEFINE multiplier == [r \in Index |-> IF r \in work.rows \ {i}
                            THEN Quotient(work.cols[j][r], work.cols[j][i]) ELSE 0]
           touched == Touched(i, j)
           updated == [c \in Index |-> IF c \in touched
                         THEN [Minus(work.cols[c], work.cols[c][i], multiplier) EXCEPT ![i] = 0]
                         ELSE work.cols[c]]
           Filled(r, c) == multiplier[r] # 0 /\ work.cols[c][r] = 0
           Cancelled(r, c) == multiplier[r] # 0 /\ updated[c][r] = 0
           Change(S, T) == Cardinality(S) - Cardinality(T)
           rowCols == [r \in Index |-> work.rowCols[r] \cup {c \in touched : Filled(r, c)}]
           rowCount == [r \in Index |->
             work.rowCount[r] - (IF multiplier[r] # 0 THEN 1 ELSE 0)
               + Change({c \in touched : Filled(r, c)}, {c \in touched : Cancelled(r, c)})]
           colCount == [c \in Index |->
             IF c \notin touched THEN work.colCount[c]
             ELSE work.colCount[c] - 1
               + Change({r \in Index : Filled(r, c)}, {r \in Index : Cancelled(r, c)})]
           rows == work.rows \ {i}
           columns == work.columns \ {j}
<1>1. work' = [cols |-> updated, rowCols |-> rowCols, rowCount |-> rowCount,
               colCount |-> colCount, rows |-> rows, columns |-> columns]
  <2>1. Eliminated(i, j).work
          = [cols |-> updated, rowCols |-> rowCols, rowCount |-> rowCount,
             colCount |-> colCount, rows |-> rows, columns |-> columns]
    BY DEF Eliminated
  <2> QED BY <2>1
<1>2. /\ work.cols \in [Index -> Vectors] /\ work.rows \subseteq Index
      /\ work.columns \subseteq Index /\ Cardinality(work.rows) = Cardinality(work.columns)
  BY DEF ActiveInv
<1>3. i \in work.rows /\ j \in work.columns /\ work.cols[j][i] # 0
  BY DEF ActiveEntry
<1>4. \A c, r \in Index : work.cols[c][r] \in Field
  BY <1>2 DEF Vectors
<1>5. \A r \in rows : multiplier[r] \in Field /\ (multiplier[r] = 0 <=> work.cols[j][r] = 0)
  <2> SUFFICES ASSUME NEW r \in rows
               PROVE  multiplier[r] \in Field /\ (multiplier[r] = 0 <=> work.cols[j][r] = 0)
    OBVIOUS
  <2>1. work.cols[j][r] \in Field /\ work.cols[j][i] \in Field \ {0} /\ r \in Index
    BY <1>2, <1>3, <1>4
  <2>2. multiplier[r] = Quotient(work.cols[j][r], work.cols[j][i])
    BY <2>1
  <2> QED BY <2>1, <2>2, QuotientIsZero
<1>6. \A r \in Index \ rows : multiplier[r] = 0
  OBVIOUS
<1>7. multiplier \in Vectors
  BY <1>5, <1>6, FieldNumbers DEF Vectors
<1>8. touched = {c \in columns : work.cols[c][i] # 0}
  <2>1. touched = {c \in work.rowCols[i] \cap columns : work.cols[c][i] # 0}
    BY Zenon DEF Touched
  <2>2. \A c \in columns : work.cols[c][i] # 0 => c \in work.rowCols[i]
    BY <1>3 DEF ActiveInv
  <2> QED BY <2>1, <2>2
<1> HIDE DEF multiplier, touched
<1>9. \A c \in Index \ touched : updated[c] = work.cols[c]
  OBVIOUS
<1>10. \A c \in touched :
         /\ updated[c] \in Vectors /\ updated[c][i] = 0
         /\ \A r \in Index \ {i} : multiplier[r] = 0 => updated[c][r] = work.cols[c][r]
  <2> SUFFICES ASSUME NEW c \in touched
               PROVE  /\ updated[c] \in Vectors /\ updated[c][i] = 0
                      /\ \A r \in Index \ {i} : multiplier[r] = 0 => updated[c][r] = work.cols[c][r]
    OBVIOUS
  <2> DEFINE v == Minus(work.cols[c], work.cols[c][i], multiplier)
  <2>1. c \in Index /\ work.cols[c] \in Vectors /\ work.cols[c][i] \in Field
    BY <1>2, <1>4, <1>8
  <2>2. v \in Vectors /\ \A r \in Index : multiplier[r] = 0 => v[r] = work.cols[c][r]
    BY <1>7, <2>1, MinusIs
  <2>3. updated[c] = [v EXCEPT ![i] = 0]
    BY <2>1
  <2> HIDE DEF v, updated
  <2> QED BY <2>2, <2>3, FieldNumbers DEF Vectors
<1> HIDE DEF updated
<1>11. updated \in [Index -> Vectors]
  <2>1. \A c \in Index : updated[c] \in Vectors
    BY <1>2, <1>9, <1>10
  <2>2. updated = [c \in Index |-> updated[c]]
    BY DEF updated
  <2> QED BY <2>1, <2>2
<1>12. /\ IsFiniteSet(rows) /\ IsFiniteSet(columns) /\ Cardinality(rows) = Cardinality(columns)
       /\ IsFiniteSet(work.rows) /\ IsFiniteSet(work.columns)
  BY <1>2, <1>3, IndexFinite, WithoutOne
<1>13. ASSUME NEW r \in rows
       PROVE  rowCount[r] = Cardinality({c \in columns : updated[c][r] # 0})
  <2> DEFINE A == {c \in columns : work.cols[c][r] # 0}
             B == {c \in columns : updated[c][r] # 0}
             F == {c \in touched : Filled(r, c)}
             C == {c \in touched : Cancelled(r, c)}
  <2>1. r \in Index /\ r # i /\ r \in work.rows
    BY <1>2
  <2>2. rowCount[r] = work.rowCount[r] - (IF multiplier[r] # 0 THEN 1 ELSE 0)
                        + (Cardinality(F) - Cardinality(C))
    BY <2>1
  <2>3. work.rowCount[r] = Cardinality(Entries(r))
    BY <2>1 DEF ActiveInv
  <2>4. IsFiniteSet(Entries(r)) /\ IsFiniteSet(A) /\ IsFiniteSet(B) /\ IsFiniteSet(touched)
    BY <1>8, <1>12, FS_Subset DEF Entries
  <2>5. CASE multiplier[r] = 0
    <3>1. j \notin Entries(r) /\ Entries(r) = A
      BY <1>5, <2>5 DEF Entries
    <3>2. \A c \in columns : updated[c][r] = work.cols[c][r]
      BY <1>2, <1>9, <1>10, <2>1, <2>5
    <3>3. F = {} /\ C = {} /\ A = B
      BY <2>5, <3>2
    <3>4. Cardinality(A) \in Nat /\ Cardinality(F) = 0 /\ Cardinality(C) = 0
      BY <2>4, <3>3, FS_CardinalityType, FS_EmptySet
    <3> HIDE DEF A, B, F, C, rowCount
    <3>5. rowCount[r] = Cardinality(B)
      BY <2>2, <2>3, <2>5, <3>1, <3>3, <3>4
    <3> QED BY <3>5 DEF B
  <2>6. CASE multiplier[r] # 0
    <3>1. j \in Entries(r) /\ A = Entries(r) \ {j}
      BY <1>3, <1>5, <2>6 DEF Entries
    <3>2. Cardinality(A) = Cardinality(Entries(r)) - 1
      BY <2>4, <3>1, WithoutOne
    <3>3. F = touched \ A /\ C = touched \ B
      BY <1>8, <2>6
    <3>4. A \cup touched = B \cup touched
      <4>1. \A c \in columns : c \notin touched => updated[c][r] = work.cols[c][r]
        BY <1>2, <1>9
      <4> QED BY <1>8, <4>1
    <3> HIDE DEF A, B, F, C, rowCount
    <3>5. /\ Cardinality(B) = Cardinality(A) + (Cardinality(F) - Cardinality(C))
          /\ Cardinality(A) \in Nat /\ Cardinality(F) \in Nat /\ Cardinality(C) \in Nat
      BY <2>4, <3>3, <3>4, Changed
    <3>6. Cardinality(Entries(r)) \in Nat
      BY <2>4, FS_CardinalityType
    <3>7. rowCount[r] = Cardinality(B)
      BY <2>2, <2>3, <2>6, <3>2, <3>5, <3>6
    <3> QED BY <3>7 DEF B
  <2> QED BY <2>5, <2>6
<1>14. ASSUME NEW c \in columns
       PROVE  colCount[c] = Cardinality({r \in rows : updated[c][r] # 0})
  <2> DEFINE A == {r \in rows : work.cols[c][r] # 0}
             B == {r \in rows : updated[c][r] # 0}
             T == {r \in Index : multiplier[r] # 0}
             F == {r \in Index : Filled(r, c)}
             C == {r \in Index : Cancelled(r, c)}
  <2>1. c \in Index /\ c # j /\ c \in work.columns
    BY <1>2
  <2>2. work.colCount[c] = Cardinality(EntriesOf(c))
    BY <2>1 DEF ActiveInv
  <2>3. IsFiniteSet(EntriesOf(c)) /\ IsFiniteSet(A) /\ IsFiniteSet(B) /\ IsFiniteSet(T)
    BY <1>12, FS_Subset, IndexFinite DEF EntriesOf
  <2>4. CASE c \notin touched
    <3>1. updated[c] = work.cols[c] /\ work.cols[c][i] = 0
      BY <1>8, <1>9, <2>1, <2>4
    <3>2. EntriesOf(c) = B
      BY <3>1 DEF EntriesOf
    <3>3. colCount[c] = work.colCount[c]
      BY <2>1, <2>4
    <3> QED BY <2>2, <3>2, <3>3
  <2>5. CASE c \in touched
    <3>1. colCount[c] = work.colCount[c] - 1 + (Cardinality(F) - Cardinality(C))
      BY <2>1, <2>5
    <3>2. i \in EntriesOf(c) /\ A = EntriesOf(c) \ {i}
      BY <1>3, <1>8, <2>5 DEF EntriesOf
    <3>3. Cardinality(A) = Cardinality(EntriesOf(c)) - 1
      BY <2>3, <3>2, WithoutOne
    <3>4. T \subseteq rows
      BY <1>6
    <3>5. F = T \ A /\ C = T \ B
      BY <3>4
    <3>6. A \cup T = B \cup T
      <4>1. \A r \in rows : multiplier[r] = 0 => updated[c][r] = work.cols[c][r]
        BY <1>2, <1>10, <2>5
      <4>2. \A r \in rows : r \in Index
        BY <1>2
      <4> QED BY <4>1, <4>2
    <3> HIDE DEF A, B, T, F, C, colCount
    <3>7. /\ Cardinality(B) = Cardinality(A) + (Cardinality(F) - Cardinality(C))
          /\ Cardinality(A) \in Nat /\ Cardinality(F) \in Nat /\ Cardinality(C) \in Nat
      BY <2>3, <3>5, <3>6, Changed
    <3>8. Cardinality(EntriesOf(c)) \in Nat
      BY <2>3, FS_CardinalityType
    <3>9. colCount[c] = Cardinality(B)
      BY <2>2, <3>1, <3>3, <3>7, <3>8
    <3> QED BY <3>9 DEF B
  <2> QED BY <2>4, <2>5
<1>15. ASSUME NEW r \in rows, NEW c \in columns, updated[c][r] # 0
       PROVE  c \in rowCols[r]
  <2>1. r \in Index /\ c \in Index /\ r # i
    BY <1>2
  <2>2. rowCols[r] = work.rowCols[r] \cup {d \in touched : Filled(r, d)}
    BY <2>1
  <2>3. CASE work.cols[c][r] # 0
    BY <2>2, <2>3 DEF ActiveInv
  <2>4. CASE work.cols[c][r] = 0
    <3>1. c \in touched
      BY <1>9, <1>15, <2>1, <2>4
    <3>2. multiplier[r] # 0
      BY <1>10, <1>15, <2>1, <2>4, <3>1
    <3> QED BY <2>2, <2>4, <3>1, <3>2
  <2> QED BY <2>3, <2>4
<1> HIDE DEF rowCols, rowCount, colCount
<1>16. /\ work'.cols = updated /\ work'.rows = rows /\ work'.columns = columns
       /\ work'.rowCols = rowCols /\ work'.rowCount = rowCount /\ work'.colCount = colCount
  BY <1>1
<1>17. /\ \A r : Entries(r)' = {c \in columns : updated[c][r] # 0}
       /\ \A c : EntriesOf(c)' = {r \in rows : updated[c][r] # 0}
  BY <1>16, Zenon DEF Entries, EntriesOf
<1>18. rows \subseteq Index /\ columns \subseteq Index
  BY <1>2
<1> HIDE DEF rows, columns
<1>19. \A r \in rows : rowCount[r] = Cardinality(Entries(r)')
  BY <1>13, <1>17, Zenon
<1>20. \A c \in columns : colCount[c] = Cardinality(EntriesOf(c)')
  BY <1>14, <1>17, Zenon
<1> QED BY <1>11, <1>12, <1>15, <1>16, <1>18, <1>19, <1>20, Zenon DEF ActiveInv

\* The repaired basis is a basis.
LEMMA RepairedIs == basis \in [Index -> Vectors] => Repaired \in [Index -> Vectors]
<1> SUFFICES ASSUME basis \in [Index -> Vectors] PROVE Repaired \in [Index -> Vectors]
  OBVIOUS
<1>1. \E P, u : Repaired = [j \in Index |-> IF j \in P THEN Unit(u[j]) ELSE basis[j]]
  <2> DEFINE slots == SetToSortSeq(defect.positions, <)
             rows == SetToSortSeq(defect.rows, <)
             Slot(j) == CHOOSE t \in DOMAIN slots : slots[t] = j
             Patched(j) == /\ j \in defect.positions
                           /\ Unit(rows[Slot(j)]) \notin {basis[c] : c \in Index}
             P == {j \in Index : Patched(j)}
             u == [j \in Index |-> rows[Slot(j)]]
  <2>1. Repaired = [j \in Index |-> IF Patched(j) THEN Unit(rows[Slot(j)]) ELSE basis[j]]
    BY Zenon DEF Repaired
  <2> HIDE DEF slots, rows, Slot, Patched
  <2>2. Repaired = [j \in Index |-> IF j \in P THEN Unit(u[j]) ELSE basis[j]]
    BY <2>1
  <2> QED BY <2>2, Zenon
<1>2. PICK P, u : Repaired = [j \in Index |-> IF j \in P THEN Unit(u[j]) ELSE basis[j]]
  BY <1>1, Zenon
<1> QED BY <1>2, UnitIs

\* The first basis is one the simplex hands over.
LEMMA InitIInv == Init => IInv
BY LuAssumption DEF Init, IInv, DefectIsSquare

\* Every step preserves the invariant.
LEMMA NextIInv == IInv /\ [Next]_vars => IInv'
<1> SUFFICES ASSUME IInv, [Next]_vars PROVE IInv'
  OBVIOUS
<1>1. CASE Factorize
  <2>1. basis' = basis /\ phase' = "eliminating" /\ work' = Loaded(basis)
    BY <1>1, Zenon DEF Factorize
  <2>2. ActiveInv'
    BY <2>1, LoadedIs DEF IInv, DefectIsSquare
  <2> QED BY <2>1, <2>2 DEF IInv, DefectIsSquare
<1>2. ASSUME NEW i \in Index, NEW j \in Index, EliminatePivot(i, j) PROVE IInv'
  <2>1. /\ phase = "eliminating" /\ phase' = phase /\ basis' = basis
        /\ ActiveEntry(i, j) /\ work' = Eliminated(i, j).work
    BY <1>2, Zenon DEF EliminatePivot, Admissible
  <2>2. ActiveInv'
    BY <2>1, EliminateKeepsTheCounts DEF IInv, DefectIsSquare
  <2> QED BY <2>1, <2>2 DEF IInv, DefectIsSquare
<1>3. CASE StoppedEarly
  BY <1>3 DEF StoppedEarly, IInv, DefectIsSquare
<1>4. CASE Singular
  <2>1. /\ phase = "eliminating" /\ phase' = "singular" /\ basis' = basis
        /\ defect' = [positions |-> work.columns, rows |-> work.rows] /\ work.rows # {}
    BY <1>4, Zenon DEF Singular
  <2>2. Cardinality(work.rows) = Cardinality(work.columns) /\ work.rows \subseteq Index
    BY <2>1 DEF IInv, ActiveInv
  <2>3. work.columns # {}
    <3>1. Cardinality(work.rows) # 0
      BY <2>1, <2>2, IndexFinite, FS_EmptySet
    <3>2. Cardinality({}) = 0
      BY FS_EmptySet
    <3> QED BY <2>2, <3>1, <3>2
  <2> QED BY <2>1, <2>2, <2>3 DEF IInv, DefectIsSquare
<1>5. CASE Factored
  <2>1. phase' = "factored" /\ basis' = basis
    BY <1>5, Zenon DEF Factored
  <2> QED BY <2>1 DEF IInv, DefectIsSquare
<1>6. CASE RepairBasis
  <2>1. basis' = Repaired /\ phase' = "eliminating" /\ work' = Loaded(Repaired)
    BY <1>6, Zenon DEF RepairBasis
  <2>2. Repaired \in [Index -> Vectors]
    BY RepairedIs DEF IInv, DefectIsSquare
  <2>3. ActiveInv'
    BY <2>1, <2>2, LoadedIs
  <2> QED BY <2>1, <2>2, <2>3 DEF IInv, DefectIsSquare
<1>7. ASSUME NEW p \in Index, NEW a \in Entering, Update(p, a) PROVE IInv'
  <2>1. phase = "factored" /\ phase' = phase /\ basis' = [basis EXCEPT ![p] = a]
    BY <1>7, Zenon DEF Update, ProductForm, ForrestTomlin
  <2>2. a \in Vectors
    BY LuAssumption
  <2> QED BY <2>1, <2>2 DEF IInv, DefectIsSquare
<1>8. CASE UpdateRefused
  <2>1. phase = "factored" /\ phase' = phase /\ basis' = basis
    BY <1>8, Zenon DEF UpdateRefused
  <2> QED BY <2>1 DEF IInv, DefectIsSquare
<1>9. ASSUME NEW on \in BOOLEAN, UseForrestTomlin(on) PROVE IInv'
  <2>1. phase = "factored" /\ phase' = phase /\ basis' = basis
    BY <1>9, Zenon DEF UseForrestTomlin
  <2> QED BY <2>1 DEF IInv, DefectIsSquare
<1>10. CASE UNCHANGED vars
  BY <1>10 DEF vars, IInv, DefectIsSquare, ActiveInv, Entries, EntriesOf
<1> QED BY <1>1, <1>2, <1>3, <1>4, <1>5, <1>6, <1>7, <1>8, <1>9, <1>10, Zenon DEF Next

\* The invariant holds throughout.
LEMMA Invariance == Spec => []IInv
BY InitIInv, NextIInv, PTL DEF Spec

\* The counts and the patterns the pivot search reads are those of the entries there are.
THEOREM CountsAreExact == Spec => []CountsExact
<1>1. IInv => CountsExact
  BY DEF IInv, ActiveInv, Entries, EntriesOf, CountsExact
<1> QED BY <1>1, Invariance, PTL

\* A reported defect names at least one position, and as many positions as rows: the repair
\* has a logical for each, so no singular basis is left as it is (dependent_positions(),
\* uncovered_rows(), repair_basis()).
THEOREM DefectsAreSquare == Spec => []DefectIsSquare
<1>1. IInv => DefectIsSquare
  BY DEF IInv
<1> QED BY <1>1, Invariance, PTL

-----------------------------------------------------------------------------
\* What the solves lean on

Permutes(f) ==
  /\ f \in [Index -> Index]
  /\ \A k, l \in Index : f[k] = f[l] => k = l
  /\ \A i \in Index : \E k \in Index : f[k] = i

\* An elimination order so far: pivots where row and column have left the submatrix.
OrderInv(order, active) ==
  /\ order \in Seq(Index)
  /\ Len(order) + Cardinality(active) = Dim
  /\ \A k, l \in DOMAIN order : order[k] = order[l] => k = l
  /\ \A k \in DOMAIN order : order[k] \notin active
  /\ \A i \in Index \ active : \E k \in DOMAIN order : order[k] = i

PivotInv ==
  /\ OrderInv(factors.row, work.rows) /\ OrderInv(factors.col, work.columns)
  /\ factors.pivot \in Seq(Field \ {0}) /\ Len(factors.pivot) = Len(factors.row)

\* Both orders of the factors are permutations and no pivot is zero.
FactorsAreUsable ==
  phase = "factored" =>
    /\ Permutes(factors.row) /\ Permutes(factors.col)
    /\ factors.pivot \in [Index -> Field \ {0}]

\* The eta file, none of whose pivots is zero, and the folds of the Forrest-Tomlin copy.
EtasInv == \E S : etas \in Seq(S) /\ \A e \in S : e.position \in Index /\ e.pivot # 0
FoldInv ==
  ft.active =>
    /\ DOMAIN ft.diag = Index /\ \A s \in Index : ft.diag[s] # 0
    /\ \E S : ft.retas \in Seq(S)

\* An eta file and a folded U never stand together.
SchemesNeverMix == ft.active => etas = <<>>

UpdatesInv ==
  /\ phase # "factored" => etas = <<>> /\ ~ft.active
  /\ EtasInv /\ FoldInv /\ SchemesNeverMix
  /\ EtaCount <= MaxEtaCount

UInv == (phase = "eliminating" => PivotInv) /\ FactorsAreUsable /\ UpdatesInv

\* An order nothing has left is empty.
LEMMA OrderStarts == OrderInv(<<>>, Index)
<1>1. Cardinality(Index) = Dim
  BY FieldNumbers, FS_Interval DEF Index
<1>2. Len(<<>>) = 0 /\ DOMAIN <<>> = {} /\ <<>> \in Seq(Index)
  OBVIOUS
<1> QED BY <1>1, <1>2, FieldNumbers DEF OrderInv

\* A pivot extends an order.
LEMMA OrderGrows ==
  ASSUME NEW order, NEW active, active \subseteq Index, OrderInv(order, active),
         NEW i \in active
  PROVE  OrderInv(Append(order, i), active \ {i})
<1> DEFINE longer == Append(order, i)
<1>1. order \in Seq(Index) /\ i \in Index /\ Len(order) \in Nat
  BY DEF OrderInv
<1>2. /\ longer \in Seq(Index) /\ Len(longer) = Len(order) + 1
      /\ \A k \in DOMAIN order : longer[k] = order[k]
      /\ longer[Len(order) + 1] = i
      /\ DOMAIN longer = DOMAIN order \cup {Len(order) + 1}
  BY <1>1
<1>3. Cardinality(active \ {i}) = Cardinality(active) - 1 /\ Cardinality(active) \in Nat
  BY IndexFinite, WithoutOne, FS_CardinalityType
<1> HIDE DEF longer
<1>4. Len(longer) + Cardinality(active \ {i}) = Dim
  <2>1. Len(order) + Cardinality(active) = Dim
    BY DEF OrderInv
  <2>2. /\ Len(longer) = Len(order) + 1 /\ Len(order) \in Nat
        /\ Cardinality(active \ {i}) = Cardinality(active) - 1 /\ Cardinality(active) \in Nat
    BY <1>1, <1>2, <1>3, Zenon
  <2> QED BY <2>1, <2>2
<1>5. \A k \in DOMAIN order : order[k] \notin active /\ order[k] # i
  BY DEF OrderInv
<1>6. \A k, l \in DOMAIN longer : longer[k] = longer[l] => k = l
  BY <1>2, <1>5 DEF OrderInv
<1>7. \A k \in DOMAIN longer : longer[k] \notin active \ {i}
  BY <1>2, <1>5
<1>8. \A c \in Index \ (active \ {i}) : \E k \in DOMAIN longer : longer[k] = c
  BY <1>2 DEF OrderInv
<1>9. OrderInv(longer, active \ {i})
  BY <1>2, <1>4, <1>6, <1>7, <1>8 DEF OrderInv
<1> QED BY <1>9 DEF longer

\* An order with nothing left to pivot is a permutation.
LEMMA OrderEnds == ASSUME NEW order, OrderInv(order, {}) PROVE Permutes(order)
<1>1. order \in Seq(Index) /\ Len(order) = Dim
  BY FS_EmptySet, FieldNumbers DEF OrderInv
<1>2. DOMAIN order = Index /\ order \in [Index -> Index]
  BY <1>1 DEF Index
<1> QED BY <1>2 DEF OrderInv, Permutes

\* The empty eta file.
LEMMA NoEtas ==
  /\ \E S : <<>> \in Seq(S) /\ \A e \in S : e.position \in Index /\ e.pivot # 0
  /\ \E S : <<>> \in Seq(S)
  /\ Len(<<>>) = 0
<1>1. PICK S : S = {}
  OBVIOUS
<1>2. <<>> \in Seq(S)
  OBVIOUS
<1>3. \A e \in S : e.position \in Index /\ e.pivot # 0
  BY <1>1
<1>4. Len(<<>>) = 0
  OBVIOUS
<1> QED BY <1>2, <1>3, <1>4, Zenon

\* A load starts both orders.
LEMMA LoadStartsTheOrders ==
  ASSUME NEW b, work' = Loaded(b), factors' = NoFactors
  PROVE  PivotInv'
<1>1. work'.rows = Index /\ work'.columns = Index
  BY DEF Loaded
<1>2. factors'.row = <<>> /\ factors'.col = <<>> /\ factors'.pivot = <<>>
  BY DEF NoFactors
<1>3. <<>> \in Seq(Field \ {0})
  OBVIOUS
<1> QED BY <1>1, <1>2, <1>3, OrderStarts DEF PivotInv

\* What factorize() and the repair leave of the updates: nothing.
LEMMA NothingFiled ==
  ASSUME etas' = <<>>, ft' = NoFold
  PROVE  UpdatesInv'
<1>1. ~ft'.active
  BY DEF NoFold
<1>2. EtasInv'
  BY NoEtas, Zenon DEF EtasInv
<1>3. EtaCount' = 0
  BY <1>1, NoEtas, Zenon DEF EtaCount
<1> QED BY <1>1, <1>2, <1>3, LuAssumption DEF UpdatesInv, FoldInv, SchemesNeverMix

\* The product form files one eta, with a pivot that is not zero.
LEMMA ProductFormFilesOne ==
  ASSUME UInv, phase = "factored", phase' = phase, ~ShouldRefactorize,
         NEW p \in Index, NEW a \in Entering, ProductForm(p, a)
  PROVE  UpdatesInv'
<1> DEFINE alpha == Solve(a)
           eta == [position |-> p, pivot |-> alpha[p], alpha |-> [alpha EXCEPT ![p] = 0]]
<1>1. ~ft.active /\ alpha[p] # 0 /\ etas' = Append(etas, eta) /\ ft' = ft
  BY Zenon DEF ProductForm
<1>2. eta.position \in Index /\ eta.pivot # 0
  BY <1>1
<1> HIDE DEF eta
<1>3. PICK S : etas \in Seq(S) /\ \A e \in S : e.position \in Index /\ e.pivot # 0
  BY DEF UInv, UpdatesInv, EtasInv
<1>4. etas' \in Seq(S \cup {eta}) /\ Len(etas') = Len(etas) + 1 /\ Len(etas) \in Nat
  <2>1. etas \in Seq(S \cup {eta})
    BY <1>3
  <2> QED BY <1>1, <2>1
<1>5. \A e \in S \cup {eta} : e.position \in Index /\ e.pivot # 0
  BY <1>2, <1>3
<1>6. EtasInv'
  BY <1>4, <1>5 DEF EtasInv
<1>7. Len(etas) < MaxEtaCount
  BY <1>1, <1>4, LuAssumption DEF ShouldRefactorize, EtaCount
<1>8. ~ft'.active
  BY <1>1
<1>9. EtaCount' <= MaxEtaCount
  <2>1. EtaCount' = Len(etas')
    BY <1>8, Zenon DEF EtaCount
  <2> QED BY <1>4, <1>7, <2>1, LuAssumption
<1> QED BY <1>6, <1>8, <1>9 DEF UpdatesInv, FoldInv, SchemesNeverMix

\* U as copied for the folds has the diagonal of the factors.
LEMMA FtInitIs ==
  ASSUME FactorsAreUsable, phase = "factored"
  PROVE  /\ FtInit.active /\ FtInit.retas = <<>>
         /\ DOMAIN FtInit.diag = Index /\ \A s \in Index : FtInit.diag[s] # 0
BY DEF FactorsAreUsable, FtInit

\* A fold moves the scheme one update on and leaves no zero on the diagonal.
LEMMA ForrestTomlinFoldsOne ==
  ASSUME UInv, phase = "factored", phase' = phase, ~ShouldRefactorize,
         NEW p \in Index, NEW a \in Entering, ForrestTomlin(p, a)
  PROVE  UpdatesInv'
<1> DEFINE t == IF ft.active THEN ft ELSE FtInit
           f == Fold(t, p, a)
<1>1. /\ ft.active \/ etas = <<>>
      /\ f.diagonal # 0 /\ ft' = Folded(t, f) /\ etas' = etas
  BY Zenon DEF ForrestTomlin
<1>2. etas = <<>> /\ etas' = <<>>
  BY <1>1 DEF UInv, UpdatesInv, SchemesNeverMix
<1>3. /\ DOMAIN t.diag = Index /\ \A s \in Index : t.diag[s] # 0
      /\ \E S : t.retas \in Seq(S)
      /\ Len(t.retas) < MaxEtaCount
  <2>1. CASE ft.active
    <3>1. t = ft
      BY <2>1
    <3>2. PICK S : ft.retas \in Seq(S)
      BY <2>1 DEF UInv, UpdatesInv, FoldInv
    <3>3. Len(ft.retas) \in Nat /\ ~(Len(ft.retas) >= MaxEtaCount)
      BY <2>1, <3>2 DEF ShouldRefactorize, EtaCount
    <3>4. Len(ft.retas) < MaxEtaCount
      BY <3>3, LuAssumption
    <3> HIDE DEF t
    <3> QED BY <2>1, <3>1, <3>2, <3>4 DEF UInv, UpdatesInv, FoldInv
  <2>2. CASE ~ft.active
    <3>1. t = FtInit
      BY <2>2
    <3> HIDE DEF t
    <3>2. t.retas = <<>> /\ DOMAIN t.diag = Index /\ \A s \in Index : t.diag[s] # 0
      BY <3>1, FtInitIs DEF UInv
    <3>3. Len(t.retas) < MaxEtaCount
      BY <3>2, NoEtas, LuAssumption
    <3>4. \E S : t.retas \in Seq(S)
      BY <3>2, NoEtas, Zenon
    <3> QED BY <3>2, <3>3, <3>4, Zenon
  <2> QED BY <2>1, <2>2
<1> HIDE DEF t, f
<1>4. /\ ft'.active /\ ft'.diag = [t.diag EXCEPT ![f.step] = f.diagonal]
      /\ ft'.retas = Append(t.retas, [step |-> f.step, r |-> f.r])
  BY <1>1 DEF Folded
<1>5. DOMAIN ft'.diag = Index /\ \A s \in Index : ft'.diag[s] # 0
  BY <1>1, <1>3, <1>4
<1>6. PICK S : t.retas \in Seq(S)
  BY <1>3
<1> DEFINE eta == [step |-> f.step, r |-> f.r]
<1> HIDE DEF eta
<1>7. ft'.retas = Append(t.retas, eta)
  BY <1>4 DEF eta
<1>8. /\ ft'.retas \in Seq(S \cup {eta}) /\ Len(ft'.retas) = Len(t.retas) + 1
      /\ Len(t.retas) \in Nat
  <2>1. t.retas \in Seq(S \cup {eta})
    BY <1>6
  <2> QED BY <1>7, <2>1
<1>9. FoldInv'
  <2>1. \E T : ft'.retas \in Seq(T)
    BY <1>8, Zenon
  <2> QED BY <1>5, <2>1 DEF FoldInv
<1>10. EtaCount' <= MaxEtaCount
  <2>1. EtaCount' = Len(ft'.retas)
    BY <1>4, Zenon DEF EtaCount
  <2> QED BY <1>3, <1>8, <2>1, LuAssumption
<1>11. EtasInv'
  BY <1>2, NoEtas, Zenon DEF EtasInv
<1> QED BY <1>2, <1>9, <1>10, <1>11 DEF UpdatesInv, SchemesNeverMix

\* A refused update may leave an unfolded copy of U, filed under no eta.
LEMMA RefusalIsHarmless ==
  ASSUME UInv, phase' = phase, UpdateRefused
  PROVE  UpdatesInv'
<1>1. phase = "factored" /\ etas' = etas
  BY Zenon DEF UpdateRefused
<1>2. CASE scheme /\ ~ft.active /\ etas = <<>>
  <2>1. ft' = FtInit
    BY <1>2, Zenon DEF UpdateRefused
  <2>2. /\ ft'.active /\ ft'.retas = <<>>
        /\ DOMAIN ft'.diag = Index /\ \A s \in Index : ft'.diag[s] # 0
    BY <1>1, <2>1, FtInitIs DEF UInv
  <2>3. EtaCount' = 0
    BY <2>2, NoEtas, Zenon DEF EtaCount
  <2>4. \E S : ft'.retas \in Seq(S)
    BY <2>2, NoEtas, Zenon
  <2>5. FoldInv'
    BY <2>2, <2>4 DEF FoldInv
  <2>6. EtasInv'
    BY <1>1 DEF UInv, UpdatesInv, EtasInv
  <2> QED BY <1>1, <1>2, <2>3, <2>5, <2>6, LuAssumption DEF UpdatesInv, SchemesNeverMix
<1>3. CASE ~(scheme /\ ~ft.active /\ etas = <<>>)
  <2>1. ft' = ft
    BY <1>3, Zenon DEF UpdateRefused
  <2> QED BY <1>1, <2>1
        DEF UInv, UpdatesInv, EtasInv, FoldInv, SchemesNeverMix, EtaCount
<1> QED BY <1>2, <1>3

\* What no step touches stays as usable as it was.
LEMMA UsableStays ==
  ASSUME UInv, phase' = phase, UNCHANGED <<factors, etas, ft>>,
         phase = "eliminating" => UNCHANGED work
  PROVE  UInv'
BY DEF UInv, PivotInv, OrderInv, FactorsAreUsable, UpdatesInv, EtasInv, FoldInv,
       SchemesNeverMix, EtaCount

\* Every step keeps the factors usable.
LEMMA NextUInv == IInv /\ UInv /\ [Next]_vars => UInv'
<1> SUFFICES ASSUME IInv, UInv, [Next]_vars PROVE UInv'
  OBVIOUS
<1>1. CASE Factorize
  <2>1. /\ phase' = "eliminating" /\ work' = Loaded(basis) /\ factors' = NoFactors
        /\ etas' = <<>> /\ ft' = NoFold
    BY <1>1, Zenon DEF Factorize
  <2> QED BY <2>1, LoadStartsTheOrders, NothingFiled DEF UInv, FactorsAreUsable
<1>2. ASSUME NEW i \in Index, NEW j \in Index, EliminatePivot(i, j) PROVE UInv'
  <2> DEFINE e == Eliminated(i, j)
  <2>1. /\ phase = "eliminating" /\ phase' = phase /\ etas' = etas /\ ft' = ft
        /\ ActiveEntry(i, j) /\ work' = e.work
        /\ factors' = [row |-> Append(factors.row, i), col |-> Append(factors.col, j),
                       pivot |-> Append(factors.pivot, work.cols[j][i]),
                       l |-> Append(factors.l, e.multiplier), u |-> Append(factors.u, e.u)]
    BY <1>2, Zenon DEF EliminatePivot, Admissible
  <2>2. work'.rows = work.rows \ {i} /\ work'.columns = work.columns \ {j}
    BY <2>1 DEF Eliminated
  <2> HIDE DEF e
  <2>3. /\ factors'.row = Append(factors.row, i) /\ factors'.col = Append(factors.col, j)
        /\ factors'.pivot = Append(factors.pivot, work.cols[j][i])
    BY <2>1
  <2>4. /\ i \in work.rows /\ j \in work.columns /\ work.rows \subseteq Index
        /\ work.columns \subseteq Index /\ work.cols[j][i] \in Field \ {0}
    BY <2>1 DEF ActiveEntry, IInv, ActiveInv, Vectors
  <2>5. OrderInv(factors.row, work.rows)' /\ OrderInv(factors.col, work.columns)'
    <3>1. OrderInv(factors.row, work.rows) /\ OrderInv(factors.col, work.columns)
      BY <2>1 DEF UInv, PivotInv
    <3>2. OrderInv(Append(factors.row, i), work.rows \ {i})
      BY <2>4, <3>1, OrderGrows
    <3>3. OrderInv(Append(factors.col, j), work.columns \ {j})
      BY <2>4, <3>1, OrderGrows
    <3> QED BY <2>2, <2>3, <3>2, <3>3 DEF OrderInv
  <2>6. /\ factors'.pivot \in Seq(Field \ {0}) /\ Len(factors'.pivot) = Len(factors'.row)
    <3>1. /\ factors.pivot \in Seq(Field \ {0}) /\ Len(factors.pivot) = Len(factors.row)
          /\ factors.row \in Seq(Index)
      BY <2>1 DEF UInv, PivotInv, OrderInv
    <3> QED BY <2>3, <2>4, <3>1
  <2>7. UpdatesInv'
    BY <2>1 DEF UInv, UpdatesInv, EtasInv, FoldInv, SchemesNeverMix, EtaCount
  <2> QED BY <2>1, <2>5, <2>6, <2>7 DEF UInv, PivotInv, FactorsAreUsable
<1>3. CASE StoppedEarly \/ Singular
  <2>1. /\ phase = "eliminating" /\ phase' \in {"stopped", "singular"}
        /\ etas' = etas /\ ft' = ft
    BY <1>3, Zenon DEF StoppedEarly, Singular
  <2>2. UpdatesInv'
    BY <2>1 DEF UInv, UpdatesInv, EtasInv, FoldInv, SchemesNeverMix, EtaCount
  <2> QED BY <2>1, <2>2 DEF UInv, FactorsAreUsable
<1>4. CASE Factored
  <2>1. /\ phase = "eliminating" /\ phase' = "factored" /\ etas' = etas /\ ft' = ft
        /\ work.rows = {}
    BY <1>4, Zenon DEF Factored
  <2>2. /\ factors'.row = factors.row /\ factors'.col = factors.col
        /\ factors'.pivot = factors.pivot
    <3> DEFINE u == [k \in Index |-> [s \in Index |-> factors.u[k][factors.col[s]]]]
               lByStep == [k \in Index |-> [s \in Index |-> factors.l[k][factors.row[s]]]]
    <3>1. factors' = [row |-> factors.row, col |-> factors.col, pivot |-> factors.pivot,
                      l |-> factors.l, lr |-> Transposed(lByStep),
                      u |-> u, uc |-> Transposed(u)]
      BY <1>4, Zenon DEF Factored
    <3> HIDE DEF u, lByStep
    <3> QED BY <3>1
  <2>3. work.columns = {}
    <3>1. Cardinality(work.columns) = 0 /\ work.columns \subseteq Index
      BY <2>1, FS_EmptySet DEF IInv, ActiveInv
    <3> QED BY <3>1, IndexFinite, FS_EmptySet
  <2>4. Permutes(factors.row) /\ Permutes(factors.col)
    BY <2>1, <2>3, OrderEnds DEF UInv, PivotInv
  <2>5. factors.pivot \in [Index -> Field \ {0}]
    <3>1. factors.pivot \in Seq(Field \ {0}) /\ Len(factors.pivot) = Len(factors.row)
      BY <2>1 DEF UInv, PivotInv
    <3>2. factors.row \in Seq(Index) /\ Len(factors.row) = Dim
      <4>1. OrderInv(factors.row, {})
        BY <2>1 DEF UInv, PivotInv
      <4>2. Cardinality({}) = 0
        BY FS_EmptySet
      <4> QED BY <4>1, <4>2, FieldNumbers DEF OrderInv
    <3> QED BY <3>1, <3>2 DEF Index
  <2>6. UpdatesInv'
    BY <2>1 DEF UInv, UpdatesInv, EtasInv, FoldInv, SchemesNeverMix, EtaCount
  <2> QED BY <2>1, <2>2, <2>4, <2>5, <2>6 DEF UInv, FactorsAreUsable, Permutes
<1>5. CASE RepairBasis
  <2>1. /\ phase' = "eliminating" /\ work' = Loaded(Repaired) /\ factors' = NoFactors
        /\ etas' = <<>> /\ ft' = NoFold
    BY <1>5, Zenon DEF RepairBasis
  <2> QED BY <2>1, LoadStartsTheOrders, NothingFiled DEF UInv, FactorsAreUsable
<1>6. ASSUME NEW p \in Index, NEW a \in Entering, Update(p, a) PROVE UInv'
  <2>1. /\ phase = "factored" /\ phase' = phase /\ factors' = factors /\ ~ShouldRefactorize
        /\ ProductForm(p, a) \/ ForrestTomlin(p, a)
    BY <1>6, Zenon DEF Update
  <2>2. UpdatesInv'
    BY <2>1, ProductFormFilesOne, ForrestTomlinFoldsOne
  <2> QED BY <2>1, <2>2 DEF UInv, FactorsAreUsable
<1>7. CASE UpdateRefused
  <2>1. phase = "factored" /\ phase' = phase /\ factors' = factors
    BY <1>7, Zenon DEF UpdateRefused
  <2>2. UpdatesInv'
    BY <1>7, <2>1, RefusalIsHarmless
  <2> QED BY <2>1, <2>2 DEF UInv, FactorsAreUsable
<1>8. ASSUME NEW on \in BOOLEAN, UseForrestTomlin(on) PROVE UInv'
  <2>1. phase' = phase /\ UNCHANGED <<factors, etas, ft, work>>
    BY <1>8, Zenon DEF UseForrestTomlin
  <2> QED BY <2>1, UsableStays
<1>9. CASE UNCHANGED vars
  <2>1. phase' = phase /\ UNCHANGED <<factors, etas, ft, work>>
    BY <1>9 DEF vars
  <2> QED BY <2>1, UsableStays
<1> QED BY <1>1, <1>2, <1>3, <1>4, <1>5, <1>6, <1>7, <1>8, <1>9, Zenon DEF Next

\* Nothing is factored or filed at the start.
LEMMA InitUInv == Init => UInv
<1> SUFFICES ASSUME Init PROVE UInv
  OBVIOUS
<1>1. phase = "new" /\ etas = <<>> /\ ft = NoFold
  BY Zenon DEF Init
<1>2. ~ft.active
  BY <1>1 DEF NoFold
<1>3. EtaCount = 0
  BY <1>1, <1>2, NoEtas, Zenon DEF EtaCount
<1>4. EtasInv
  BY <1>1, NoEtas, Zenon DEF EtasInv
<1> QED BY <1>1, <1>2, <1>3, <1>4, LuAssumption
      DEF UInv, FactorsAreUsable, UpdatesInv, FoldInv, SchemesNeverMix

\* The factors are usable throughout.
LEMMA Usable == Spec => []UInv
BY Invariance, InitUInv, NextUInv, PTL DEF Spec

\* Once a basis is factored, both elimination orders are permutations, so every row and
\* every position has its step, and no solve divides by zero: not by a pivot, not by the
\* pivot of an eta, not by a diagonal the folds left (solve(), solve_transpose(), update(),
\* update_forrest_tomlin()).
THEOREM FactorsStayUsable == Spec => [](FactorsAreUsable /\ EtasInv /\ FoldInv)
<1>1. UInv => FactorsAreUsable /\ EtasInv /\ FoldInv
  BY DEF UInv, UpdatesInv
<1> QED BY <1>1, Usable, PTL

\* Whatever order updates, refusals and switches of the scheme come in, an eta file and a
\* folded U never stand together, and neither outgrows its limit: a solve follows one of
\* them and would miss what the other holds (update(), update_forrest_tomlin(),
\* use_forrest_tomlin()).
THEOREM OneSchemeAtATime == Spec => [](SchemesNeverMix /\ EtaCount <= MaxEtaCount)
<1>1. UInv => SchemesNeverMix /\ EtaCount <= MaxEtaCount
  BY DEF UInv, UpdatesInv
<1> QED BY <1>1, Usable, PTL
=============================================================================
