-------------------------- MODULE TreeSearch_proofs --------------------------
(***************************************************************************)
(* What TLAPS proves of the sequential branch and bound, for any models,   *)
(* columns, gaps, pool, options and number of resumes.  First of node      *)
(* domains: leave() undoes enter(), propagation, fixings and probes;       *)
(* propagation loses no assignment that meets the decisions; the pieces of *)
(* a split node cover it but for the point they are split at.  Then of the *)
(* search: the box is restored after every node, no assignment is lost,    *)
(* what is learned is true, the checkpoint is whole, the answer is sound,  *)
(* and a complete pool of one uninterrupted search holds the best          *)
(* assignments.                                                            *)
(***************************************************************************)
EXTENDS TreeSearch, WellFoundedInduction, SequenceTheorems, FiniteSetTheorems, TLAPS

------------------------------------------------------------------------------
(* Numbers                                                                 *)

\* Induction up to n, for a set of numbers.
LEMMA Climb ==
  ASSUME NEW n \in Nat, NEW P, 0 \in P, \A k \in 0 .. n - 1 : k \in P => k + 1 \in P
  PROVE  \A k \in 0 .. n : k \in P
<1> DEFINE T == {k \in 0 .. n : k \notin P}
<1> SUFFICES ASSUME T # {} PROVE FALSE
  OBVIOUS
<1> HIDE DEF T
<1>1. T \subseteq Nat
  BY DEF T
<1>2. PICK m \in T : \A k \in T : <<k, m>> \notin OpToRel(<, Nat)
  BY <1>1, NatLessThanWellFounded, WFMin
<1>3. \A k \in T : ~(k < m)
  BY <1>1, <1>2 DEF OpToRel
<1>4. m \in 0 .. n /\ m \notin P /\ m # 0
  BY DEF T
<1>5. m - 1 \in 0 .. n - 1 /\ m - 1 \notin T
  BY <1>3, <1>4
<1>6. m - 1 \in P
  BY <1>5 DEF T
<1> QED BY <1>4, <1>5, <1>6

\* Induction to n itself.
LEMMA ClimbTo ==
  ASSUME NEW n \in Nat, NEW P, 0 \in P, \A k \in 0 .. n - 1 : k \in P => k + 1 \in P
  PROVE  n \in P
BY Climb, n \in 0 .. n

\* A set of integers with a lower bound has a least member, and Min is it.
LEMMA MinIn ==
  ASSUME NEW b \in Int, NEW s, s \subseteq Int, s # {}, \A k \in s : b <= k
  PROVE  Min(s) \in s /\ \A y \in s : Min(s) <= y
<1> DEFINE T == {k \in Nat : k + b \in s}
<1>1. T \subseteq Nat /\ T # {}
  <2>1. PICK k \in s : TRUE
    OBVIOUS
  <2>2. k - b \in Nat /\ (k - b) + b = k
    OBVIOUS
  <2>3. k - b \in T
    BY <2>1, <2>2
  <2> QED BY <2>3
<1> HIDE DEF T
<1>2. PICK m \in T : \A k \in T : <<k, m>> \notin OpToRel(<, Nat)
  BY <1>1, NatLessThanWellFounded, WFMin
<1>3. \A k \in T : ~(k < m)
  BY <1>1, <1>2 DEF OpToRel
<1>4. m \in Nat /\ m + b \in s
  BY DEF T
<1>5. ASSUME NEW y \in s PROVE m + b <= y
  <2>1. y - b \in Nat /\ (y - b) + b = y
    OBVIOUS
  <2>2. y - b \in T
    BY <2>1 DEF T
  <2> QED BY <1>3, <1>4, <2>1, <2>2
<1>6. \E x \in s : \A y \in s : x <= y
  BY <1>4, <1>5
<1> QED BY <1>6, Zenon DEF Min

\* A set of integers with an upper bound has a greatest member, and Max is it.
LEMMA MaxBelow ==
  ASSUME NEW b \in Int, NEW s, s \subseteq Int, s # {}, \A k \in s : k <= b
  PROVE  Max(s) \in s /\ \A y \in s : y <= Max(s)
<1> DEFINE T == {k \in Nat : b - k \in s}
<1>1. T \subseteq Nat /\ T # {}
  <2>1. PICK k \in s : TRUE
    OBVIOUS
  <2>2. b - k \in Nat /\ b - (b - k) = k
    OBVIOUS
  <2>3. b - k \in T
    BY <2>1, <2>2
  <2> QED BY <2>3
<1> HIDE DEF T
<1>2. PICK m \in T : \A k \in T : <<k, m>> \notin OpToRel(<, Nat)
  BY <1>1, NatLessThanWellFounded, WFMin
<1>3. \A k \in T : ~(k < m)
  BY <1>1, <1>2 DEF OpToRel
<1>4. m \in Nat /\ b - m \in s
  BY DEF T
<1>5. ASSUME NEW y \in s PROVE b - m >= y
  <2>1. b - y \in Nat /\ b - (b - y) = y
    OBVIOUS
  <2>2. b - y \in T
    BY <2>1 DEF T
  <2> QED BY <1>3, <1>4, <2>1, <2>2
<1>6. \E x \in s : \A y \in s : x >= y
  BY <1>4, <1>5
<1>7. Max(s) \in s /\ \A y \in s : Max(s) >= y
  BY <1>6, Zenon DEF Max
<1>8. Max(s) \in Int
  BY <1>7
<1> QED BY <1>7, <1>8

\* The greatest index of a set of indices.
LEMMA MaxIn ==
  ASSUME NEW n \in Nat, NEW s \in SUBSET (1 .. n), s # {}
  PROVE  Max(s) \in s /\ \A y \in s : y <= Max(s)
<1>1. n \in Int /\ s \subseteq Int /\ \A k \in s : k <= n
  OBVIOUS
<1> QED BY <1>1, MaxBelow, Zenon

\* The greatest index of a set that has the last one.
LEMMA MaxOfUp ==
  ASSUME NEW k \in Nat, NEW s \in SUBSET (1 .. k + 1), k + 1 \in s
  PROVE  Max(s) = k + 1
<1>1. k + 1 \in Nat /\ s # {}
  OBVIOUS
<1>2. Max(s) \in s /\ k + 1 <= Max(s)
  BY <1>1, MaxIn
<1>3. Max(s) \in 1 .. k + 1
  BY <1>2
<1> QED BY <1>2, <1>3

\* A fold takes the indices off the top, one at a time.
LEMMA UpTo ==
  ASSUME NEW n \in Nat, NEW k \in 1 .. n
  PROVE  /\ Max(1 .. k) = k /\ (1 .. k) \ {k} = 1 .. k - 1
         /\ 1 .. k \in SUBSET (1 .. n) /\ 1 .. k # {}
<1>1. k \in 1 .. k /\ 1 .. k # {} /\ 1 .. k \in SUBSET (1 .. n)
  OBVIOUS
<1>2. Max(1 .. k) \in 1 .. k /\ k <= Max(1 .. k)
  BY <1>1, MaxIn
<1> QED BY <1>1, <1>2

------------------------------------------------------------------------------
(* Sequences                                                               *)

\* Sequences of none, one and two members.
LEMMA OneAndTwo ==
  ASSUME NEW S, NEW a \in S, NEW b \in S
  PROVE  /\ <<a>> \in Seq(S) /\ Len(<<a>>) = 1 /\ <<a>>[1] = a
         /\ <<a, b>> \in Seq(S) /\ Len(<<a, b>>) = 2 /\ <<a, b>>[1] = a /\ <<a, b>>[2] = b
         /\ <<>> \in Seq(S) /\ Len(<<>>) = 0
OBVIOUS

\* A reversed sequence, by position.
LEMMA ReverseOf ==
  ASSUME NEW S, NEW s \in Seq(S)
  PROVE  /\ Reverse(s) \in Seq(S) /\ Len(Reverse(s)) = Len(s)
         /\ \A k \in 1 .. Len(s) : Reverse(s)[k] = s[Len(s) - k + 1]
<1> DEFINE n == Len(s)
<1>1. n \in Nat /\ \A k \in 1 .. n : s[k] \in S
  BY LenProperties, ElementOfSeq
<1>2. \A k \in 1 .. n : n - k + 1 \in 1 .. n
  BY <1>1
<1> QED BY <1>1, <1>2 DEF Reverse

\* The last pushed is the first undone.
LEMMA ReverseAppend ==
  ASSUME NEW S, NEW s \in Seq(S), NEW e \in S
  PROVE  Reverse(Append(s, e)) = <<e>> \o Reverse(s)
<1> DEFINE n == Len(s)
           t == Append(s, e)
           u == <<e>> \o Reverse(s)
<1>1. /\ n \in Nat /\ t \in Seq(S) /\ Len(t) = n + 1 /\ t[n + 1] = e
      /\ \A k \in 1 .. n : t[k] = s[k]
  BY LenProperties, AppendProperties
<1> HIDE DEF t
<1>2. /\ Reverse(t) \in Seq(S) /\ Len(Reverse(t)) = n + 1
      /\ \A k \in 1 .. n + 1 : Reverse(t)[k] = t[n + 1 - k + 1]
  BY <1>1, ReverseOf
<1>3. /\ Reverse(s) \in Seq(S) /\ Len(Reverse(s)) = n
      /\ \A k \in 1 .. n : Reverse(s)[k] = s[n - k + 1]
  BY ReverseOf
<1>4. <<e>> \in Seq(S) /\ Len(<<e>>) = 1
  BY OneAndTwo
<1>5. /\ u \in Seq(S) /\ Len(u) = n + 1
      /\ \A k \in 1 .. n + 1 : u[k] = IF k = 1 THEN e ELSE Reverse(s)[k - 1]
  BY <1>1, <1>3, <1>4, ConcatProperties, <<e>>[1] = e
<1> HIDE DEF u
<1>6. ASSUME NEW k \in 1 .. Len(Reverse(t)) PROVE Reverse(t)[k] = u[k]
  <2>0. k \in 1 .. n + 1
    BY <1>2
  <2>1. CASE k = 1
    BY <1>1, <1>2, <1>5, <2>0, <2>1
  <2>2. CASE k # 1
    <3>1. k - 1 \in 1 .. n
      BY <1>1, <2>0, <2>2
    <3>2. n + 1 - k + 1 \in 1 .. n /\ n - (k - 1) + 1 = n + 1 - k + 1
      BY <1>1, <3>1
    <3>3. Reverse(t)[k] = t[n + 1 - k + 1] /\ u[k] = Reverse(s)[k - 1]
      BY <1>2, <1>5, <2>0, <2>2
    <3>4. Reverse(s)[k - 1] = s[n + 1 - k + 1] /\ t[n + 1 - k + 1] = s[n + 1 - k + 1]
      BY <1>1, <1>3, <3>1, <3>2
    <3> QED BY <3>3, <3>4
  <2> QED BY <2>1, <2>2
<1>7. Reverse(t) = u
  BY <1>2, <1>5, <1>6, SeqEqual
<1> QED BY <1>7 DEF t, u

\* The members of a concatenation.
LEMMA ConcatMembers ==
  ASSUME NEW S, NEW s \in Seq(S), NEW t \in Seq(S)
  PROVE  ToSet(s \o t) = ToSet(s) \cup ToSet(t)
<1> DEFINE u == s \o t
<1>1. /\ Len(s) \in Nat /\ DOMAIN s = 1 .. Len(s)
      /\ Len(t) \in Nat /\ DOMAIN t = 1 .. Len(t)
  BY LenProperties
<1>2. /\ u \in Seq(S) /\ Len(u) = Len(s) + Len(t)
      /\ \A k \in 1 .. Len(s) + Len(t) : u[k] = IF k <= Len(s) THEN s[k] ELSE t[k - Len(s)]
  BY ConcatProperties
<1> HIDE DEF u
<1>3. DOMAIN u = 1 .. Len(s) + Len(t)
  BY <1>2, LenProperties
<1>4. \A k \in DOMAIN u : u[k] \in ToSet(s) \cup ToSet(t)
  <2> SUFFICES ASSUME NEW k \in DOMAIN u PROVE u[k] \in ToSet(s) \cup ToSet(t)
    OBVIOUS
  <2>1. CASE k <= Len(s)
    BY <1>1, <1>2, <1>3, <2>1 DEF ToSet
  <2>2. CASE ~(k <= Len(s))
    <3>1. k - Len(s) \in 1 .. Len(t)
      BY <1>1, <1>3, <2>2
    <3> QED BY <1>1, <1>2, <1>3, <2>2, <3>1 DEF ToSet
  <2> QED BY <2>1, <2>2
<1>5. \A k \in DOMAIN s : s[k] \in ToSet(u)
  BY <1>1, <1>2, <1>3 DEF ToSet
<1>6. \A k \in DOMAIN t : t[k] \in ToSet(u)
  <2> SUFFICES ASSUME NEW k \in DOMAIN t PROVE t[k] \in ToSet(u)
    OBVIOUS
  <2>1. /\ k + Len(s) \in 1 .. Len(s) + Len(t) /\ ~(k + Len(s) <= Len(s))
        /\ (k + Len(s)) - Len(s) = k
    BY <1>1
  <2>2. u[k + Len(s)] = t[k]
    BY <1>2, <2>1
  <2> QED BY <1>3, <2>1, <2>2 DEF ToSet
<1>7. ToSet(u) = ToSet(s) \cup ToSet(t)
  BY <1>4, <1>5, <1>6 DEF ToSet
<1> QED BY <1>7 DEF u

\* Removing at a position loses that member and no other.
LEMMA RemoveAtMembers ==
  ASSUME NEW S, NEW s \in Seq(S), NEW k \in 1 .. Len(s)
  PROVE  /\ RemoveAt(s, k) \in Seq(S) /\ Len(RemoveAt(s, k)) = Len(s) - 1
         /\ ToSet(RemoveAt(s, k)) \subseteq ToSet(s)
         /\ \A i \in DOMAIN s : i # k => s[i] \in ToSet(RemoveAt(s, k))
<1> DEFINE n == Len(s)
           a == SubSeq(s, 1, k - 1)
           b == SubSeq(s, k + 1, n)
<1>1. n \in Nat /\ DOMAIN s = 1 .. n /\ \A i \in 1 .. n : s[i] \in S
  BY LenProperties, ElementOfSeq
<1>2. a \in Seq(S) /\ Len(a) = k - 1 /\ \A i \in 1 .. k - 1 : a[i] = s[i]
  <2>1. k - 1 \in Int /\ 1 \in Int /\ \A i \in 1 .. k - 1 : s[i] \in S
    BY <1>1
  <2>2. /\ a \in Seq(S) /\ Len(a) = IF 1 <= k - 1 THEN (k - 1) - 1 + 1 ELSE 0
        /\ \A i \in 1 .. (k - 1) - 1 + 1 : a[i] = s[1 + i - 1]
    BY <2>1, SubSeqProperties
  <2> HIDE DEF a
  <2>3. Len(a) = k - 1 /\ (k - 1) - 1 + 1 = k - 1 /\ \A i \in 1 .. k - 1 : 1 + i - 1 = i
    BY <1>1, <2>2
  <2> QED BY <2>2, <2>3
<1>3. b \in Seq(S) /\ Len(b) = n - k /\ \A i \in 1 .. n - k : b[i] = s[k + i]
  <2>1. k + 1 \in Int /\ n \in Int /\ \A i \in k + 1 .. n : s[i] \in S
    BY <1>1
  <2>2. /\ b \in Seq(S) /\ Len(b) = IF k + 1 <= n THEN n - (k + 1) + 1 ELSE 0
        /\ \A i \in 1 .. n - (k + 1) + 1 : b[i] = s[(k + 1) + i - 1]
    BY <2>1, SubSeqProperties
  <2> HIDE DEF b
  <2>3. n - (k + 1) + 1 = n - k /\ \A i \in 1 .. n - k : (k + 1) + i - 1 = k + i
    BY <1>1
  <2>4. Len(b) = n - k
    <3>1. CASE k + 1 <= n
      BY <2>2, <2>3, <3>1
    <3>2. CASE ~(k + 1 <= n)
      <4>1. k = n
        <5>1. n \in Nat /\ k \in 1 .. n
          BY <1>1
        <5> HIDE DEF n
        <5> QED BY <3>2, <5>1
      <4> QED BY <1>1, <2>2, <3>2, <4>1
    <3> QED BY <3>1, <3>2
  <2> QED BY <2>2, <2>3, <2>4
<1> HIDE DEF a, b
<1>4. RemoveAt(s, k) = a \o b
  BY DEF RemoveAt, a, b
<1>5. a \o b \in Seq(S) /\ Len(a \o b) = n - 1 /\ ToSet(a \o b) = ToSet(a) \cup ToSet(b)
  <2>1. a \o b \in Seq(S) /\ Len(a \o b) = Len(a) + Len(b)
    BY <1>2, <1>3, ConcatProperties
  <2>2. ToSet(a \o b) = ToSet(a) \cup ToSet(b)
    BY <1>2, <1>3, ConcatMembers
  <2>3. (k - 1) + (n - k) = n - 1
    BY <1>1
  <2> QED BY <1>2, <1>3, <2>1, <2>2, <2>3
<1>6. DOMAIN a = 1 .. k - 1 /\ DOMAIN b = 1 .. n - k
  BY <1>2, <1>3, LenProperties
<1>7. ToSet(a) \subseteq ToSet(s)
  BY <1>1, <1>2, <1>6 DEF ToSet
<1>8. ToSet(b) \subseteq ToSet(s)
  <2>1. \A i \in 1 .. n - k : k + i \in 1 .. n
    BY <1>1
  <2> QED BY <1>1, <1>3, <1>6, <2>1 DEF ToSet
<1>9. ASSUME NEW i \in DOMAIN s, i # k PROVE s[i] \in ToSet(a) \cup ToSet(b)
  <2>1. CASE i < k
    <3>1. i \in 1 .. k - 1
      BY <1>1, <2>1
    <3> QED BY <1>2, <1>6, <3>1 DEF ToSet
  <2>2. CASE i > k
    <3>1. i - k \in 1 .. n - k /\ k + (i - k) = i
      BY <1>1, <2>2
    <3>2. b[i - k] = s[i]
      BY <1>3, <3>1
    <3> QED BY <1>6, <3>1, <3>2 DEF ToSet
  <2> QED BY <1>1, <1>9, <2>1, <2>2
<1> QED BY <1>4, <1>5, <1>7, <1>8, <1>9

\* Inserting at a position gives a sequence one longer.
LEMMA InsertAtType ==
  ASSUME NEW S, NEW s \in Seq(S), NEW e \in S, NEW k \in 1 .. Len(s) + 1
  PROVE  InsertAt(s, k, e) \in Seq(S) /\ Len(InsertAt(s, k, e)) = Len(s) + 1
<1> DEFINE n == Len(s)
           a == SubSeq(s, 1, k - 1)
           b == SubSeq(s, k, n)
           one == <<e>>
<1>1. n \in Nat /\ \A i \in 1 .. n : s[i] \in S
  BY LenProperties, ElementOfSeq
<1>2. a \in Seq(S) /\ Len(a) = k - 1
  <2>1. k - 1 \in Int /\ 1 \in Int /\ \A i \in 1 .. k - 1 : s[i] \in S
    BY <1>1
  <2>2. a \in Seq(S) /\ Len(a) = IF 1 <= k - 1 THEN (k - 1) - 1 + 1 ELSE 0
    BY <2>1, SubSeqProperties
  <2> HIDE DEF a
  <2> QED BY <1>1, <2>2
<1>3. b \in Seq(S) /\ Len(b) = n - k + 1
  <2>1. k \in Int /\ n \in Int /\ \A i \in k .. n : s[i] \in S
    BY <1>1
  <2>2. b \in Seq(S) /\ Len(b) = IF k <= n THEN n - k + 1 ELSE 0
    BY <2>1, SubSeqProperties
  <2> HIDE DEF b
  <2> QED BY <1>1, <2>2
<1>4. one \in Seq(S) /\ Len(one) = 1
  BY OneAndTwo
<1> HIDE DEF a, b, one
<1>5. a \o one \in Seq(S) /\ Len(a \o one) = k
  <2>1. a \o one \in Seq(S) /\ Len(a \o one) = Len(a) + Len(one)
    BY <1>2, <1>4, ConcatProperties
  <2>2. (k - 1) + 1 = k
    BY <1>1
  <2> QED BY <1>2, <1>4, <2>1, <2>2
<1>6. (a \o one) \o b \in Seq(S) /\ Len((a \o one) \o b) = Len(a \o one) + Len(b)
  BY <1>3, <1>5, ConcatProperties
<1>7. InsertAt(s, k, e) = (a \o one) \o b
  BY DEF InsertAt, a, b, one
<1> QED BY <1>1, <1>3, <1>5, <1>6, <1>7

\* A finite set, listed.
LEMMA SetToSeqType ==
  ASSUME NEW S, IsFiniteSet(S)
  PROVE  SetToSeq(S) \in Seq(S)
<1> DEFINE n == Cardinality(S)
<1>1. n \in Nat /\ ExistsBijection(1 .. n, S)
  BY FS_CardinalityType
<1>2. \E f \in [1 .. n -> S] : IsInjective(f)
  BY <1>1 DEF ExistsBijection, Bijection, Injection
<1>3. SetToSeq(S) \in [1 .. n -> S]
  BY <1>2, Zenon DEF SetToSeq
<1> QED BY <1>1, <1>3

\* The members of a sequence are finitely many.
LEMMA MembersFinite ==
  ASSUME NEW S, NEW s \in Seq(S)
  PROVE  ToSet(s) \subseteq S /\ IsFiniteSet(ToSet(s))
<1>1. Len(s) \in Nat /\ DOMAIN s = 1 .. Len(s) /\ s \in [1 .. Len(s) -> S]
  BY LenProperties
<1>2. ToSet(s) \subseteq S
  BY <1>1 DEF ToSet
<1>3. s \in Surjection(1 .. Len(s), ToSet(s))
  BY <1>1 DEF Surjection, ToSet
<1>4. ExistsSurjection(1 .. Len(s), ToSet(s))
  BY <1>3 DEF ExistsSurjection
<1> QED BY <1>1, <1>2, <1>4, FS_NatSurjection

------------------------------------------------------------------------------
(* Folds: a fold over a sequence is a run of its steps. A recursive function is*)
(* shown to exist, so that the fold is it; the step operator cannot be a   *)
(* parameter of a lemma, hence a lemma for each.                           *)

\* f is the recursive function by which FoldLeft is defined.
IsFold(f, n, base, step) ==
  \A s \in SUBSET (1 .. n) :
    f[s] = IF s = {} THEN base ELSE step[<<Max(s), f[s \ {Max(s)}]>>]

\* There is such a function, for any finite sequence of steps.
LEMMA FoldExists ==
  ASSUME NEW n \in Nat, NEW V, NEW base \in V, NEW step \in [(1 .. n) \X V -> V]
  PROVE  \E f \in [SUBSET (1 .. n) -> V] : IsFold(f, n, base, step)
<1> DEFINE P == {k \in 0 .. n : \E f \in [SUBSET (1 .. k) -> V] : IsFold(f, k, base, step)}
<1>1. 0 \in P
  <2> DEFINE f == [s \in SUBSET (1 .. 0) |-> base]
  <2>1. SUBSET (1 .. 0) = {{}}
    OBVIOUS
  <2>2. f \in [SUBSET (1 .. 0) -> V] /\ IsFold(f, 0, base, step)
    BY <2>1 DEF IsFold
  <2> QED BY <2>2
<1>2. ASSUME NEW k \in 0 .. n - 1, k \in P PROVE k + 1 \in P
  <2>1. PICK f \in [SUBSET (1 .. k) -> V] : IsFold(f, k, base, step)
    BY <1>2
  <2> DEFINE g == [s \in SUBSET (1 .. k + 1) |->
                     IF k + 1 \in s THEN step[<<k + 1, f[s \ {k + 1}]>>] ELSE f[s]]
  <2>2. \A s \in SUBSET (1 .. k + 1) : s \ {k + 1} \in SUBSET (1 .. k)
    OBVIOUS
  <2>3. \A s \in SUBSET (1 .. k) : s \in SUBSET (1 .. k + 1) /\ k + 1 \notin s
    OBVIOUS
  <2>4. g \in [SUBSET (1 .. k + 1) -> V]
    <3> SUFFICES ASSUME NEW s \in SUBSET (1 .. k + 1) PROVE g[s] \in V
      OBVIOUS
    <3>1. CASE k + 1 \in s
      BY <2>2, <3>1
    <3>2. CASE k + 1 \notin s
      BY <2>2, <3>2
    <3> QED BY <3>1, <3>2
  <2>5. IsFold(g, k + 1, base, step)
    <3> SUFFICES ASSUME NEW s \in SUBSET (1 .. k + 1)
                 PROVE g[s] = IF s = {} THEN base ELSE step[<<Max(s), g[s \ {Max(s)}]>>]
      BY DEF IsFold
    <3>1. CASE k + 1 \in s
      <4>1. Max(s) = k + 1
        BY <3>1, MaxOfUp
      <4>2. g[s \ {k + 1}] = f[s \ {k + 1}]
        BY <2>2, <2>3
      <4> QED BY <3>1, <4>1, <4>2
    <3>2. CASE k + 1 \notin s
      <4>1. s \in SUBSET (1 .. k)
        BY <3>2, <2>2
      <4>2. f[s] = IF s = {} THEN base ELSE step[<<Max(s), f[s \ {Max(s)}]>>]
        BY <4>1, <2>1 DEF IsFold
      <4>3. s \ {Max(s)} \in SUBSET (1 .. k)
        BY <4>1
      <4>4. g[s] = f[s] /\ g[s \ {Max(s)}] = f[s \ {Max(s)}]
        BY <4>1, <4>3, <2>3
      <4> QED BY <4>2, <4>4
    <3> QED BY <3>1, <3>2
  <2> QED BY <2>4, <2>5, k + 1 \in 0 .. n
<1> HIDE DEF P
<1>3. n \in P
  BY <1>1, <1>2, Climb
<1> QED BY <1>3 DEF P

------------------------------------------------------------------------------
(* What the operators return                                               *)

\* The bound changes, the domains and their stacks, what propagation carries, what the
\* split of a node carries, and the assignments.
Changes == [col : Cols, isUpper : BOOLEAN, val : Int]
Doms == [lo : [Cols -> Int], hi : [Cols -> Int], saved : Seq(Changes)]
Visits == [dom : Doms, dead : {"no", "bound", "conflict"}]
Splits == [fixed : Seq(Changes), pieces : Seq(Seq(Changes))]
Spots == [Cols -> Int]

\* Writing a bound gives a domain.
LEMMA SetBoundType ==
  ASSUME NEW d \in Doms, NEW c \in Changes
  PROVE  SetBound(d, c) \in Doms
BY DEF SetBound, Changes, Doms

\* Remembering and writing a bound gives a domain.
LEMMA TightenType ==
  ASSUME NEW d \in Doms, NEW c \in Changes
  PROVE  Tighten(d, c) \in Doms
<1>1. BoundOf(d, c) \in Int
  BY DEF BoundOf, Changes, Doms
<1>2. [c EXCEPT !.val = BoundOf(d, c)] \in Changes
  BY <1>1 DEF Changes
<1>3. Append(d.saved, [c EXCEPT !.val = BoundOf(d, c)]) \in Seq(Changes)
  BY <1>2, AppendProperties DEF Doms
<1>4. Remember(d, c) \in Doms
  BY <1>3 DEF Remember, Doms
<1> QED BY <1>4, SetBoundType DEF Tighten

\* So does doing it only where the bound moves.
LEMMA TightenIfMovesType ==
  ASSUME NEW d \in Doms, NEW c \in Changes
  PROVE  TightenIfMoves(d, c) \in Doms
BY TightenType DEF TightenIfMoves

\* A literal's negation is a bound change.
LEMMA NegationType ==
  ASSUME NEW c \in Changes
  PROVE  Negation(c) \in Changes
BY DEF Negation, Change, Changes

\* Visiting a conflict gives a domain and how it died, if it did.
LEMMA VisitType ==
  ASSUME NEW s \in Visits, NEW conflict \in SUBSET Changes
  PROVE  Visit(s, conflict) \in Visits
<1> DEFINE literal == CHOOSE c \in Implied(s.dom, conflict) : TRUE
<1>1. Implied(s.dom, conflict) \subseteq Changes
  BY DEF Implied, Undecided
<1>2. CASE Implied(s.dom, conflict) = {}
  BY <1>2 DEF Visit, Visits
<1>3. CASE Implied(s.dom, conflict) # {}
  <2>1. literal \in Changes
    BY <1>1, <1>3
  <2>2. TightenIfMoves(s.dom, Negation(literal)) \in Doms
    BY <2>1, NegationType, TightenIfMovesType DEF Visits
  <2> HIDE DEF literal
  <2> QED BY <1>3, <2>2 DEF Visit, Visits, literal
<1> QED BY <1>2, <1>3

\* Splitting a column off gives a tail of fixings and a list of chains.
LEMMA SplitType ==
  ASSUME NEW d \in Doms, NEW x \in Spots, NEW s \in Splits, NEW j \in Cols
  PROVE  Split(d, x, s, j) \in Splits
<1>1. /\ Change(j, FALSE, x[j]) \in Changes /\ Change(j, TRUE, x[j]) \in Changes
      /\ Change(j, TRUE, x[j] - 1) \in Changes /\ Change(j, FALSE, x[j] + 1) \in Changes
  BY DEF Change, Changes, Spots
<1>2. s.fixed \o <<Change(j, FALSE, x[j]), Change(j, TRUE, x[j])>> \in Seq(Changes)
  <2>1. <<Change(j, FALSE, x[j]), Change(j, TRUE, x[j])>> \in Seq(Changes)
    BY <1>1, OneAndTwo
  <2> QED BY <2>1, ConcatProperties DEF Splits
<1>3. /\ Append(s.fixed, Change(j, TRUE, x[j] - 1)) \in Seq(Changes)
      /\ Append(s.fixed, Change(j, FALSE, x[j] + 1)) \in Seq(Changes)
  BY <1>1, AppendProperties DEF Splits
<1>4. Below(d, s.fixed, j, x[j]) \in Seq(Seq(Changes))
  BY <1>3, OneAndTwo DEF Below
<1>5. Above(d, s.fixed, j, x[j]) \in Seq(Seq(Changes))
  BY <1>3, OneAndTwo DEF Above
<1>6. s.pieces \o Below(d, s.fixed, j, x[j]) \o Above(d, s.fixed, j, x[j]) \in Seq(Seq(Changes))
  BY <1>4, <1>5, ConcatProperties DEF Splits
<1> QED BY <1>2, <1>6 DEF Split, Splits

\* Writing a stack back is a run of single bounds.
LEMMA WriteBackRun ==
  ASSUME NEW base \in Doms, NEW seq \in Seq(Changes)
  PROVE  \E h \in [0 .. Len(seq) -> Doms] :
           /\ h[0] = base
           /\ \A k \in 1 .. Len(seq) : h[k] = SetBound(h[k - 1], seq[k])
           /\ WriteBack(base, seq) = h[Len(seq)]
<1> DEFINE n == Len(seq)
           Eq(f) == f = [s \in SUBSET (1 .. n) |->
                           IF s = {} THEN base ELSE SetBound(f[s \ {Max(s)}], seq[Max(s)])]
           step == [p \in (1 .. n) \X Doms |-> SetBound(p[2], seq[p[1]])]
           iter == CHOOSE f : Eq(f)
<1>1. n \in Nat /\ DOMAIN seq = 1 .. n /\ \A k \in 1 .. n : seq[k] \in Changes
  BY LenProperties, ElementOfSeq
<1>2. step \in [(1 .. n) \X Doms -> Doms]
  BY <1>1, SetBoundType
<1>3. PICK g \in [SUBSET (1 .. n) -> Doms] : IsFold(g, n, base, step)
  BY <1>1, <1>2, FoldExists
<1>4. Eq(g)
  <2> SUFFICES ASSUME NEW s \in SUBSET (1 .. n), s # {}
               PROVE  step[<<Max(s), g[s \ {Max(s)}]>>] = SetBound(g[s \ {Max(s)}], seq[Max(s)])
    BY <1>3 DEF IsFold
  <2>1. Max(s) \in 1 .. n
    BY <1>1, MaxIn
  <2> QED BY <2>1
<1>5. Eq(iter)
  BY <1>4, Zenon
<1>6. WriteBack(base, seq) = iter[1 .. n]
  BY <1>1, Zenon DEF FoldLeft, MapThenFoldSet, WriteBack
<1>7. iter[{}] = base /\ \A k \in 1 .. n : iter[1 .. k] = SetBound(iter[1 .. k - 1], seq[k])
  <2>1. iter[{}] = base
    BY <1>5
  <2>2. ASSUME NEW k \in 1 .. n
        PROVE  iter[1 .. k] = SetBound(iter[1 .. k - 1], seq[k])
    <3>1. /\ Max(1 .. k) = k /\ (1 .. k) \ {k} = 1 .. k - 1
          /\ 1 .. k \in SUBSET (1 .. n) /\ 1 .. k # {}
      BY <1>1, UpTo
    <3> HIDE DEF iter
    <3> QED BY <1>5, <3>1
  <2> QED BY <2>1, <2>2
<1> HIDE DEF iter
<1> DEFINE P == {k \in 0 .. n : iter[1 .. k] \in Doms}
<1>8. 0 \in P
  BY <1>1, <1>7, 1 .. 0 = {}
<1>9. \A k \in 0 .. n - 1 : k \in P => k + 1 \in P
  <2> SUFFICES ASSUME NEW k \in 0 .. n - 1, k \in P PROVE k + 1 \in P
    OBVIOUS
  <2>1. k + 1 \in 1 .. n /\ k + 1 \in 0 .. n /\ (k + 1) - 1 = k
    BY <1>1
  <2>2. iter[1 .. k + 1] = SetBound(iter[1 .. k], seq[k + 1])
    BY <1>7, <2>1
  <2>3. SetBound(iter[1 .. k], seq[k + 1]) \in Doms
    BY <1>1, <2>1, SetBoundType
  <2> QED BY <2>1, <2>2, <2>3
<1> HIDE DEF P
<1>10. \A k \in 0 .. n : iter[1 .. k] \in Doms
  BY <1>1, <1>8, <1>9, Climb DEF P
<1> DEFINE h == [k \in 0 .. n |-> iter[1 .. k]]
<1>11. h \in [0 .. n -> Doms] /\ h[0] = base
  BY <1>1, <1>7, <1>10, 1 .. 0 = {}
<1>12. \A k \in 1 .. n : h[k] = SetBound(h[k - 1], seq[k])
  BY <1>1, <1>7
<1>13. WriteBack(base, seq) = h[n]
  BY <1>1, <1>6
<1> QED BY <1>11, <1>12, <1>13

\* Tightening along a chain is a run of single changes.
LEMMA TightenAllRun ==
  ASSUME NEW base \in Doms, NEW seq \in Seq(Changes)
  PROVE  \E h \in [0 .. Len(seq) -> Doms] :
           /\ h[0] = base
           /\ \A k \in 1 .. Len(seq) : h[k] = TightenIfMoves(h[k - 1], seq[k])
           /\ TightenAll(base, seq) = h[Len(seq)]
<1> DEFINE n == Len(seq)
           Eq(f) == f = [s \in SUBSET (1 .. n) |->
                           IF s = {} THEN base ELSE TightenIfMoves(f[s \ {Max(s)}], seq[Max(s)])]
           step == [p \in (1 .. n) \X Doms |-> TightenIfMoves(p[2], seq[p[1]])]
           iter == CHOOSE f : Eq(f)
<1>1. n \in Nat /\ DOMAIN seq = 1 .. n /\ \A k \in 1 .. n : seq[k] \in Changes
  BY LenProperties, ElementOfSeq
<1>2. step \in [(1 .. n) \X Doms -> Doms]
  BY <1>1, TightenIfMovesType
<1>3. PICK g \in [SUBSET (1 .. n) -> Doms] : IsFold(g, n, base, step)
  BY <1>1, <1>2, FoldExists
<1>4. Eq(g)
  <2> SUFFICES ASSUME NEW s \in SUBSET (1 .. n), s # {}
               PROVE  step[<<Max(s), g[s \ {Max(s)}]>>] = TightenIfMoves(g[s \ {Max(s)}], seq[Max(s)])
    BY <1>3 DEF IsFold
  <2>1. Max(s) \in 1 .. n
    BY <1>1, MaxIn
  <2> QED BY <2>1
<1>5. Eq(iter)
  BY <1>4, Zenon
<1>6. TightenAll(base, seq) = iter[1 .. n]
  BY <1>1, Zenon DEF FoldLeft, MapThenFoldSet, TightenAll
<1>7. iter[{}] = base /\ \A k \in 1 .. n : iter[1 .. k] = TightenIfMoves(iter[1 .. k - 1], seq[k])
  <2>1. iter[{}] = base
    BY <1>5
  <2>2. ASSUME NEW k \in 1 .. n
        PROVE  iter[1 .. k] = TightenIfMoves(iter[1 .. k - 1], seq[k])
    <3>1. /\ Max(1 .. k) = k /\ (1 .. k) \ {k} = 1 .. k - 1
          /\ 1 .. k \in SUBSET (1 .. n) /\ 1 .. k # {}
      BY <1>1, UpTo
    <3> HIDE DEF iter
    <3> QED BY <1>5, <3>1
  <2> QED BY <2>1, <2>2
<1> HIDE DEF iter
<1> DEFINE P == {k \in 0 .. n : iter[1 .. k] \in Doms}
<1>8. 0 \in P
  BY <1>1, <1>7, 1 .. 0 = {}
<1>9. \A k \in 0 .. n - 1 : k \in P => k + 1 \in P
  <2> SUFFICES ASSUME NEW k \in 0 .. n - 1, k \in P PROVE k + 1 \in P
    OBVIOUS
  <2>1. k + 1 \in 1 .. n /\ k + 1 \in 0 .. n /\ (k + 1) - 1 = k
    BY <1>1
  <2>2. iter[1 .. k + 1] = TightenIfMoves(iter[1 .. k], seq[k + 1])
    BY <1>7, <2>1
  <2>3. TightenIfMoves(iter[1 .. k], seq[k + 1]) \in Doms
    BY <1>1, <2>1, TightenIfMovesType
  <2> QED BY <2>1, <2>2, <2>3
<1> HIDE DEF P
<1>10. \A k \in 0 .. n : iter[1 .. k] \in Doms
  BY <1>1, <1>8, <1>9, Climb DEF P
<1> DEFINE h == [k \in 0 .. n |-> iter[1 .. k]]
<1>11. h \in [0 .. n -> Doms] /\ h[0] = base
  BY <1>1, <1>7, <1>10, 1 .. 0 = {}
<1>12. \A k \in 1 .. n : h[k] = TightenIfMoves(h[k - 1], seq[k])
  BY <1>1, <1>7
<1>13. TightenAll(base, seq) = h[n]
  BY <1>1, <1>6
<1> QED BY <1>11, <1>12, <1>13

\* Propagating the conflicts is a run of visits.
LEMMA VisitRun ==
  ASSUME NEW base \in Visits, NEW seq \in Seq(SUBSET Changes)
  PROVE  \E h \in [0 .. Len(seq) -> Visits] :
           /\ h[0] = base
           /\ \A k \in 1 .. Len(seq) : h[k] = Visit(h[k - 1], seq[k])
           /\ FoldLeft(Visit, base, seq) = h[Len(seq)]
<1> DEFINE n == Len(seq)
           Eq(f) == f = [s \in SUBSET (1 .. n) |->
                           IF s = {} THEN base ELSE Visit(f[s \ {Max(s)}], seq[Max(s)])]
           step == [p \in (1 .. n) \X Visits |-> Visit(p[2], seq[p[1]])]
           iter == CHOOSE f : Eq(f)
<1>1. n \in Nat /\ DOMAIN seq = 1 .. n /\ \A k \in 1 .. n : seq[k] \in SUBSET Changes
  BY LenProperties, ElementOfSeq
<1>2. step \in [(1 .. n) \X Visits -> Visits]
  BY <1>1, VisitType
<1>3. PICK g \in [SUBSET (1 .. n) -> Visits] : IsFold(g, n, base, step)
  BY <1>1, <1>2, FoldExists
<1>4. Eq(g)
  <2> SUFFICES ASSUME NEW s \in SUBSET (1 .. n), s # {}
               PROVE  step[<<Max(s), g[s \ {Max(s)}]>>] = Visit(g[s \ {Max(s)}], seq[Max(s)])
    BY <1>3 DEF IsFold
  <2>1. Max(s) \in 1 .. n
    BY <1>1, MaxIn
  <2> QED BY <2>1
<1>5. Eq(iter)
  BY <1>4, Zenon
<1>6. FoldLeft(Visit, base, seq) = iter[1 .. n]
  BY <1>1, Zenon DEF FoldLeft, MapThenFoldSet
<1>7. iter[{}] = base /\ \A k \in 1 .. n : iter[1 .. k] = Visit(iter[1 .. k - 1], seq[k])
  <2>1. iter[{}] = base
    BY <1>5
  <2>2. ASSUME NEW k \in 1 .. n
        PROVE  iter[1 .. k] = Visit(iter[1 .. k - 1], seq[k])
    <3>1. /\ Max(1 .. k) = k /\ (1 .. k) \ {k} = 1 .. k - 1
          /\ 1 .. k \in SUBSET (1 .. n) /\ 1 .. k # {}
      BY <1>1, UpTo
    <3> HIDE DEF iter
    <3> QED BY <1>5, <3>1
  <2> QED BY <2>1, <2>2
<1> HIDE DEF iter
<1> DEFINE P == {k \in 0 .. n : iter[1 .. k] \in Visits}
<1>8. 0 \in P
  BY <1>1, <1>7, 1 .. 0 = {}
<1>9. \A k \in 0 .. n - 1 : k \in P => k + 1 \in P
  <2> SUFFICES ASSUME NEW k \in 0 .. n - 1, k \in P PROVE k + 1 \in P
    OBVIOUS
  <2>1. k + 1 \in 1 .. n /\ k + 1 \in 0 .. n /\ (k + 1) - 1 = k
    BY <1>1
  <2>2. iter[1 .. k + 1] = Visit(iter[1 .. k], seq[k + 1])
    BY <1>7, <2>1
  <2>3. Visit(iter[1 .. k], seq[k + 1]) \in Visits
    BY <1>1, <2>1, VisitType
  <2> QED BY <2>1, <2>2, <2>3
<1> HIDE DEF P
<1>10. \A k \in 0 .. n : iter[1 .. k] \in Visits
  BY <1>1, <1>8, <1>9, Climb DEF P
<1> DEFINE h == [k \in 0 .. n |-> iter[1 .. k]]
<1>11. h \in [0 .. n -> Visits] /\ h[0] = base
  BY <1>1, <1>7, <1>10, 1 .. 0 = {}
<1>12. \A k \in 1 .. n : h[k] = Visit(h[k - 1], seq[k])
  BY <1>1, <1>7
<1>13. FoldLeft(Visit, base, seq) = h[n]
  BY <1>1, <1>6
<1> QED BY <1>11, <1>12, <1>13

\* Splitting a node is a run over its columns.
LEMMA SplitRun ==
  ASSUME NEW d \in Doms, NEW x \in Spots, NEW base \in Splits, NEW seq \in Seq(Cols)
  PROVE  \E h \in [0 .. Len(seq) -> Splits] :
           /\ h[0] = base
           /\ \A k \in 1 .. Len(seq) : h[k] = Split(d, x, h[k - 1], seq[k])
           /\ SplitAll(d, x, base, seq) = h[Len(seq)]
<1> DEFINE n == Len(seq)
           Eq(f) == f = [s \in SUBSET (1 .. n) |->
                           IF s = {} THEN base ELSE Split(d, x, f[s \ {Max(s)}], seq[Max(s)])]
           step == [p \in (1 .. n) \X Splits |-> Split(d, x, p[2], seq[p[1]])]
           iter == CHOOSE f : Eq(f)
<1>1. n \in Nat /\ DOMAIN seq = 1 .. n /\ \A k \in 1 .. n : seq[k] \in Cols
  BY LenProperties, ElementOfSeq
<1>2. step \in [(1 .. n) \X Splits -> Splits]
  BY <1>1, SplitType
<1>3. PICK g \in [SUBSET (1 .. n) -> Splits] : IsFold(g, n, base, step)
  BY <1>1, <1>2, FoldExists
<1>4. Eq(g)
  <2> SUFFICES ASSUME NEW s \in SUBSET (1 .. n), s # {}
               PROVE  step[<<Max(s), g[s \ {Max(s)}]>>] = Split(d, x, g[s \ {Max(s)}], seq[Max(s)])
    BY <1>3 DEF IsFold
  <2>1. Max(s) \in 1 .. n
    BY <1>1, MaxIn
  <2> QED BY <2>1
<1>5. Eq(iter)
  BY <1>4, Zenon
<1>6. SplitAll(d, x, base, seq) = iter[1 .. n]
  BY <1>1, Zenon DEF FoldLeft, MapThenFoldSet, SplitAll
<1>7. iter[{}] = base /\ \A k \in 1 .. n : iter[1 .. k] = Split(d, x, iter[1 .. k - 1], seq[k])
  <2>1. iter[{}] = base
    BY <1>5
  <2>2. ASSUME NEW k \in 1 .. n
        PROVE  iter[1 .. k] = Split(d, x, iter[1 .. k - 1], seq[k])
    <3>1. /\ Max(1 .. k) = k /\ (1 .. k) \ {k} = 1 .. k - 1
          /\ 1 .. k \in SUBSET (1 .. n) /\ 1 .. k # {}
      BY <1>1, UpTo
    <3> HIDE DEF iter
    <3> QED BY <1>5, <3>1
  <2> QED BY <2>1, <2>2
<1> HIDE DEF iter
<1> DEFINE P == {k \in 0 .. n : iter[1 .. k] \in Splits}
<1>8. 0 \in P
  BY <1>1, <1>7, 1 .. 0 = {}
<1>9. \A k \in 0 .. n - 1 : k \in P => k + 1 \in P
  <2> SUFFICES ASSUME NEW k \in 0 .. n - 1, k \in P PROVE k + 1 \in P
    OBVIOUS
  <2>1. k + 1 \in 1 .. n /\ k + 1 \in 0 .. n /\ (k + 1) - 1 = k
    BY <1>1
  <2>2. iter[1 .. k + 1] = Split(d, x, iter[1 .. k], seq[k + 1])
    BY <1>7, <2>1
  <2>3. Split(d, x, iter[1 .. k], seq[k + 1]) \in Splits
    BY <1>1, <2>1, SplitType
  <2> QED BY <2>1, <2>2, <2>3
<1> HIDE DEF P
<1>10. \A k \in 0 .. n : iter[1 .. k] \in Splits
  BY <1>1, <1>8, <1>9, Climb DEF P
<1> DEFINE h == [k \in 0 .. n |-> iter[1 .. k]]
<1>11. h \in [0 .. n -> Splits] /\ h[0] = base
  BY <1>1, <1>7, <1>10, 1 .. 0 = {}
<1>12. \A k \in 1 .. n : h[k] = Split(d, x, h[k - 1], seq[k])
  BY <1>1, <1>7
<1>13. SplitAll(d, x, base, seq) = h[n]
  BY <1>1, <1>6
<1> QED BY <1>11, <1>12, <1>13

------------------------------------------------------------------------------
(* The stack undoes what was done to the box                               *)

\* Two domains with the same bounds, whatever their stacks.
SameBox(d, e) == d.lo = e.lo /\ d.hi = e.hi

\* Writing a stack back gives a domain.
LEMMA WriteBackType ==
  ASSUME NEW d \in Doms, NEW seq \in Seq(Changes)
  PROVE  WriteBack(d, seq) \in Doms
<1>1. Len(seq) \in Nat
  BY LenProperties
<1>2. PICK h \in [0 .. Len(seq) -> Doms] : WriteBack(d, seq) = h[Len(seq)]
  BY WriteBackRun
<1> QED BY <1>1, <1>2

\* The box after writing a bound does not depend on the stack.
LEMMA SetBoundBox ==
  ASSUME NEW d \in Doms, NEW e \in Doms, NEW c \in Changes, SameBox(d, e)
  PROVE  SameBox(SetBound(d, c), SetBound(e, c))
BY DEF SetBound, Changes, Doms, SameBox

\* Nor does the box after writing many.
LEMMA WriteBackBox ==
  ASSUME NEW d \in Doms, NEW e \in Doms, NEW seq \in Seq(Changes), SameBox(d, e)
  PROVE  SameBox(WriteBack(d, seq), WriteBack(e, seq))
<1> DEFINE n == Len(seq)
<1>1. n \in Nat /\ \A k \in 1 .. n : seq[k] \in Changes
  BY LenProperties, ElementOfSeq
<1>2. PICK h \in [0 .. n -> Doms] :
        /\ h[0] = d
        /\ \A k \in 1 .. n : h[k] = SetBound(h[k - 1], seq[k])
        /\ WriteBack(d, seq) = h[n]
  BY WriteBackRun
<1>3. PICK g \in [0 .. n -> Doms] :
        /\ g[0] = e
        /\ \A k \in 1 .. n : g[k] = SetBound(g[k - 1], seq[k])
        /\ WriteBack(e, seq) = g[n]
  BY WriteBackRun
<1> DEFINE P == {k \in 0 .. n : SameBox(h[k], g[k])}
<1>4. 0 \in P
  BY <1>1, <1>2, <1>3
<1>5. \A k \in 0 .. n - 1 : k \in P => k + 1 \in P
  <2> SUFFICES ASSUME NEW k \in 0 .. n - 1, SameBox(h[k], g[k]) PROVE SameBox(h[k + 1], g[k + 1])
    BY <1>1
  <2>1. k + 1 \in 1 .. n /\ (k + 1) - 1 = k /\ k \in 0 .. n
    BY <1>1
  <2>2. h[k + 1] = SetBound(h[k], seq[k + 1]) /\ g[k + 1] = SetBound(g[k], seq[k + 1])
    BY <1>2, <1>3, <2>1
  <2>3. h[k] \in Doms /\ g[k] \in Doms /\ seq[k + 1] \in Changes
    BY <1>1, <2>1
  <2> QED BY <2>2, <2>3, SetBoundBox
<1> HIDE DEF P
<1>6. n \in P
  BY <1>1, <1>4, <1>5, ClimbTo, Zenon
<1> QED BY <1>2, <1>3, <1>6 DEF P

\* The run of a sequence that begins with c is the run of the rest after c.
LEMMA WriteBackCons ==
  ASSUME NEW d \in Doms, NEW c \in Changes, NEW seq \in Seq(Changes)
  PROVE  WriteBack(d, <<c>> \o seq) = WriteBack(SetBound(d, c), seq)
<1> DEFINE n == Len(seq)
           all == <<c>> \o seq
<1>1. n \in Nat
  BY LenProperties
<1>2. /\ all \in Seq(Changes) /\ Len(all) = n + 1 /\ all[1] = c
      /\ \A k \in 1 .. n : all[k + 1] = seq[k]
  <2>1. <<c>> \in Seq(Changes) /\ Len(<<c>>) = 1 /\ <<c>>[1] = c
    BY OneAndTwo
  <2> HIDE DEF all
  <2>2. /\ all \in Seq(Changes) /\ Len(all) = n + 1
        /\ \A k \in 1 .. n + 1 : all[k] = IF k = 1 THEN c ELSE seq[k - 1]
    BY <1>1, <2>1, ConcatProperties DEF all
  <2>3. \A k \in 1 .. n : k + 1 \in 1 .. n + 1 /\ k + 1 # 1 /\ (k + 1) - 1 = k
    BY <1>1
  <2>4. 1 \in 1 .. n + 1
    BY <1>1
  <2> QED BY <2>2, <2>3, <2>4
<1> HIDE DEF all
<1>3. PICK h \in [0 .. n + 1 -> Doms] :
        /\ h[0] = d
        /\ \A k \in 1 .. n + 1 : h[k] = SetBound(h[k - 1], all[k])
        /\ WriteBack(d, all) = h[n + 1]
  <2>1. \E h \in [0 .. Len(all) -> Doms] :
          /\ h[0] = d
          /\ \A k \in 1 .. Len(all) : h[k] = SetBound(h[k - 1], all[k])
          /\ WriteBack(d, all) = h[Len(all)]
    BY <1>2, WriteBackRun
  <2> QED BY <1>2, <2>1
<1>4. SetBound(d, c) \in Doms
  BY SetBoundType
<1>5. PICK g \in [0 .. n -> Doms] :
        /\ g[0] = SetBound(d, c)
        /\ \A k \in 1 .. n : g[k] = SetBound(g[k - 1], seq[k])
        /\ WriteBack(SetBound(d, c), seq) = g[n]
  BY <1>4, WriteBackRun
<1> DEFINE P == {k \in 0 .. n : h[k + 1] = g[k]}
<1>6. 0 \in P
  <2>1. 1 \in 1 .. n + 1 /\ 1 - 1 = 0
    BY <1>1
  <2>2. h[1] = SetBound(d, c)
    BY <1>2, <1>3, <2>1
  <2> QED BY <1>1, <1>5, <2>2
<1>7. \A k \in 0 .. n - 1 : k \in P => k + 1 \in P
  <2> SUFFICES ASSUME NEW k \in 0 .. n - 1, h[k + 1] = g[k] PROVE h[(k + 1) + 1] = g[k + 1]
    BY <1>1
  <2>1. /\ k + 1 \in 1 .. n /\ (k + 1) - 1 = k
        /\ (k + 1) + 1 \in 1 .. n + 1 /\ ((k + 1) + 1) - 1 = k + 1
    BY <1>1
  <2>2. h[(k + 1) + 1] = SetBound(h[k + 1], all[(k + 1) + 1])
    BY <1>3, <2>1
  <2>3. all[(k + 1) + 1] = seq[k + 1] /\ g[k + 1] = SetBound(g[k], seq[k + 1])
    BY <1>2, <1>5, <2>1
  <2> QED BY <2>2, <2>3
<1> HIDE DEF P
<1>8. n \in P
  BY <1>1, <1>6, <1>7, ClimbTo, Zenon
<1> QED BY <1>3, <1>5, <1>8 DEF P, all

\* leave() gives a domain with an empty stack.
LEMMA LeaveType ==
  ASSUME NEW d \in Doms
  PROVE  Leave(d) \in Doms /\ Leave(d) = [lo |-> WriteBack(d, Reverse(d.saved)).lo,
                                          hi |-> WriteBack(d, Reverse(d.saved)).hi,
                                          saved |-> <<>>]
<1>1. Reverse(d.saved) \in Seq(Changes)
  BY ReverseOf DEF Doms
<1>2. WriteBack(d, Reverse(d.saved)) \in Doms
  BY <1>1, WriteBackType
<1>3. <<>> \in Seq(Changes)
  BY EmptySeq
<1> DEFINE w == WriteBack(d, Reverse(d.saved))
<1>4. w \in Doms /\ Leave(d) = [w EXCEPT !.saved = <<>>]
  BY <1>2 DEF Leave
<1> HIDE DEF w
<1>5. /\ [w EXCEPT !.saved = <<>>] \in Doms
      /\ [w EXCEPT !.saved = <<>>] = [lo |-> w.lo, hi |-> w.hi, saved |-> <<>>]
  BY <1>3, <1>4 DEF Doms
<1> QED BY <1>4, <1>5 DEF w

\* leave() of a domain with an empty stack changes nothing.
LEMMA LeaveRested ==
  ASSUME NEW d \in Doms, d.saved = <<>>
  PROVE  Leave(d) = d
<1>1. Reverse(d.saved) = <<>>
  BY DEF Reverse
<1>2. <<>> \in Seq(Changes) /\ Len(<<>>) = 0
  BY EmptySeq
<1>3. PICK h \in [0 .. 0 -> Doms] : h[0] = d /\ WriteBack(d, <<>>) = h[0]
  <2>1. \E h \in [0 .. Len(<<>>) -> Doms] : h[0] = d /\ WriteBack(d, <<>>) = h[Len(<<>>)]
    BY <1>2, WriteBackRun
  <2> QED BY <1>2, <2>1
<1> QED BY <1>1, <1>3, LeaveType DEF Doms

\* What a change remembers, put back, gives the box before it.
LEMMA PutBack ==
  ASSUME NEW d \in Doms, NEW c \in Changes
  PROVE  /\ [c EXCEPT !.val = BoundOf(d, c)] \in Changes
         /\ Tighten(d, c).saved = Append(d.saved, [c EXCEPT !.val = BoundOf(d, c)])
         /\ SameBox(SetBound(Tighten(d, c), [c EXCEPT !.val = BoundOf(d, c)]), d)
         /\ SetBound(Tighten(d, c), [c EXCEPT !.val = BoundOf(d, c)]).saved = Tighten(d, c).saved
<1> DEFINE old == [c EXCEPT !.val = BoundOf(d, c)]
<1>1. BoundOf(d, c) \in Int
  BY DEF BoundOf, Changes, Doms
<1>2. old \in Changes
  BY <1>1 DEF Changes
<1>3. Append(d.saved, old) \in Seq(Changes)
  BY <1>2, AppendProperties DEF Doms
<1>4. CASE c.isUpper
  BY <1>2, <1>3, <1>4 DEF Tighten, Remember, SetBound, BoundOf, SameBox, Changes, Doms
<1>5. CASE ~c.isUpper
  BY <1>2, <1>3, <1>5 DEF Tighten, Remember, SetBound, BoundOf, SameBox, Changes, Doms
<1> QED BY <1>2, <1>4, <1>5

\* A change that was remembered does not show after leave().
LEMMA LeaveTighten ==
  ASSUME NEW d \in Doms, NEW c \in Changes
  PROVE  Leave(Tighten(d, c)) = Leave(d)
<1> DEFINE old == [c EXCEPT !.val = BoundOf(d, c)]
           t == Tighten(d, c)
<1>1. t \in Doms /\ old \in Changes /\ t.saved = Append(d.saved, old) /\ SameBox(SetBound(t, old), d)
  BY TightenType, PutBack
<1> HIDE DEF old, t
<1>2. d.saved \in Seq(Changes)
  BY DEF Doms
<1>3. Reverse(t.saved) = <<old>> \o Reverse(d.saved) /\ Reverse(d.saved) \in Seq(Changes)
  BY <1>1, <1>2, ReverseAppend, ReverseOf
<1>4. WriteBack(t, Reverse(t.saved)) = WriteBack(SetBound(t, old), Reverse(d.saved))
  BY <1>1, <1>3, WriteBackCons
<1>5. SetBound(t, old) \in Doms
  BY <1>1, SetBoundType
<1>6. SameBox(WriteBack(t, Reverse(t.saved)), WriteBack(d, Reverse(d.saved)))
  BY <1>1, <1>3, <1>4, <1>5, WriteBackBox
<1>7. Leave(t) = Leave(d)
  BY <1>1, <1>6, LeaveType DEF SameBox
<1> QED BY <1>7 DEF t

\* Nor does one that was not needed.
LEMMA LeaveTightenIfMoves ==
  ASSUME NEW d \in Doms, NEW c \in Changes
  PROVE  Leave(TightenIfMoves(d, c)) = Leave(d)
BY LeaveTighten DEF TightenIfMoves

\* The undo of one probe is the box before it, its stack included.
LEMMA UndoTighten ==
  ASSUME NEW d \in Doms, NEW c \in Changes
  PROVE  Undo(Tighten(d, c), Len(d.saved)) = d
<1> DEFINE old == [c EXCEPT !.val = BoundOf(d, c)]
           t == Tighten(d, c)
           n == Len(d.saved)
<1>1. /\ t \in Doms /\ old \in Changes /\ t.saved = Append(d.saved, old)
      /\ SameBox(SetBound(t, old), d)
  BY TightenType, PutBack
<1> HIDE DEF old, t
<1>2. d.saved \in Seq(Changes) /\ n \in Nat
  BY LenProperties DEF Doms
<1>3. /\ t.saved \in Seq(Changes) /\ Len(t.saved) = n + 1 /\ t.saved[n + 1] = old
      /\ \A k \in 1 .. n : t.saved[k] = d.saved[k]
  BY <1>1, <1>2, AppendProperties
<1>4. SubSeq(t.saved, n + 1, n + 1) = <<old>>
  <2> DEFINE one == <<old>>
             sub == SubSeq(t.saved, n + 1, n + 1)
  <2>1. one \in Seq(Changes) /\ Len(one) = 1 /\ one[1] = old
    BY <1>1, OneAndTwo
  <2>2. n + 1 \in Int /\ \A i \in n + 1 .. n + 1 : t.saved[i] \in Changes
    BY <1>1, <1>2, <1>3
  <2>3. /\ sub \in Seq(Changes)
        /\ Len(sub) = IF n + 1 <= n + 1 THEN (n + 1) - (n + 1) + 1 ELSE 0
        /\ \A i \in 1 .. (n + 1) - (n + 1) + 1 : sub[i] = t.saved[(n + 1) + i - 1]
    BY <2>2, SubSeqProperties
  <2> HIDE DEF one, sub
  <2>4. sub \in Seq(Changes) /\ Len(sub) = 1 /\ sub[1] = old
    <3>1. (n + 1) - (n + 1) + 1 = 1 /\ (n + 1) + 1 - 1 = n + 1
      BY <1>2
    <3> QED BY <1>2, <1>3, <2>3, <3>1
  <2>5. sub = one
    BY <2>1, <2>4, SeqEqual
  <2> QED BY <2>5 DEF one, sub
<1>5. SubSeq(t.saved, 1, n) = d.saved
  <2>1. SubSeq(t.saved, 1, n) \in Seq(Changes) /\ Len(SubSeq(t.saved, 1, n)) = n
    BY <1>2, <1>3, ElementOfSeq, SubSeqProperties
  <2>2. \A k \in 1 .. n : SubSeq(t.saved, 1, n)[k] = d.saved[k]
    BY <1>2, <1>3
  <2> QED BY <1>2, <2>1, <2>2, SeqEqual
<1>6. Reverse(<<old>>) = <<old>>
  <2> DEFINE one == <<old>>
  <2>1. one \in Seq(Changes) /\ Len(one) = 1 /\ one[1] = old
    BY <1>1, OneAndTwo
  <2> HIDE DEF one
  <2>2. /\ Reverse(one) \in Seq(Changes) /\ Len(Reverse(one)) = 1
        /\ \A k \in 1 .. 1 : Reverse(one)[k] = one[1 - k + 1]
    BY <2>1, ReverseOf
  <2>3. Reverse(one)[1] = one[1]
    BY <2>2, 1 - 1 + 1 = 1
  <2>4. Reverse(one) = one
    BY <2>1, <2>2, <2>3, SeqEqual
  <2> QED BY <2>4 DEF one
<1>7. WriteBack(t, <<old>>) = SetBound(t, old)
  <2>1. <<old>> \in Seq(Changes) /\ Len(<<old>>) = 1 /\ <<old>>[1] = old
    BY <1>1, OneAndTwo
  <2>2. PICK h \in [0 .. 1 -> Doms] :
          /\ h[0] = t /\ WriteBack(t, <<old>>) = h[1]
          /\ \A k \in 1 .. 1 : h[k] = SetBound(h[k - 1], <<old>>[k])
    BY <1>1, <2>1, WriteBackRun
  <2>3. h[1] = SetBound(h[0], <<old>>[1])
    BY <2>2, 1 - 1 = 0
  <2> QED BY <2>1, <2>2, <2>3
<1>8. SetBound(t, old) \in Doms
  BY <1>1, SetBoundType
<1>9. Undo(t, n) = [SetBound(t, old) EXCEPT !.saved = SubSeq(@, 1, n)]
  BY <1>2, <1>3, <1>4, <1>6, <1>7 DEF Undo
<1>10. SetBound(t, old).saved = t.saved
  BY PutBack DEF t, old
<1>11. Undo(t, n) = d
  BY <1>1, <1>5, <1>8, <1>9, <1>10 DEF SameBox, Doms
<1> QED BY <1>11 DEF t

\* Nor does a chain of them.
LEMMA TightenAllKeeps ==
  ASSUME NEW d \in Doms, NEW seq \in Seq(Changes)
  PROVE  TightenAll(d, seq) \in Doms /\ Leave(TightenAll(d, seq)) = Leave(d)
<1> DEFINE n == Len(seq)
<1>1. n \in Nat /\ \A k \in 1 .. n : seq[k] \in Changes
  BY LenProperties, ElementOfSeq
<1>2. PICK h \in [0 .. n -> Doms] :
        /\ h[0] = d
        /\ \A k \in 1 .. n : h[k] = TightenIfMoves(h[k - 1], seq[k])
        /\ TightenAll(d, seq) = h[n]
  BY TightenAllRun
<1> DEFINE P == {k \in 0 .. n : Leave(h[k]) = Leave(d)}
<1>3. 0 \in P
  BY <1>1, <1>2
<1>4. \A k \in 0 .. n - 1 : k \in P => k + 1 \in P
  <2> SUFFICES ASSUME NEW k \in 0 .. n - 1, Leave(h[k]) = Leave(d) PROVE Leave(h[k + 1]) = Leave(d)
    BY <1>1
  <2>1. k + 1 \in 1 .. n /\ (k + 1) - 1 = k /\ k \in 0 .. n
    BY <1>1
  <2>2. h[k + 1] = TightenIfMoves(h[k], seq[k + 1]) /\ h[k] \in Doms /\ seq[k + 1] \in Changes
    BY <1>1, <1>2, <2>1
  <2> QED BY <2>2, LeaveTightenIfMoves
<1> HIDE DEF P
<1>5. n \in P
  BY <1>1, <1>3, <1>4, ClimbTo, Zenon
<1>6. h[n] \in Doms
  BY <1>1
<1> QED BY <1>2, <1>5, <1>6 DEF P

------------------------------------------------------------------------------
(* An assignment that meets the changes stays in the box                   *)

\* A change an assignment satisfies keeps it in the box.
LEMMA TightenIfMovesInside ==
  ASSUME NEW d \in Doms, NEW c \in Changes, NEW x \in Spots, Inside(d, x), Satisfies(x, c)
  PROVE  Inside(TightenIfMoves(d, c), x)
<1>1. CASE c.isUpper
  BY <1>1 DEF TightenIfMoves, Moves, Tighten, Remember, SetBound, Inside, Satisfies, Changes, Doms, Spots
<1>2. CASE ~c.isUpper
  BY <1>2 DEF TightenIfMoves, Moves, Tighten, Remember, SetBound, Inside, Satisfies, Changes, Doms, Spots
<1> QED BY <1>1, <1>2

\* So does a chain of them.
LEMMA TightenAllInside ==
  ASSUME NEW d \in Doms, NEW seq \in Seq(Changes), NEW x \in Spots, Inside(d, x),
         \A k \in 1 .. Len(seq) : Satisfies(x, seq[k])
  PROVE  Inside(TightenAll(d, seq), x)
<1> DEFINE n == Len(seq)
<1>1. n \in Nat /\ \A k \in 1 .. n : seq[k] \in Changes
  BY LenProperties, ElementOfSeq
<1>2. PICK h \in [0 .. n -> Doms] :
        /\ h[0] = d
        /\ \A k \in 1 .. n : h[k] = TightenIfMoves(h[k - 1], seq[k])
        /\ TightenAll(d, seq) = h[n]
  BY TightenAllRun
<1> DEFINE P == {k \in 0 .. n : Inside(h[k], x)}
<1>3. 0 \in P
  BY <1>1, <1>2
<1>4. \A k \in 0 .. n - 1 : k \in P => k + 1 \in P
  <2> SUFFICES ASSUME NEW k \in 0 .. n - 1, Inside(h[k], x) PROVE Inside(h[k + 1], x)
    BY <1>1
  <2>1. k + 1 \in 1 .. n /\ (k + 1) - 1 = k /\ k \in 0 .. n
    BY <1>1
  <2>2. h[k + 1] = TightenIfMoves(h[k], seq[k + 1]) /\ h[k] \in Doms /\ seq[k + 1] \in Changes
    BY <1>1, <1>2, <2>1
  <2> QED BY <2>1, <2>2, TightenIfMovesInside
<1> HIDE DEF P
<1>5. n \in P
  BY <1>1, <1>3, <1>4, ClimbTo, Zenon
<1> QED BY <1>2, <1>5 DEF P

\* The order of a chain does not matter to an assignment.
LEMMA MeetsReverse ==
  ASSUME NEW chain \in Seq(Changes), NEW x
  PROVE  Meets(x, Reverse(chain)) <=> Meets(x, chain)
<1> DEFINE n == Len(chain)
<1>1. /\ n \in Nat /\ DOMAIN chain = 1 .. n /\ DOMAIN Reverse(chain) = 1 .. n
      /\ \A k \in 1 .. n : Reverse(chain)[k] = chain[n - k + 1]
  BY LenProperties, ReverseOf
<1>2. \A k \in 1 .. n : n - k + 1 \in 1 .. n /\ n - (n - k + 1) + 1 = k
  BY <1>1
<1>3. \A k \in 1 .. n : chain[k] = Reverse(chain)[n - k + 1]
  BY <1>1, <1>2
<1> QED BY <1>1, <1>2, <1>3 DEF Meets

\* enter() can be undone, and keeps every assignment that meets the node's chain.
LEMMA EnterKeeps ==
  ASSUME NEW d \in Doms, NEW chain \in Seq(Changes)
  PROVE  /\ Enter(d, chain) \in Doms
         /\ Leave(Enter(d, chain)) = [d EXCEPT !.saved = <<>>]
         /\ \A x \in Spots : Inside(d, x) /\ Meets(x, chain) => Inside(Enter(d, chain), x)
<1> DEFINE e == [d EXCEPT !.saved = <<>>]
<1>1. e \in Doms /\ e.saved = <<>> /\ e.lo = d.lo /\ e.hi = d.hi
  BY EmptySeq DEF Doms
<1>2. Reverse(chain) \in Seq(Changes) /\ DOMAIN Reverse(chain) = 1 .. Len(Reverse(chain))
  BY ReverseOf, LenProperties
<1> HIDE DEF e
<1>3. Enter(d, chain) = TightenAll(e, Reverse(chain))
  BY DEF Enter, e
<1>4. Enter(d, chain) \in Doms /\ Leave(Enter(d, chain)) = e
  BY <1>1, <1>2, <1>3, TightenAllKeeps, LeaveRested
<1>5. ASSUME NEW x \in Spots, Inside(d, x), Meets(x, chain) PROVE Inside(Enter(d, chain), x)
  <2>1. \A k \in 1 .. Len(Reverse(chain)) : Satisfies(x, Reverse(chain)[k])
    BY <1>2, <1>5, MeetsReverse DEF Meets
  <2>2. Inside(e, x)
    BY <1>1, <1>5 DEF Inside
  <2> QED BY <1>1, <1>2, <1>3, <2>1, <2>2, TightenAllInside
<1> QED BY <1>4, <1>5 DEF e

------------------------------------------------------------------------------
(* Learned conflicts                                                       *)

\* A literal that holds of the box holds of its assignments; negation is negation.
LEMMA LiteralTruth ==
  ASSUME NEW d \in Doms, NEW c \in Changes, NEW x \in Spots, Inside(d, x)
  PROVE  /\ Holds(d, c) => Satisfies(x, c)
         /\ ~Satisfies(x, c) <=> Satisfies(x, Negation(c))
<1>1. CASE c.isUpper
  BY <1>1 DEF Holds, Satisfies, Negation, Change, Inside, Changes, Doms, Spots
<1>2. CASE ~c.isUpper
  BY <1>2 DEF Holds, Satisfies, Negation, Change, Inside, Changes, Doms, Spots
<1> QED BY <1>1, <1>2

\* A visit can be undone.
LEMMA VisitKeeps ==
  ASSUME NEW s \in Visits, NEW conflict \in SUBSET Changes
  PROVE  Leave(Visit(s, conflict).dom) = Leave(s.dom)
<1> DEFINE literal == CHOOSE c \in Implied(s.dom, conflict) : TRUE
<1>1. Implied(s.dom, conflict) \subseteq Changes
  BY DEF Implied, Undecided
<1>2. CASE Implied(s.dom, conflict) = {}
  BY <1>2 DEF Visit, Visits
<1>3. CASE Implied(s.dom, conflict) # {}
  <2>1. literal \in Changes
    BY <1>1, <1>3
  <2>2. Leave(TightenIfMoves(s.dom, Negation(literal))) = Leave(s.dom)
    BY <2>1, NegationType, LeaveTightenIfMoves DEF Visits
  <2> HIDE DEF literal
  <2> QED BY <1>3, <2>2 DEF Visit, Visits, literal
<1> QED BY <1>2, <1>3

\* A conflict that does not hold of an assignment of the box neither closes the box
\* nor takes the assignment out of it.
LEMMA VisitInside ==
  ASSUME NEW s \in Visits, NEW conflict \in SUBSET Changes, NEW x \in Spots,
         s.dead = "no", Inside(s.dom, x), \E c \in conflict : ~Satisfies(x, c)
  PROVE  Visit(s, conflict).dead = "no" /\ Inside(Visit(s, conflict).dom, x)
<1> DEFINE literal == CHOOSE c \in Implied(s.dom, conflict) : TRUE
<1>0. s.dom \in Doms
  BY DEF Visits
<1>1. PICK c \in conflict : ~Satisfies(x, c)
  OBVIOUS
<1>2. c \in Undecided(s.dom, conflict)
  BY <1>0, <1>1, LiteralTruth DEF Undecided
<1>3. ~Fires(s.dom, conflict)
  BY <1>2 DEF Fires
<1>4. CASE Implied(s.dom, conflict) = {}
  BY <1>3, <1>4 DEF Visit
<1>5. CASE Implied(s.dom, conflict) # {}
  <2>1. literal \in Implied(s.dom, conflict)
    BY <1>5
  <2> HIDE DEF literal
  <2>2. literal = c
    BY <1>2, <2>1 DEF Implied
  <2>3. Negation(c) \in Changes /\ Satisfies(x, Negation(c))
    BY <1>0, <1>1, NegationType, LiteralTruth
  <2> DEFINE after == TightenIfMoves(s.dom, Negation(c))
  <2>4. after \in Doms /\ Inside(after, x)
    BY <1>0, <2>3, TightenIfMovesType, TightenIfMovesInside
  <2> HIDE DEF after
  <2>5. ~IsEmpty(after)
    BY <2>4 DEF IsEmpty, Inside, Doms, Spots
  <2>6. Visit(s, conflict) = [dom |-> after, dead |-> IF IsEmpty(after) THEN "bound" ELSE "no"]
    BY <1>3, <1>5, <2>2 DEF Visit, after, literal
  <2> QED BY <2>4, <2>5, <2>6
<1> QED BY <1>4, <1>5

\* Propagating the conflicts can be undone.
LEMMA PropagateKeeps ==
  ASSUME NEW d \in Doms, NEW learned \in Seq(SUBSET Changes),
         NEW dead \in {"no", "bound", "conflict"}
  PROVE  /\ PropagateConflicts(d, learned, dead) \in Visits
         /\ Leave(PropagateConflicts(d, learned, dead).dom) = Leave(d)
<1> DEFINE n == Len(learned)
           base == [dom |-> d, dead |-> dead]
<1>1. n \in Nat /\ base \in Visits /\ \A k \in 1 .. n : learned[k] \in SUBSET Changes
  BY LenProperties, ElementOfSeq DEF Visits
<1> HIDE DEF base
<1>2. PICK h \in [0 .. n -> Visits] :
        /\ h[0] = base
        /\ \A k \in 1 .. n : h[k] = Visit(h[k - 1], learned[k])
        /\ FoldLeft(Visit, base, learned) = h[n]
  BY <1>1, VisitRun
<1> DEFINE P == {k \in 0 .. n : Leave(h[k].dom) = Leave(d)}
<1>3. 0 \in P
  BY <1>1, <1>2 DEF base
<1>4. \A k \in 0 .. n - 1 : k \in P => k + 1 \in P
  <2> SUFFICES ASSUME NEW k \in 0 .. n - 1, Leave(h[k].dom) = Leave(d)
               PROVE Leave(h[k + 1].dom) = Leave(d)
    BY <1>1
  <2>1. k + 1 \in 1 .. n /\ (k + 1) - 1 = k /\ k \in 0 .. n
    BY <1>1
  <2>2. h[k + 1] = Visit(h[k], learned[k + 1]) /\ h[k] \in Visits /\ learned[k + 1] \in SUBSET Changes
    BY <1>1, <1>2, <2>1
  <2> QED BY <2>2, VisitKeeps
<1> HIDE DEF P
<1>5. n \in P
  BY <1>1, <1>3, <1>4, ClimbTo, Zenon
<1>6. h[n] \in Visits
  BY <1>1
<1>7. PropagateConflicts(d, learned, dead) = h[n]
  BY <1>2, Zenon DEF PropagateConflicts, base
<1> QED BY <1>5, <1>6, <1>7 DEF P

\* Conflicts that hold of no feasible assignment lose none.
LEMMA PropagateInside ==
  ASSUME NEW d \in Doms, NEW learned \in Seq(SUBSET Changes), NEW x \in Spots, Inside(d, x),
         \A k \in 1 .. Len(learned) : \E c \in learned[k] : ~Satisfies(x, c)
  PROVE  /\ PropagateConflicts(d, learned, "no").dead = "no"
         /\ Inside(PropagateConflicts(d, learned, "no").dom, x)
<1> DEFINE n == Len(learned)
           base == [dom |-> d, dead |-> "no"]
<1>1. n \in Nat /\ base \in Visits /\ \A k \in 1 .. n : learned[k] \in SUBSET Changes
  BY LenProperties, ElementOfSeq DEF Visits
<1> HIDE DEF base
<1>2. PICK h \in [0 .. n -> Visits] :
        /\ h[0] = base
        /\ \A k \in 1 .. n : h[k] = Visit(h[k - 1], learned[k])
        /\ FoldLeft(Visit, base, learned) = h[n]
  BY <1>1, VisitRun
<1> DEFINE P == {k \in 0 .. n : h[k].dead = "no" /\ Inside(h[k].dom, x)}
<1>3. 0 \in P
  BY <1>1, <1>2 DEF base
<1>4. \A k \in 0 .. n - 1 : k \in P => k + 1 \in P
  <2> SUFFICES ASSUME NEW k \in 0 .. n - 1, h[k].dead = "no", Inside(h[k].dom, x)
               PROVE h[k + 1].dead = "no" /\ Inside(h[k + 1].dom, x)
    BY <1>1
  <2>1. k + 1 \in 1 .. n /\ (k + 1) - 1 = k /\ k \in 0 .. n
    BY <1>1
  <2>2. h[k + 1] = Visit(h[k], learned[k + 1]) /\ h[k] \in Visits /\ learned[k + 1] \in SUBSET Changes
    BY <1>1, <1>2, <2>1
  <2>3. \E c \in learned[k + 1] : ~Satisfies(x, c)
    BY <2>1
  <2> QED BY <2>2, <2>3, VisitInside
<1> HIDE DEF P
<1>5. n \in P
  BY <1>1, <1>3, <1>4, ClimbTo, Zenon
<1>7. PropagateConflicts(d, learned, "no") = h[n]
  BY <1>2, Zenon DEF PropagateConflicts, base
<1> QED BY <1>5, <1>7 DEF P

------------------------------------------------------------------------------
(* The pieces of a node cover it but for the point they are split at       *)

\* An assignment meets a chain if it satisfies every member.
LEMMA MeetsSet ==
  ASSUME NEW chain, NEW y
  PROVE  Meets(y, chain) <=> \A c \in ToSet(chain) : Satisfies(y, c)
BY DEF Meets, ToSet

\* A chain that extends another asks for both.
LEMMA MeetsConcat ==
  ASSUME NEW s \in Seq(Changes), NEW t \in Seq(Changes), NEW y
  PROVE  Meets(y, s \o t) <=> Meets(y, s) /\ Meets(y, t)
BY ConcatMembers, MeetsSet

\* A child's chain asks for its parent's and the branching.
LEMMA MeetsAppend ==
  ASSUME NEW s \in Seq(Changes), NEW c \in Changes, NEW y
  PROVE  Meets(y, Append(s, c)) <=> Meets(y, s) /\ Satisfies(y, c)
<1> DEFINE one == <<c>>
<1>1. one \in Seq(Changes) /\ Append(s, c) = s \o one
  BY OneAndTwo, AppendIsConcat
<1>2. Meets(y, one) <=> Satisfies(y, c)
  BY DEF Meets
<1> HIDE DEF one
<1>3. Meets(y, s \o one) <=> Meets(y, s) /\ Meets(y, one)
  BY <1>1, MeetsConcat
<1> QED BY <1>1, <1>2, <1>3

\* A side of a column is one chain, or none when it is outside the box.
LEMMA SideMembers ==
  ASSUME NEW d, NEW fixed \in Seq(Changes), NEW j \in Cols, NEW v \in Int
  PROVE  /\ Below(d, fixed, j, v) \in Seq(Seq(Changes)) /\ Above(d, fixed, j, v) \in Seq(Seq(Changes))
         /\ ToSet(Below(d, fixed, j, v)) =
              IF v - 1 >= d.lo[j] THEN {Append(fixed, Change(j, TRUE, v - 1))} ELSE {}
         /\ ToSet(Above(d, fixed, j, v)) =
              IF v + 1 <= d.hi[j] THEN {Append(fixed, Change(j, FALSE, v + 1))} ELSE {}
<1>1. Change(j, TRUE, v - 1) \in Changes /\ Change(j, FALSE, v + 1) \in Changes
  BY DEF Change, Changes
<1>2. /\ Append(fixed, Change(j, TRUE, v - 1)) \in Seq(Changes)
      /\ Append(fixed, Change(j, FALSE, v + 1)) \in Seq(Changes)
  BY <1>1, AppendProperties
<1>3. ToSet(<<>>) = {}
  BY DEF ToSet
<1>4. ASSUME NEW a \in Seq(Changes) PROVE <<a>> \in Seq(Seq(Changes)) /\ ToSet(<<a>>) = {a}
  <2>1. <<a>> \in Seq(Seq(Changes)) /\ Len(<<a>>) = 1 /\ <<a>>[1] = a
    BY OneAndTwo
  <2> QED BY <2>1 DEF ToSet
<1>5. <<>> \in Seq(Seq(Changes))
  BY EmptySeq
<1> QED BY <1>2, <1>3, <1>4, <1>5 DEF Below, Above

\* What splitting one column adds.
LEMMA SplitMembers ==
  ASSUME NEW d \in Doms, NEW x \in Spots, NEW s \in Splits, NEW j \in Cols, j \in FreeColumns(d)
  PROVE  /\ \A p : p \in ToSet(Split(d, x, s, j).pieces) <=>
                     \/ p \in ToSet(s.pieces)
                     \/ p \in ToSet(Below(d, s.fixed, j, x[j]))
                     \/ p \in ToSet(Above(d, s.fixed, j, x[j]))
         /\ \A y : Meets(y, Split(d, x, s, j).fixed) <=>
                     /\ Meets(y, s.fixed)
                     /\ Satisfies(y, Change(j, FALSE, x[j])) /\ Satisfies(y, Change(j, TRUE, x[j]))
<1> DEFINE a == Below(d, s.fixed, j, x[j])
           b == Above(d, s.fixed, j, x[j])
           two == <<Change(j, FALSE, x[j]), Change(j, TRUE, x[j])>>
<1>1. /\ j \in Cols /\ x[j] \in Int /\ s.fixed \in Seq(Changes) /\ s.pieces \in Seq(Seq(Changes))
  BY DEF FreeColumns, Spots, Splits
<1>2. a \in Seq(Seq(Changes)) /\ b \in Seq(Seq(Changes))
  BY <1>1, SideMembers
<1>3. /\ Change(j, FALSE, x[j]) \in Changes /\ Change(j, TRUE, x[j]) \in Changes
  BY <1>1 DEF Change, Changes
<1>4. two \in Seq(Changes) /\ Len(two) = 2
  BY <1>3, OneAndTwo
<1>5. \A y : Meets(y, two) <=>
               Satisfies(y, Change(j, FALSE, x[j])) /\ Satisfies(y, Change(j, TRUE, x[j]))
  <2>1. /\ two[1] = Change(j, FALSE, x[j]) /\ two[2] = Change(j, TRUE, x[j])
        /\ two \in Seq(Changes) /\ Len(two) = 2
    BY <1>3, OneAndTwo
  <2> HIDE DEF two
  <2>2. DOMAIN two = {1, 2}
    BY <2>1, LenProperties
  <2> QED BY <2>1, <2>2 DEF Meets
<1> HIDE DEF a, b, two
<1>6. s.pieces \o a \in Seq(Seq(Changes))
  BY <1>1, <1>2, ConcatProperties
<1>7. ToSet((s.pieces \o a) \o b) = ToSet(s.pieces) \cup ToSet(a) \cup ToSet(b)
  <2>1. ToSet(s.pieces \o a) = ToSet(s.pieces) \cup ToSet(a)
    BY <1>1, <1>2, ConcatMembers
  <2> DEFINE u == s.pieces \o a
  <2> HIDE DEF u
  <2>2. ToSet(u \o b) = ToSet(u) \cup ToSet(b)
    BY <1>2, <1>6, ConcatMembers DEF u
  <2> QED BY <2>1, <2>2 DEF u
<1>8. /\ Split(d, x, s, j).pieces = (s.pieces \o a) \o b
      /\ Split(d, x, s, j).fixed = s.fixed \o two
  BY DEF Split, a, b, two
<1>9. \A y : Meets(y, s.fixed \o two) <=> Meets(y, s.fixed) /\ Meets(y, two)
  BY <1>1, <1>4, MeetsConcat
<1>10. \A y : Meets(y, Split(d, x, s, j).fixed) <=>
                     /\ Meets(y, s.fixed)
                     /\ Satisfies(y, Change(j, FALSE, x[j])) /\ Satisfies(y, Change(j, TRUE, x[j]))
  BY <1>5, <1>8, <1>9
<1> QED BY <1>7, <1>8, <1>10 DEF a, b

\* The loop's run, a column at a time.
PiecesRunOf(d, chain, x, h) ==
  /\ h \in [0 .. Cardinality(Cols) -> Splits]
  /\ h[0] = [fixed |-> chain, pieces |-> <<>>]
  /\ \A k \in 1 .. Cardinality(Cols) : h[k] = Split(d, x, h[k - 1], k)
  /\ Pieces(d, chain, x) = h[Cardinality(Cols)].pieces

\* The loop's run exists.
LEMMA PiecesRun ==
  ASSUME NEW d \in Doms, NEW chain \in Seq(Changes), NEW x \in Spots
  PROVE  Cardinality(Cols) \in Nat /\ \E h : PiecesRunOf(d, chain, x, h)
<1> DEFINE n == Cardinality(Cols)
           seq == [j \in Cols |-> j]
           base == [fixed |-> chain, pieces |-> <<>>]
<1>1. n \in Nat /\ Cols = 1 .. n
  BY ColsAssumption, FS_CardinalityType
<1>2. seq \in Seq(Cols) /\ Len(seq) = n /\ \A k \in 1 .. n : seq[k] = k
  BY <1>1
<1>3. base \in Splits
  BY EmptySeq DEF Splits
<1> HIDE DEF seq, base
<1>4. \E h \in [0 .. Len(seq) -> Splits] :
        /\ h[0] = base
        /\ \A k \in 1 .. Len(seq) : h[k] = Split(d, x, h[k - 1], seq[k])
        /\ SplitAll(d, x, base, seq) = h[Len(seq)]
  BY <1>2, <1>3, SplitRun
<1>5. PICK h \in [0 .. n -> Splits] :
        /\ h[0] = base
        /\ \A k \in 1 .. n : h[k] = Split(d, x, h[k - 1], k)
        /\ SplitAll(d, x, base, seq) = h[n]
  BY <1>2, <1>4
<1>6. Pieces(d, chain, x) = h[n].pieces
  BY <1>5 DEF Pieces, base, seq
<1>7. PiecesRunOf(d, chain, x, h)
  BY <1>5, <1>6 DEF PiecesRunOf, base
<1> QED BY <1>1, <1>7

\* Each piece is a part of the node.
LEMMA PiecesAreParts ==
  ASSUME NEW d \in Doms, NEW chain \in Seq(Changes), NEW x \in Spots
  PROVE  /\ Pieces(d, chain, x) \in Seq(Seq(Changes))
         /\ \A p \in ToSet(Pieces(d, chain, x)) : \A y : Meets(y, p) => Meets(y, chain)
<1> DEFINE n == Cardinality(Cols)
<1>1. n \in Nat /\ Cols = 1 .. n
  BY ColsAssumption, FS_CardinalityType
<1>2. PICK h : PiecesRunOf(d, chain, x, h)
  BY PiecesRun
<1>3. /\ h \in [0 .. n -> Splits] /\ h[0] = [fixed |-> chain, pieces |-> <<>>]
      /\ \A k \in 1 .. n : h[k] = Split(d, x, h[k - 1], k)
      /\ Pieces(d, chain, x) = h[n].pieces
  BY <1>2 DEF PiecesRunOf
<1> DEFINE Part(s) == /\ \A y : Meets(y, s.fixed) => Meets(y, chain)
                      /\ \A p \in ToSet(s.pieces) : \A y : Meets(y, p) => Meets(y, chain)
           P == {k \in 0 .. n : Part(h[k])}
<1>4. 0 \in P
  <2>1. ToSet(<<>>) = {}
    BY DEF ToSet
  <2> QED BY <1>1, <1>3, <2>1
<1>5. \A k \in 0 .. n - 1 : k \in P => k + 1 \in P
  <2> SUFFICES ASSUME NEW k \in 0 .. n - 1, Part(h[k]) PROVE Part(h[k + 1])
    BY <1>1
  <2> DEFINE s == h[k]
             j == k + 1
  <2>1. j \in Cols /\ s \in Splits /\ h[j] = Split(d, x, s, j)
    <3>1. k + 1 \in 1 .. n /\ (k + 1) - 1 = k /\ k \in 0 .. n
      BY <1>1
    <3> QED BY <1>1, <1>3, <3>1
  <2>2. Part(s)
    OBVIOUS
  <2> HIDE DEF s, j
  <2>3. ASSUME j \notin FreeColumns(d) PROVE Part(h[j])
    BY <2>1, <2>2, <2>3 DEF Split
  <2>4. ASSUME j \in FreeColumns(d) PROVE Part(h[j])
    <3> DEFINE low == Change(j, TRUE, x[j] - 1)
               high == Change(j, FALSE, x[j] + 1)
    <3>1. s.fixed \in Seq(Changes) /\ x[j] \in Int /\ low \in Changes /\ high \in Changes
      BY <2>1 DEF Splits, Spots, Change, Changes
    <3> DEFINE a == Below(d, s.fixed, j, x[j])
               b == Above(d, s.fixed, j, x[j])
    <3>2. ToSet(a) \subseteq {Append(s.fixed, low)} /\ ToSet(b) \subseteq {Append(s.fixed, high)}
      BY <2>1, <3>1, SideMembers, Zenon
    <3>0. \A p : p \in ToSet(Split(d, x, s, j).pieces) <=>
                   p \in ToSet(s.pieces) \/ p \in ToSet(a) \/ p \in ToSet(b)
      BY <2>1, <2>4, SplitMembers
    <3> HIDE DEF a, b
    <3> HIDE DEF low, high
    <3>3. \A y : /\ Meets(y, Append(s.fixed, low)) => Meets(y, s.fixed)
                 /\ Meets(y, Append(s.fixed, high)) => Meets(y, s.fixed)
      BY <3>1, MeetsAppend
    <3>4. ToSet(Split(d, x, s, j).pieces) \subseteq
            ToSet(s.pieces) \cup {Append(s.fixed, low), Append(s.fixed, high)}
      BY <3>0, <3>2
    <3>5. \A y : Meets(y, Split(d, x, s, j).fixed) => Meets(y, s.fixed)
      BY <2>1, <2>4, SplitMembers
    <3>6. \A p \in ToSet(Split(d, x, s, j).pieces) : \A y : Meets(y, p) => Meets(y, chain)
      BY <2>2, <3>3, <3>4
    <3> QED BY <2>1, <2>2, <3>5, <3>6
  <2>5. Part(h[j])
    BY <2>3, <2>4
  <2> QED BY <2>5 DEF j
<1> HIDE DEF P
<1>6. n \in P
  BY <1>1, <1>4, <1>5, ClimbTo, Zenon
<1>7. n \in 0 .. n
  BY <1>1
<1> QED BY <1>3, <1>6, <1>7 DEF P, Splits

\* Every other assignment of the node is in one of the pieces.
THEOREM PiecesCover ==
  ASSUME NEW d \in Doms, NEW chain \in Seq(Changes), NEW x \in Spots, NEW y \in Spots,
         Inside(d, x), Inside(d, y), Meets(y, chain), y # x
  PROVE  \E p \in ToSet(Pieces(d, chain, x)) : Meets(y, p)
<1> DEFINE n == Cardinality(Cols)
<1>1. n \in Nat /\ Cols = 1 .. n
  BY ColsAssumption, FS_CardinalityType
<1>2. PICK h : PiecesRunOf(d, chain, x, h)
  BY PiecesRun
<1>3. /\ h \in [0 .. n -> Splits] /\ h[0] = [fixed |-> chain, pieces |-> <<>>]
      /\ \A k \in 1 .. n : h[k] = Split(d, x, h[k - 1], k)
      /\ Pieces(d, chain, x) = h[n].pieces
  BY <1>2 DEF PiecesRunOf
<1> DEFINE Done(s) == \E p \in ToSet(s.pieces) : Meets(y, p)
           P == {k \in 0 .. n : \/ Done(h[k])
                                \/ Meets(y, h[k].fixed) /\ \A i \in 1 .. k : y[i] = x[i]}
<1>4. 0 \in P
  BY <1>1, <1>3
<1>5. \A k \in 0 .. n - 1 : k \in P => k + 1 \in P
  <2> SUFFICES ASSUME NEW k \in 0 .. n - 1, k \in P PROVE k + 1 \in P
    OBVIOUS
  <2> DEFINE s == h[k]
             j == k + 1
  <2>1. j \in Cols /\ s \in Splits /\ h[j] = Split(d, x, s, j) /\ j \in 0 .. n
    <3>1. k + 1 \in 1 .. n /\ (k + 1) - 1 = k /\ k \in 0 .. n
      BY <1>1
    <3> QED BY <1>1, <1>3, <3>1
  <2>2. Done(s) \/ (Meets(y, s.fixed) /\ \A i \in 1 .. k : y[i] = x[i])
    OBVIOUS
  <2>3. \A i \in 1 .. j : i = j \/ i \in 1 .. k
    OBVIOUS
  <2> HIDE DEF s, j
  <2>4. x[j] \in Int /\ y[j] \in Int /\ d.lo[j] \in Int /\ d.hi[j] \in Int
        /\ d.lo[j] <= x[j] /\ x[j] <= d.hi[j] /\ d.lo[j] <= y[j] /\ y[j] <= d.hi[j]
    BY <2>1 DEF Spots, Doms, Inside
  <2> DEFINE Good(t) == Done(t) \/ (Meets(y, t.fixed) /\ \A i \in 1 .. j : y[i] = x[i])
  <2>5. ASSUME j \notin FreeColumns(d) PROVE Good(h[j])
    <3>1. y[j] = x[j]
      BY <2>1, <2>4, <2>5 DEF FreeColumns
    <3>2. h[j] = s
      BY <2>1, <2>5 DEF Split
    <3> QED BY <2>2, <2>3, <3>1, <3>2
  <2>6. ASSUME j \in FreeColumns(d) PROVE Good(h[j])
    <3> DEFINE low == Change(j, TRUE, x[j] - 1)
               high == Change(j, FALSE, x[j] + 1)
    <3>1. s.fixed \in Seq(Changes) /\ low \in Changes /\ high \in Changes
      BY <2>1, <2>4 DEF Splits, Change, Changes
    <3> DEFINE a == Below(d, s.fixed, j, x[j])
               b == Above(d, s.fixed, j, x[j])
    <3>2. /\ x[j] - 1 >= d.lo[j] => Append(s.fixed, low) \in ToSet(a)
          /\ x[j] + 1 <= d.hi[j] => Append(s.fixed, high) \in ToSet(b)
      <4>1. /\ ToSet(a) = IF x[j] - 1 >= d.lo[j] THEN {Append(s.fixed, low)} ELSE {}
            /\ ToSet(b) = IF x[j] + 1 <= d.hi[j] THEN {Append(s.fixed, high)} ELSE {}
        BY <2>1, <2>4, <3>1, SideMembers, Zenon
      <4> HIDE DEF a, b, low, high
      <4> QED BY <4>1
    <3>3. /\ y[j] <= x[j] - 1 => Satisfies(y, low)
          /\ y[j] >= x[j] + 1 => Satisfies(y, high)
          /\ y[j] = x[j] => Satisfies(y, Change(j, FALSE, x[j])) /\ Satisfies(y, Change(j, TRUE, x[j]))
      BY <2>4 DEF Satisfies, Change
    <3> HIDE DEF low, high
    <3>4. \A p : p \in ToSet(Split(d, x, s, j).pieces) <=>
                   p \in ToSet(s.pieces) \/ p \in ToSet(a) \/ p \in ToSet(b)
      BY <2>1, <2>6, SplitMembers
    <3> HIDE DEF a, b
    <3>5. CASE Done(s)
      <4>1. Done(Split(d, x, s, j))
        BY <3>4, <3>5
      <4> QED BY <2>1, <4>1
    <3>6. CASE Meets(y, s.fixed) /\ \A i \in 1 .. k : y[i] = x[i]
      <4>1. CASE y[j] <= x[j] - 1
        <5>1. Meets(y, Append(s.fixed, low))
          BY <3>1, <3>3, <3>6, <4>1, MeetsAppend
        <5>2. x[j] - 1 >= d.lo[j]
          BY <2>4, <4>1
        <5>3. Done(Split(d, x, s, j))
          BY <3>2, <3>4, <5>1, <5>2
        <5> QED BY <2>1, <5>3
      <4>2. CASE y[j] >= x[j] + 1
        <5>1. Meets(y, Append(s.fixed, high))
          BY <3>1, <3>3, <3>6, <4>2, MeetsAppend
        <5>2. x[j] + 1 <= d.hi[j]
          BY <2>4, <4>2
        <5>3. Done(Split(d, x, s, j))
          BY <3>2, <3>4, <5>1, <5>2
        <5> QED BY <2>1, <5>3
      <4>3. CASE y[j] = x[j]
        <5>1. Meets(y, Split(d, x, s, j).fixed)
          BY <2>1, <2>6, <3>3, <3>6, <4>3, SplitMembers
        <5>2. \A i \in 1 .. j : y[i] = x[i]
          BY <2>3, <3>6, <4>3
        <5> QED BY <2>1, <5>1, <5>2
      <4> QED BY <2>4, <4>1, <4>2, <4>3
    <3> QED BY <2>2, <3>5, <3>6
  <2>7. Good(h[j])
    BY <2>5, <2>6
  <2> QED BY <2>1, <2>7 DEF j
<1> HIDE DEF P
<1>6. n \in P
  BY <1>1, <1>4, <1>5, ClimbTo, Zenon
<1>7. Done(h[n]) \/ \A i \in 1 .. n : y[i] = x[i]
  BY <1>6 DEF P
<1>8. ~ \A i \in Cols : y[i] = x[i]
  BY DEF Spots
<1> QED BY <1>1, <1>3, <1>7, <1>8

------------------------------------------------------------------------------
(* The solution pool                                                       *)

\* What the pool may hold.
Entries == [x : [Cols -> Nat], obj : Nat]

\* The distance of two assignments is a count.
LEMMA DistanceType ==
  ASSUME NEW x \in [Cols -> Nat], NEW y \in [Cols -> Nat]
  PROVE  Distance(x, y) \in Nat
<1> DEFINE differ == {j \in DOMAIN x : x[j] # y[j]}
<1>1. IsFiniteSet(Cols) /\ differ \in SUBSET Cols
  BY ColsAssumption
<1> HIDE DEF differ
<1>2. IsFiniteSet(differ)
  BY <1>1, FS_Subset
<1>3. Cardinality(differ) \in Nat
  BY <1>2, FS_CardinalityType
<1> QED BY <1>3 DEF Distance, differ

\* So is the distance to the nearest other member.
LEMMA NearestType ==
  ASSUME NEW pool_ \in Seq(Entries), Len(pool_) >= 2, NEW k \in 1 .. Len(pool_)
  PROVE  Nearest(pool_, k) \in Nat
<1> DEFINE gaps == {Distance(pool_[k].x, pool_[i].x) : i \in DOMAIN pool_ \ {k}}
<1>1. Len(pool_) \in Nat /\ DOMAIN pool_ = 1 .. Len(pool_) /\ \A i \in 1 .. Len(pool_) : pool_[i] \in Entries
  BY LenProperties, ElementOfSeq
<1>2. \A i \in 1 .. Len(pool_) : pool_[i].x \in [Cols -> Nat]
  BY <1>1 DEF Entries
<1>3. gaps \subseteq Nat
  BY <1>1, <1>2, DistanceType
<1>4. \E i \in DOMAIN pool_ \ {k} : TRUE
  <2>1. CASE k = 1
    BY <1>1, <2>1, 2 \in 1 .. Len(pool_)
  <2>2. CASE k # 1
    BY <1>1, <2>2, 1 \in 1 .. Len(pool_)
  <2> QED BY <2>1, <2>2
<1>5. gaps # {}
  BY <1>4
<1> HIDE DEF gaps
<1>6. 0 \in Int /\ gaps \subseteq Int /\ \A g \in gaps : 0 <= g
  BY <1>3
<1>7. Min(gaps) \in gaps
  BY <1>5, <1>6, MinIn
<1> QED BY <1>3, <1>7 DEF Nearest, gaps

\* The member evicted is one of the pool's.
LEMMA VictimIn ==
  ASSUME NEW pool_ \in Seq(Entries), pool_ # <<>>, NEW diversity
  PROVE  Victim(pool_, diversity) \in 1 .. Len(pool_)
<1> DEFINE n == Len(pool_)
<1>1. n \in Nat /\ n >= 1
  BY EmptySeq, LenProperties
<1>2. CASE ~diversity \/ n < 3
  BY <1>1, <1>2 DEF Victim
<1>3. CASE ~(~diversity \/ n < 3)
  <2> DEFINE others == 2 .. n
             nears == {Nearest(pool_, k) : k \in others}
             worst == {k \in others : Nearest(pool_, k) = Min(nears)}
  <2>1. \A k \in others : Nearest(pool_, k) \in Nat
    BY <1>1, <1>3, NearestType
  <2>2. nears \subseteq Nat /\ nears # {}
    <3>1. 2 \in others
      BY <1>1, <1>3
    <3> QED BY <2>1, <3>1
  <2> HIDE DEF nears
  <2>3. 0 \in Int /\ nears \subseteq Int /\ \A g \in nears : 0 <= g
    BY <2>2
  <2>4. Min(nears) \in nears
    BY <2>2, <2>3, MinIn
  <2>5. worst # {} /\ worst \in SUBSET (1 .. n)
    <3>1. PICK k \in others : Nearest(pool_, k) = Min(nears)
      BY <2>4 DEF nears
    <3>2. k \in worst
      BY <3>1
    <3>3. others \subseteq 1 .. n
      BY <1>1
    <3> HIDE DEF others
    <3>4. worst \subseteq others
      OBVIOUS
    <3> QED BY <3>2, <3>3, <3>4
  <2> HIDE DEF worst
  <2>6. Max(worst) \in worst
    BY <1>1, <2>5, MaxIn
  <2>7. Victim(pool_, diversity) = Max(worst)
    BY <1>3 DEF Victim, worst, nears
  <2> QED BY <2>5, <2>6, <2>7
<1> QED BY <1>2, <1>3

\* The pool holds what was offered to it.
LEMMA OfferType ==
  ASSUME NEW S \in SUBSET Entries, NEW pool_ \in Seq(S), NEW e \in S,
         NEW capacity \in Nat, NEW diversity
  PROVE  Offer(pool_, e, capacity, diversity) \in Seq(S)
<1> DEFINE rest == Without(pool_, e.x)
           at == 1 + Cardinality({k \in DOMAIN rest : rest[k].obj <= e.obj})
           grown == Insert(rest, e)
<1>1. rest \in Seq(S)
  <2>1. CASE Holders(pool_, e.x) = {}
    BY <2>1 DEF Without
  <2>2. CASE Holders(pool_, e.x) # {}
    <3> DEFINE k == CHOOSE i \in Holders(pool_, e.x) : TRUE
    <3>1. k \in 1 .. Len(pool_)
      <4>1. k \in Holders(pool_, e.x)
        BY <2>2
      <4> HIDE DEF k
      <4> QED BY <4>1, LenProperties DEF Holders
    <3> HIDE DEF k
    <3>2. RemoveAt(pool_, k) \in Seq(S)
      BY <3>1, RemoveAtMembers
    <3> QED BY <2>2, <3>2 DEF Without, k
  <2> QED BY <2>1, <2>2
<1> HIDE DEF rest
<1>2. Len(rest) \in Nat /\ DOMAIN rest = 1 .. Len(rest)
  BY <1>1, LenProperties
<1>3. at \in 1 .. Len(rest) + 1
  <2> DEFINE low == {k \in DOMAIN rest : rest[k].obj <= e.obj}
             all == 1 .. Len(rest)
  <2>1. IsFiniteSet(all) /\ Cardinality(all) = Len(rest)
    <3>1. 1 \in Int /\ Len(rest) \in Int
      BY <1>2
    <3>2. /\ IsFiniteSet(1 .. Len(rest))
          /\ Cardinality(1 .. Len(rest)) = IF 1 > Len(rest) THEN 0 ELSE Len(rest) - 1 + 1
      BY <3>1, FS_Interval
    <3>3. (IF 1 > Len(rest) THEN 0 ELSE Len(rest) - 1 + 1) = Len(rest)
      BY <1>2
    <3> QED BY <3>2, <3>3
  <2>2. low \in SUBSET all
    BY <1>2
  <2> HIDE DEF low, all
  <2>3. IsFiniteSet(low) /\ Cardinality(low) <= Len(rest)
    BY <2>1, <2>2, FS_Subset
  <2>4. Cardinality(low) \in Nat
    BY <2>3, FS_CardinalityType
  <2> QED BY <1>2, <2>3, <2>4 DEF low
<1> HIDE DEF at
<1>4. grown = InsertAt(rest, at, e)
  BY DEF Insert, at
<1>5. grown \in Seq(S) /\ Len(grown) = Len(rest) + 1
  BY <1>1, <1>3, <1>4, InsertAtType
<1> HIDE DEF grown
<1>6. EvictOne(grown, diversity) \in Seq(S)
  <2>1. grown \in Seq(Entries) /\ grown # <<>>
    BY <1>2, <1>5, SeqMonotonic, EmptySeq
  <2>2. Victim(grown, diversity) \in 1 .. Len(grown)
    BY <2>1, VictimIn
  <2> QED BY <1>5, <2>2, RemoveAtMembers DEF EvictOne
<1> QED BY <1>5, <1>6 DEF Offer, grown, rest

------------------------------------------------------------------------------
(* Rounding                                                                *)

\* A multiple that is less than a step above another is not above it.
LEMMA Multiples ==
  ASSUME NEW s \in Nat \ {0}, NEW a \in Int, NEW b \in Int, s * a < s * b + s
  PROVE  s * a <= s * b
<1>1. s * b + s = s * (b + 1)
  OBVIOUS
<1>2. a < b + 1
  <2>1. SUFFICES ASSUME a >= b + 1 PROVE FALSE
    OBVIOUS
  <2>2. s * (b + 1) <= s * a
    BY <2>1
  <2> QED BY <1>1, <2>2
<1> QED BY <1>2

\* Rounding goes up, by less than a step, to a multiple of it.
LEMMA RoundedBounds ==
  ASSUME NEW b \in Nat
  PROVE  /\ Rounded(b) \in Int /\ b <= Rounded(b) /\ Rounded(b) < b + Step
         /\ \E m \in Int : Rounded(b) = Step * m
<1> DEFINE q == (b + Step - 1) \div Step
           r == (b + Step - 1) % Step
<1>1. Step \in Nat \ {0}
  BY TreeAssumption
<1>2. q \in Int /\ r \in 0 .. Step - 1 /\ b + Step - 1 = Step * q + r
  BY <1>1
<1>3. Rounded(b) = Step * q
  BY DEF Rounded, NegInf
<1> HIDE DEF q, r
<1>4. Step * q \in Int
  BY <1>1, <1>2
<1> QED BY <1>1, <1>2, <1>3, <1>4

\* Rounding does not pass a multiple of the step.
LEMMA RoundedBelow ==
  ASSUME NEW b \in Nat, NEW m \in Int, b <= Step * m
  PROVE  Rounded(b) <= Step * m
<1>1. Step \in Nat \ {0}
  BY TreeAssumption
<1>2. PICK k \in Int : Rounded(b) = Step * k
  BY RoundedBounds
<1>3. Rounded(b) < b + Step /\ Step * k \in Int /\ Step * m \in Int
  BY <1>1, <1>2, RoundedBounds
<1>4. Step * k < Step * m + Step
  BY <1>1, <1>2, <1>3
<1> QED BY <1>1, <1>2, <1>4, Multiples

------------------------------------------------------------------------------
(* The points of a model                                                   *)

\* The nodes of the tree: a chain of decisions and a bound, minus infinity at the root.
Nodes == [chain : Seq(Changes), bound : NegInf .. NoCutoff - 1]

\* The feasible points of the model searched.
Feasible == FeasiblePoints(prob)

\* A number without remainder is its quotient's multiple.
LEMMA Divides ==
  ASSUME NEW s \in Nat \ {0}, NEW a \in Nat, a % s = 0
  PROVE  a \div s \in Int /\ a = s * (a \div s)
<1> DEFINE q == a \div s
           r == a % s
<1>1. q \in Int /\ r \in 0 .. s - 1 /\ a = s * q + r
  OBVIOUS
<1>2. r = 0
  OBVIOUS
<1> HIDE DEF q, r
<1>3. s * q \in Int
  BY <1>1
<1>4. q \in Int /\ a = s * q
  BY <1>1, <1>2, <1>3
<1> QED BY <1>4 DEF q

\* A point of the relaxation is a position in half units, and below infinity.
LEMMA PointType ==
  ASSUME NEW P \in Problems, NEW v \in P
  PROVE  /\ v.at \in [Cols -> Nat] /\ v.cost \in Nat
         /\ v.cost \in 0 .. NoCutoff - 1 /\ v.cost + Step + Margin <= NoCutoff
         /\ \A j \in Cols : v.at[j] <= 2 * Top[j]
<1>1. /\ v \in [at : [Cols -> Nat], cost : Nat]
      /\ \A j \in Cols : v.at[j] <= 2 * Top[j]
      /\ v.cost + Step + Margin <= NoCutoff
      /\ Step \in Nat \ {0} /\ Margin \in Nat /\ NoCutoff \in Nat
  BY TreeAssumption
<1> QED BY <1>1

\* A feasible point is in the root's box, below infinity, a multiple of the step,
\* and a point of the relaxation.
LEMMA FeasibleType ==
  ASSUME NEW P \in Problems, NEW e \in FeasiblePoints(P)
  PROVE  /\ e \in Entries /\ e.x \in Spots /\ Inside(RootDomain, e.x)
         /\ e.obj \in 0 .. NoCutoff - 1 /\ e.obj + Step + Margin <= NoCutoff /\ e # NoInc
         /\ \E m \in Int : e.obj = Step * m
         /\ \E v \in P : /\ Fractional(v) = {} /\ e = AsEntry(v)
                         /\ e.obj = v.cost /\ \A j \in Cols : v.at[j] = 2 * e.x[j]
<1>1. PICK v \in P : Fractional(v) = {} /\ e = AsEntry(v)
  BY DEF FeasiblePoints
<1>2. /\ v.at \in [Cols -> Nat] /\ v.cost \in Nat
      /\ v.cost \in 0 .. NoCutoff - 1 /\ v.cost + Step + Margin <= NoCutoff
      /\ \A j \in Cols : v.at[j] <= 2 * Top[j]
  BY PointType
<1>3. e.obj = v.cost /\ e.x = [j \in Cols |-> v.at[j] \div 2]
  BY <1>1 DEF AsEntry, Position
<1>4. \A j \in Cols : v.at[j] % 2 = 0
  BY <1>1, <1>2 DEF Fractional
<1>5. \A j \in Cols : v.at[j] \div 2 \in Nat /\ v.at[j] = 2 * (v.at[j] \div 2)
  BY <1>2, <1>4
<1>6. e.x \in [Cols -> Nat] /\ \A j \in Cols : v.at[j] = 2 * e.x[j]
  BY <1>3, <1>5
<1>7. e \in Entries
  BY <1>1, <1>2, <1>3, <1>6 DEF AsEntry, Entries, Position
<1>8. Top \in [Cols -> Nat] /\ Step \in Nat \ {0} /\ Margin \in Nat /\ NoCutoff \in Nat
  BY TreeAssumption
<1>9. Inside(RootDomain, e.x)
  <2>1. \A j \in Cols : 0 <= e.x[j] /\ e.x[j] <= Top[j]
    BY <1>2, <1>6, <1>8
  <2> QED BY <2>1 DEF Inside, RootDomain, Domain
<1>10. e # NoInc
  BY <1>2, <1>3, <1>8 DEF NoInc, Inf
<1>11. \E m \in Int : e.obj = Step * m
  <2>1. v.cost % Step = 0
    BY <1>4, TreeAssumption
  <2>2. v.cost \div Step \in Int /\ v.cost = Step * (v.cost \div Step)
    BY <1>2, <1>8, <2>1, Divides
  <2> QED BY <1>3, <2>2
<1>12. e.x \in Spots
  BY <1>6 DEF Spots
<1> QED BY <1>1, <1>2, <1>3, <1>6, <1>7, <1>9, <1>10, <1>11, <1>12

\* The root's domain is a domain at rest, and every assignment meets its empty chain.
LEMMA RootType ==
  /\ RootDomain \in Doms /\ RootDomain.saved = <<>>
  /\ [RootDomain EXCEPT !.saved = <<>>] = RootDomain
  /\ Root \in Nodes /\ \A x : Meets(x, Root.chain)
<1>1. Top \in [Cols -> Nat] /\ NoCutoff \in Nat
  BY TreeAssumption
<1>2. <<>> \in Seq(Changes)
  BY EmptySeq
<1> QED BY <1>1, <1>2 DEF RootDomain, Domain, Doms, Root, Nodes, Meets, NegInf

\* Rounding a bound of a feasible point up to the step does not pass it.
LEMMA RoundedIsBound ==
  ASSUME NEW P \in Problems, NEW e \in FeasiblePoints(P), NEW b \in NegInf .. NoCutoff - 1, b <= e.obj
  PROVE  Rounded(b) <= e.obj
<1>1. /\ e.obj \in 0 .. NoCutoff - 1
      /\ \E m \in Int : e.obj = Step * m
  BY FeasibleType
<1>2. CASE b = NegInf
  BY <1>1, <1>2 DEF Rounded, NegInf
<1>3. CASE b # NegInf
  <2>1. b \in Nat
    BY <1>3, TreeAssumption DEF NegInf
  <2> QED BY <1>1, <2>1, RoundedBelow
<1> QED BY <1>2, <1>3

\* A rounded bound is a number, or minus infinity.
LEMMA RoundedType ==
  ASSUME NEW b \in NegInf .. NoCutoff - 1
  PROVE  Rounded(b) \in Int /\ Rounded(b) >= NegInf
<1>1. CASE b = NegInf
  BY <1>1 DEF Rounded, NegInf
<1>2. CASE b # NegInf
  <2>1. b \in Nat
    BY <1>2, TreeAssumption DEF NegInf
  <2> QED BY <2>1, RoundedBounds DEF NegInf
<1> QED BY <1>1, <1>2
------------------------------------------------------------------------------
(* The inductive invariant                                                 *)

\* The node's relaxation has answered and its point is in hand.
HasPoint == pc \in {"heuristics", "solved", "dive", "pump", "branch"}

\* What the variables hold.
TypeInv ==
  /\ prob \in Problems /\ opt \in Options
  /\ dom \in Doms /\ open \in Seq(Nodes) /\ cur \in Nodes
  /\ inc \in Feasible \cup {NoInc} /\ pool \in Seq(Feasible)
  /\ conflicts \in Seq(SUBSET Changes)
  /\ HasPoint => lp \in prob
  /\ pc = "dive" => probe \in prob
  /\ pc \in Pcs /\ ret \in {"limits", "report"}

\* Where the loop may be, and what it has decided when it is there.
ControlInv ==
  /\ pc # "done" => answer = NoAnswer
  /\ pc \in {"limits", "test"} => open # <<>>
  /\ pc = "saving" /\ ret = "limits" => open # <<>>
  /\ pc \notin {"after", "report", "done"} /\ ~(pc = "saving" /\ ret = "report") =>
       why = "none" /\ ~gapMet
  /\ pc \in {"after", "report"} \/ (pc = "saving" /\ ret = "report") =>
       /\ why = "none" => open = <<>> \/ gapMet
       /\ gapMet => /\ why = "none" /\ inc # NoInc /\ open # <<>>
                    /\ inc.obj - Rounded(OpenBound) <= GapSlack[inc.obj]

\* The stack undoes whatever is done to the box.
DomainInv == IF InNode THEN Leave(dom) = RootDomain ELSE dom = RootDomain

\* A node's bound is one: of every feasible assignment that meets its decisions.
IsBound(node, P) ==
  \A e \in FeasiblePoints(P) : Meets(e.x, node.chain) => node.bound <= e.obj

BoundInv == IsBound(cur, prob) /\ \A k \in DOMAIN open : IsBound(open[k], prob)

\* Propagation keeps every feasible assignment of the node in the box.
BoxInv ==
  pc \in {"entered", "lp", "heuristics", "solved"} =>
    \A e \in Feasible : Meets(e.x, cur.chain) => Inside(dom, e.x)

PointInv ==
  /\ pc \in {"heuristics", "solved"} => lp \in Reachable(prob, dom)
  /\ HasPoint => \A e \in Feasible : Meets(e.x, cur.chain) => lp.cost <= e.obj

\* No member of the pool is better than the incumbent.
PoolInv == \A k \in DOMAIN pool : inc # NoInc /\ inc.obj <= pool[k].obj

\* No feasible assignment satisfies all decisions of a learned conflict.
NoConflictMet(P) ==
  \A k \in DOMAIN conflicts, e \in FeasiblePoints(P) : \E c \in conflicts[k] : ~Satisfies(e.x, c)

\* What the file holds.
DiskInv ==
  disk # NoFile =>
    /\ disk.prob \in Problems /\ disk.open \in Seq(Nodes)
    /\ disk.inc \in FeasiblePoints(disk.prob) \cup {NoInc}
    /\ \A k \in DOMAIN disk.open : IsBound(disk.open[k], disk.prob)

\* What NothingLost says of an assignment, the open nodes and the one taken apart.
Kept(e) ==
  \/ Covers(open, e)
  \/ InNode /\ Meets(e.x, cur.chain)
  \/ inc # NoInc /\ e.obj >= inc.obj - Margin

\* Nothing is lost while the search lives.
KeptInv == Live => \A e \in Feasible : Kept(e)

\* The inductive invariant.
IInv ==
  /\ TypeInv /\ ControlInv /\ DomainInv /\ BoundInv /\ BoxInv /\ PointInv /\ PoolInv
  /\ NoConflictMet(prob) /\ KeptInv /\ DiskInv /\ CheckpointWhole /\ SoundAnswer

------------------------------------------------------------------------------
(* Pruning, picking a node, offering a point                               *)

\* The smaller of two numbers.
LEMMA MinOfTwo ==
  ASSUME NEW a \in Int, NEW b \in Int
  PROVE  /\ Min({a, b}) \in Int /\ Min({a, b}) <= a /\ Min({a, b}) <= b
         /\ Min({a, b}) = a \/ Min({a, b}) = b
<1> DEFINE low == IF a <= b THEN a ELSE b
           s == {a, b}
<1>1. low \in Int /\ s \subseteq Int /\ s # {} /\ \A k \in s : low <= k
  OBVIOUS
<1> HIDE DEF low
<1>2. a \in s /\ b \in s /\ \A k \in s : k = a \/ k = b
  OBVIOUS
<1> HIDE DEF s
<1>3. Min(s) \in s /\ \A y \in s : Min(s) <= y
  BY <1>1, MinIn
<1> QED BY <1>1, <1>2, <1>3 DEF s

\* What is pruned is no better, to within the absolute gap, than the incumbent, and
\* without one nothing is.
LEMMA PruneLoses ==
  ASSUME TypeInv, PoolInv, NEW b \in NegInf .. NoCutoff - 1, CanPrune(b),
         NEW e \in Feasible, b <= e.obj
  PROVE  inc # NoInc /\ e.obj >= inc.obj - Margin
<1>1. prob \in Problems /\ inc \in Feasible \cup {NoInc} /\ pool \in Seq(Feasible)
  BY DEF TypeInv
<1>2. /\ NoCutoff \in Nat /\ Margin \in Nat /\ PoolSlack \in [0 .. NoCutoff -> Nat]
      /\ Step \in Nat \ {0} /\ PoolSize \in Nat
  BY TreeAssumption
<1>3. /\ e.obj \in 0 .. NoCutoff - 1 /\ Rounded(b) <= e.obj
      /\ e.obj + Step + Margin <= NoCutoff /\ Rounded(b) \in Int
  BY <1>1, FeasibleType, RoundedIsBound, RoundedType DEF Feasible
<1>4. inc # NoInc => inc.obj \in 0 .. NoCutoff - 1
  BY <1>1, FeasibleType DEF Feasible
<1>5. CASE ~opt.complete
  BY <1>2, <1>3, <1>4, <1>5 DEF CanPrune
<1>6. CASE opt.complete
  <2> DEFINE full == Cutoff(pool, PoolSize, opt.diversity)
  <2>1. Rounded(b) >= PoolCutoff - Margin
    BY <1>6 DEF CanPrune
  <2>2. Len(pool) \in Nat /\ DOMAIN pool = 1 .. Len(pool)
    BY <1>1, LenProperties
  <2>3. CASE inc = NoInc
    <3>1. 1 \notin DOMAIN pool
      BY <2>3 DEF PoolInv
    <3>2. Len(pool) = 0
      BY <2>2, <3>1
    <3>3. full = NoCutoff
      BY <1>2, <3>2 DEF Cutoff
    <3>4. PoolCutoff = NoCutoff
      BY <2>3, <3>3 DEF PoolCutoff
    <3> QED BY <1>2, <1>3, <2>1, <3>4
  <2>4. CASE inc # NoInc
    <3>1. inc.obj \in 0 .. NoCutoff /\ PoolSlack[inc.obj] \in Nat
      BY <1>2, <1>4, <2>4
    <3>2. full \in Int /\ full >= inc.obj
      <4>1. CASE opt.diversity \/ PoolSize = 0 \/ Len(pool) < PoolSize
        BY <1>2, <3>1, <4>1 DEF Cutoff
      <4>2. CASE ~(opt.diversity \/ PoolSize = 0 \/ Len(pool) < PoolSize)
        <5>1. Len(pool) \in 1 .. Len(pool)
          BY <1>2, <2>2, <4>2
        <5>2. pool[Len(pool)] \in Feasible /\ inc.obj <= pool[Len(pool)].obj
          BY <1>1, <2>2, <5>1, ElementOfSeq DEF PoolInv
        <5>3. pool[Len(pool)].obj \in Int
          BY <1>1, <5>2, FeasibleType DEF Feasible
        <5> QED BY <3>1, <4>2, <5>2, <5>3 DEF Cutoff, Last
      <4> QED BY <4>1, <4>2
    <3> DEFINE limit == inc.obj + PoolSlack[inc.obj]
    <3>3. limit \in Int /\ limit >= inc.obj
      BY <3>1
    <3>4. PoolCutoff = Min({full, limit})
      BY <2>4 DEF PoolCutoff
    <3> HIDE DEF full, limit
    <3>5. PoolCutoff = full \/ PoolCutoff = limit
      BY <3>2, <3>3, <3>4, MinOfTwo
    <3>6. PoolCutoff \in Int /\ PoolCutoff >= inc.obj
      BY <3>2, <3>3, <3>5
    <3> QED BY <1>2, <1>3, <2>1, <2>4, <3>1, <3>6
  <2> QED BY <2>3, <2>4
<1> QED BY <1>5, <1>6

\* The smallest bound of an open node.
LEMMA OpenBoundIn ==
  ASSUME open \in Seq(Nodes), open # <<>>
  PROVE  /\ OpenBound \in NegInf .. NoCutoff - 1
         /\ \E k \in DOMAIN open : open[k].bound = OpenBound
         /\ \A k \in DOMAIN open : OpenBound <= open[k].bound
         /\ Len(open) \in Nat /\ Len(open) >= 1 /\ DOMAIN open = 1 .. Len(open)
<1> DEFINE bounds == {open[k].bound : k \in DOMAIN open}
<1>1. Len(open) \in Nat /\ Len(open) >= 1 /\ DOMAIN open = 1 .. Len(open)
  BY EmptySeq, LenProperties
<1>2. \A k \in DOMAIN open : open[k].bound \in NegInf .. NoCutoff - 1
  <2>1. \A k \in DOMAIN open : open[k] \in Nodes
    BY <1>1, ElementOfSeq
  <2> QED BY <2>1 DEF Nodes
<1>3. bounds \subseteq NegInf .. NoCutoff - 1 /\ bounds # {}
  BY <1>1, <1>2
<1>4. \A b : b \in bounds <=> \E k \in DOMAIN open : b = open[k].bound
  OBVIOUS
<1> HIDE DEF bounds
<1>5. NegInf \in Int /\ NoCutoff \in Nat
  BY TreeAssumption DEF NegInf
<1>6. bounds \subseteq Int /\ \A b \in bounds : NegInf <= b
  BY <1>3, <1>5
<1>7. Min(bounds) \in bounds /\ \A b \in bounds : Min(bounds) <= b
  BY <1>3, <1>5, <1>6, MinIn
<1>8. OpenBound = Min(bounds)
  BY DEF OpenBound, bounds
<1> QED BY <1>1, <1>3, <1>4, <1>7, <1>8

\* Every node selection takes an open node.
LEMMA PicksOpen ==
  ASSUME open \in Seq(Nodes), open # <<>>
  PROVE  Picks \subseteq 1 .. Len(open)
<1>1. /\ \E k \in DOMAIN open : open[k].bound = OpenBound
      /\ Len(open) \in Nat /\ Len(open) >= 1 /\ DOMAIN open = 1 .. Len(open)
  BY OpenBoundIn
<1> DEFINE least == {k \in DOMAIN open : open[k].bound = OpenBound}
<1>2. 0 \in Int /\ least # {} /\ least \subseteq Int /\ \A k \in least : 0 <= k
  BY <1>1
<1>3. least \subseteq 1 .. Len(open)
  BY <1>1
<1> HIDE DEF least
<1>4. Min(least) \in least
  BY <1>2, MinIn
<1>5. Min(least) \in 1 .. Len(open)
  BY <1>3, <1>4
<1>6. Len(open) \in 1 .. Len(open)
  BY <1>1
<1> QED BY <1>1, <1>5, <1>6 DEF Picks, least

\* An offered point is at least matched by the incumbent, and the pool stays no
\* better than it.
LEMMA OfferKeeps ==
  ASSUME TypeInv, PoolInv, NEW e \in Feasible, OfferIncumbent(e), prob' = prob
  PROVE  /\ inc' \in Feasible /\ inc' # NoInc /\ inc'.obj <= e.obj
         /\ inc # NoInc => inc'.obj <= inc.obj
         /\ pool' \in Seq(Feasible) /\ PoolInv'
<1>1. prob \in Problems /\ inc \in Feasible \cup {NoInc} /\ pool \in Seq(Feasible)
  BY DEF TypeInv
<1>2. \A f \in Feasible : f \in Entries /\ f.obj \in Int /\ f # NoInc
  BY <1>1, FeasibleType DEF Feasible
<1>3. /\ inc' \in Feasible /\ inc' # NoInc /\ inc'.obj <= e.obj
      /\ inc # NoInc => inc'.obj <= inc.obj
  <2>1. CASE inc = NoInc \/ e.obj < inc.obj
    BY <1>1, <1>2, <2>1 DEF OfferIncumbent
  <2>2. CASE ~(inc = NoInc \/ e.obj < inc.obj)
    BY <1>1, <1>2, <2>2 DEF OfferIncumbent
  <2> QED BY <2>1, <2>2
<1> DEFINE best == inc'
           S == {f \in Feasible : best.obj <= f.obj}
<1>4. S \subseteq Feasible /\ S \subseteq Entries /\ e \in S
  BY <1>2, <1>3
<1>5. pool \in Seq(S)
  <2>1. Len(pool) \in Nat /\ DOMAIN pool = 1 .. Len(pool) /\ pool \in [1 .. Len(pool) -> Feasible]
    BY <1>1, LenProperties
  <2>2. \A k \in 1 .. Len(pool) : best.obj <= pool[k].obj
    BY <1>1, <1>2, <1>3, <2>1 DEF PoolInv
  <2>3. \A k \in 1 .. Len(pool) : pool[k] \in S
    BY <2>1, <2>2
  <2> HIDE DEF S
  <2>4. pool \in [1 .. Len(pool) -> S]
    BY <2>1, <2>3
  <2> QED BY <2>1, <2>4
<1>6. PoolSize \in Nat
  BY TreeAssumption
<1>7. \A f \in S : best.obj <= f.obj
  OBVIOUS
<1> HIDE DEF S
<1>8. Offer(pool, e, PoolSize, opt.diversity) \in Seq(S)
  BY <1>4, <1>5, <1>6, OfferType
<1>9. pool' \in Seq(S)
  BY <1>8 DEF OfferIncumbent
<1>10. \A k \in DOMAIN pool' : pool'[k] \in S
  BY <1>9, LenProperties, ElementOfSeq
<1>11. PoolInv'
  BY <1>3, <1>7, <1>10 DEF PoolInv
<1>12. pool' \in Seq(Feasible)
  BY <1>4, <1>9, SeqMonotonic
<1> QED BY <1>3, <1>11, <1>12
------------------------------------------------------------------------------
(* Propagation, learning and strong branching                              *)

\* The columns are numbered from 1, so a function of them is a sequence.
LEMMA ColsSequence ==
  ASSUME NEW S, NEW f \in [Cols -> S]
  PROVE  f \in Seq(S) /\ Len(f) \in Nat /\ Cols = 1 .. Len(f)
<1> DEFINE n == Cardinality(Cols)
<1>1. n \in Nat /\ Cols = 1 .. n
  BY ColsAssumption, FS_CardinalityType
<1> HIDE DEF n
<1>2. f \in [1 .. n -> S]
  BY <1>1
<1> QED BY <1>1, <1>2

\* The hull of the assignments in the box keeps each of them, and can be undone.
LEMMA HullKeeps ==
  ASSUME TypeInv, NEW d \in Doms, Inner(d) # {}
  PROVE  /\ TightenToHull(d) \in Doms /\ Leave(TightenToHull(d)) = Leave(d)
         /\ \A e \in Inner(d) : Inside(TightenToHull(d), e.x)
<1> DEFINE xs == {e.x : e \in Inner(d)}
           low(j) == Min({x[j] : x \in xs})
           high(j) == Max({x[j] : x \in xs})
           lower == [j \in Cols |-> Change(j, FALSE, low(j))]
           upper == [j \in Cols |-> Change(j, TRUE, high(j))]
<1>1. \A e \in Inner(d) : e.x \in Spots /\ Inside(d, e.x) /\ Inside(RootDomain, e.x)
  BY FeasibleType DEF Inner, TypeInv
<1>2. xs # {} /\ \A x \in xs : x \in Spots /\ Inside(d, x) /\ Inside(RootDomain, x)
  BY <1>1
<1>3. \A x : x \in xs <=> \E e \in Inner(d) : x = e.x
  OBVIOUS
<1> HIDE DEF xs
<1>4. ASSUME NEW j \in Cols
      PROVE  low(j) \in Int /\ high(j) \in Int /\ \A x \in xs : low(j) <= x[j] /\ x[j] <= high(j)
  <2> DEFINE vals == {x[j] : x \in xs}
  <2>1. Top[j] \in Int /\ 0 \in Int
    BY TreeAssumption
  <2>2. \A x \in xs : x[j] \in Int /\ 0 <= x[j] /\ x[j] <= Top[j]
    BY <1>2 DEF Spots, Inside, RootDomain, Domain
  <2>3. vals # {} /\ vals \subseteq Int /\ (\A v \in vals : 0 <= v) /\ (\A v \in vals : v <= Top[j])
    BY <1>2, <2>2
  <2>4. \A x \in xs : x[j] \in vals
    OBVIOUS
  <2> HIDE DEF vals
  <2>5. Min(vals) \in vals /\ \A v \in vals : Min(vals) <= v
    BY <2>1, <2>3, MinIn
  <2>6. Max(vals) \in vals /\ \A v \in vals : v <= Max(vals)
    BY <2>1, <2>3, MaxBelow
  <2>7. low(j) = Min(vals) /\ high(j) = Max(vals)
    BY DEF vals
  <2> HIDE DEF low, high
  <2> QED BY <2>3, <2>4, <2>5, <2>6, <2>7
<1> HIDE DEF low, high
<1>5. /\ \A j \in Cols : Change(j, FALSE, low(j)) \in Changes
      /\ \A j \in Cols : Change(j, TRUE, high(j)) \in Changes
  BY <1>4 DEF Change, Changes
<1>6. lower \in [Cols -> Changes] /\ upper \in [Cols -> Changes]
  BY <1>5
<1>7. /\ lower \in Seq(Changes) /\ Cols = 1 .. Len(lower)
      /\ upper \in Seq(Changes) /\ Cols = 1 .. Len(upper)
      /\ \A j \in Cols : lower[j] = Change(j, FALSE, low(j)) /\ upper[j] = Change(j, TRUE, high(j))
  BY <1>6, ColsSequence
<1>8. TightenToHull(d) = TightenAll(TightenAll(d, lower), upper)
  BY DEF TightenToHull, xs, low, high
<1> HIDE DEF lower, upper
<1>9. /\ TightenAll(d, lower) \in Doms /\ Leave(TightenAll(d, lower)) = Leave(d)
      /\ TightenAll(TightenAll(d, lower), upper) \in Doms
      /\ Leave(TightenAll(TightenAll(d, lower), upper)) = Leave(TightenAll(d, lower))
  BY <1>7, TightenAllKeeps
<1>10. ASSUME NEW x \in xs PROVE Inside(TightenAll(TightenAll(d, lower), upper), x)
  <2>1. x \in Spots /\ Inside(d, x)
    BY <1>2
  <2>2. \A j \in Cols : Satisfies(x, lower[j]) /\ Satisfies(x, upper[j])
    <3>1. ASSUME NEW j \in Cols
          PROVE  Satisfies(x, Change(j, FALSE, low(j))) /\ Satisfies(x, Change(j, TRUE, high(j)))
      BY <1>4 DEF Satisfies, Change
    <3> QED BY <1>7, <3>1
  <2>3. Inside(TightenAll(d, lower), x)
    BY <1>7, <2>1, <2>2, TightenAllInside
  <2> QED BY <1>7, <1>9, <2>1, <2>2, <2>3, TightenAllInside
<1> QED BY <1>3, <1>8, <1>9, <1>10

\* Propagation can be undone and keeps every feasible assignment in the box.
LEMMA PropagatedKeeps ==
  ASSUME TypeInv, NoConflictMet(prob), NEW d \in Doms
  PROVE  /\ Propagated(d).dom \in Doms /\ Leave(Propagated(d).dom) = Leave(d)
         /\ \A e \in Feasible : Inside(d, e.x) =>
              Propagated(d).dead = "no" /\ Inside(Propagated(d).dom, e.x)
<1>1. conflicts \in Seq(SUBSET Changes) /\ prob \in Problems
  BY DEF TypeInv
<1>2. (IF IsEmpty(d) THEN "bound" ELSE "no") \in {"no", "bound", "conflict"}
  OBVIOUS
<1>3. Propagated(d) \in Visits /\ Leave(Propagated(d).dom) = Leave(d)
  BY <1>1, <1>2, PropagateKeeps DEF Propagated
<1>4. ASSUME NEW e \in Feasible, Inside(d, e.x)
      PROVE  Propagated(d).dead = "no" /\ Inside(Propagated(d).dom, e.x)
  <2>1. e.x \in Spots
    BY <1>1, FeasibleType DEF Feasible
  <2>2. ~IsEmpty(d)
    BY <1>4, <2>1 DEF IsEmpty, Inside, Doms, Spots
  <2>3. Propagated(d) = PropagateConflicts(d, conflicts, "no")
    BY <2>2 DEF Propagated
  <2>4. \A k \in 1 .. Len(conflicts) : \E c \in conflicts[k] : ~Satisfies(e.x, c)
    BY <1>1, LenProperties DEF NoConflictMet, Feasible
  <2> QED BY <1>1, <1>4, <2>1, <2>3, <2>4, PropagateInside
<1> QED BY <1>3, <1>4 DEF Visits

\* What verify() proves from the root's box holds of every feasible assignment.
LEMMA ProvedHolds ==
  ASSUME TypeInv, NoConflictMet(prob), dom = RootDomain,
         NEW chain \in Seq(Changes), NEW S \in SUBSET Canonical(chain), Proved(S)
  PROVE  S \in SUBSET Changes /\ \A e \in Feasible : \E c \in S : ~Satisfies(e.x, c)
<1>1. S \subseteq ToSet(chain)
  BY DEF Canonical
<1>2. S \subseteq Changes /\ IsFiniteSet(S)
  BY <1>1, MembersFinite, FS_Subset
<1> DEFINE seq == SetToSeq(S)
<1>3. seq \in Seq(S)
  BY <1>2, SetToSeqType
<1>4. TightenAll(dom, SetToSeq(S)) = TightenAll(dom, seq)
  OBVIOUS
<1> HIDE DEF seq
<1>5. seq \in Seq(Changes) /\ Len(seq) \in Nat /\ \A k \in 1 .. Len(seq) : seq[k] \in S
  BY <1>2, <1>3, SeqMonotonic, LenProperties, ElementOfSeq
<1>6. dom \in Doms
  BY RootType
<1>7. TightenAll(dom, seq) \in Doms
  BY <1>5, <1>6, TightenAllKeeps
<1> DEFINE after == Propagated(TightenAll(dom, seq))
<1>8. after.dead # "no" \/ Inner(after.dom) = {}
  BY <1>4 DEF Proved
<1>9. ASSUME NEW e \in Feasible, \A c \in S : Satisfies(e.x, c) PROVE FALSE
  <2>1. e.x \in Spots /\ Inside(dom, e.x)
    BY FeasibleType DEF Feasible, TypeInv
  <2>2. Inside(TightenAll(dom, seq), e.x)
    BY <1>5, <1>6, <1>9, <2>1, TightenAllInside
  <2>3. after.dead = "no" /\ Inside(after.dom, e.x)
    BY <1>7, <2>2, PropagatedKeeps
  <2> HIDE DEF after
  <2>4. e \in Inner(after.dom)
    BY <2>3 DEF Inner, Feasible
  <2> QED BY <1>8, <2>3, <2>4
<1> QED BY <1>2, <1>9

\* A conflict that holds of no feasible assignment may be added to the store.
LEMMA AddedHolds ==
  ASSUME TypeInv, NoConflictMet(prob), NEW S \in SUBSET Changes,
         \A e \in Feasible : \E c \in S : ~Satisfies(e.x, c),
         conflicts' \in Added(S), prob' = prob
  PROVE  conflicts' \in Seq(SUBSET Changes) /\ NoConflictMet(prob)'
<1> DEFINE Good == {T \in SUBSET Changes : \A e \in Feasible : \E c \in T : ~Satisfies(e.x, c)}
<1>1. S \in Good /\ Good \subseteq SUBSET Changes
  OBVIOUS
<1>2. conflicts \in Seq(Good)
  <2>1. /\ conflicts \in [1 .. Len(conflicts) -> SUBSET Changes]
        /\ Len(conflicts) \in Nat /\ DOMAIN conflicts = 1 .. Len(conflicts)
    BY LenProperties DEF TypeInv
  <2>2. \A k \in 1 .. Len(conflicts) : conflicts[k] \in Good
    BY <2>1 DEF NoConflictMet, Feasible
  <2> HIDE DEF Good
  <2>3. conflicts \in [1 .. Len(conflicts) -> Good]
    BY <2>1, <2>2
  <2> QED BY <2>1, <2>3
<1>3. \A T \in Good : \A e \in FeasiblePoints(prob) : \E c \in T : ~Satisfies(e.x, c)
  BY DEF Feasible
<1> HIDE DEF Good
<1>4. conflicts' \in Seq(Good)
  <2>1. CASE conflicts' = conflicts
    BY <1>2, <2>1
  <2>2. CASE conflicts' = Append(conflicts, S)
    BY <1>1, <1>2, <2>2, AppendProperties
  <2>3. ASSUME NEW k \in DOMAIN conflicts, conflicts' = Append(RemoveAt(conflicts, k), S)
        PROVE  conflicts' \in Seq(Good)
    <3>1. k \in 1 .. Len(conflicts)
      BY <1>2, LenProperties
    <3>2. RemoveAt(conflicts, k) \in Seq(Good)
      BY <1>2, <3>1, RemoveAtMembers
    <3> QED BY <1>1, <2>3, <3>2, AppendProperties
  <2> QED BY <2>1, <2>2, <2>3 DEF Added
<1>5. \A k \in DOMAIN conflicts' : conflicts'[k] \in Good
  BY <1>4, LenProperties, ElementOfSeq
<1>6. \A k \in DOMAIN conflicts', e \in FeasiblePoints(prob) :
        \E c \in conflicts'[k] : ~Satisfies(e.x, c)
  BY <1>3, <1>5
<1>7. NoConflictMet(prob)'
  BY <1>6 DEF NoConflictMet
<1> QED BY <1>1, <1>4, <1>7, SeqMonotonic

\* The two branches on a fractional column.
LEMMA BranchType ==
  ASSUME TypeInv, lp \in prob, NEW j \in Fractional(lp)
  PROVE  /\ j \in Cols /\ Down(j) \in Changes /\ Up(j) \in Changes
         /\ \A x \in Spots : Satisfies(x, Down(j)) \/ Satisfies(x, Up(j))
<1>1. j \in Cols
  BY DEF Fractional
<1>2. lp.at[j] \in Nat
  BY <1>1, PointType DEF TypeInv
<1>3. lp.at[j] \div 2 \in Int
  BY <1>2
<1>4. Down(j) \in Changes /\ Up(j) \in Changes
  BY <1>1, <1>3 DEF Down, Up, Change, Changes
<1>5. ASSUME NEW x \in Spots PROVE Satisfies(x, Down(j)) \/ Satisfies(x, Up(j))
  <2>1. x[j] \in Int
    BY <1>1 DEF Spots
  <2> QED BY <1>3, <2>1 DEF Satisfies, Down, Up, Change
<1> QED BY <1>1, <1>4, <1>5

\* Strong branching leaves the box and its stack as it found them.
LEMMA StrongBranchUndone ==
  ASSUME TypeInv, lp \in prob, NEW j \in Fractional(lp)
  PROVE  StrongBranch(dom, j) = dom
<1>1. Down(j) \in Changes /\ Up(j) \in Changes /\ dom \in Doms
  BY BranchType DEF TypeInv
<1>2. Undo(Tighten(dom, Down(j)), Len(dom.saved)) = dom
  BY <1>1, UndoTighten
<1>3. Undo(Tighten(dom, Up(j)), Len(dom.saved)) = dom
  BY <1>1, UndoTighten
<1> QED BY <1>2, <1>3 DEF StrongBranch
------------------------------------------------------------------------------
(* The start, the head of the loop, the clock                              *)

\* The invariant holds at the start.
LEMMA InitKeeps == Init => IInv
<1> SUFFICES ASSUME Init PROVE IInv
  OBVIOUS
<1> USE DEF Init
<1>1. TypeInv
  <2>1. <<Root>> \in Seq(Nodes) /\ <<>> \in Seq(Feasible) /\ <<>> \in Seq(SUBSET Changes)
    BY RootType, OneAndTwo, EmptySeq
  <2> QED BY <2>1, RootType DEF TypeInv, HasPoint, Pcs
<1>2. ControlInv /\ DomainInv /\ PoolInv /\ NoConflictMet(prob)
  BY DEF ControlInv, DomainInv, InNode, PoolInv, NoConflictMet
<1>3. ASSUME NEW e \in FeasiblePoints(prob) PROVE NegInf <= e.obj /\ Meets(e.x, Root.chain)
  BY FeasibleType, RootType DEF NegInf
<1>4. BoundInv
  BY <1>3, OneAndTwo DEF BoundInv, IsBound, Root
<1>5. BoxInv /\ PointInv /\ DiskInv /\ CheckpointWhole /\ SoundAnswer
  BY DEF BoxInv, PointInv, HasPoint, DiskInv, CheckpointWhole, SoundAnswer
<1>6. KeptInv
  BY <1>3 DEF KeptInv, Kept, Covers, Feasible
<1> QED BY <1>1, <1>2, <1>4, <1>5, <1>6 DEF IInv

\* What the head of the loop, the clock and the saving of a file leave alone.
memory == <<prob, opt, dom, open, cur, lp, probe, inc, pool, conflicts, answer>>

HeadPcs == {"top", "saving", "limits", "test", "after", "report"}

\* A step that only moves on, or writes the file, keeps the invariant.
LEMMA MemoryKeeps ==
  ASSUME IInv, UNCHANGED memory, ControlInv', ret' \in {"limits", "report"},
         pc' = pc \/ (pc \in HeadPcs /\ pc' \in HeadPcs), DiskInv', CheckpointWhole'
  PROVE  IInv'
<1> USE DEF memory
<1>1. /\ InNode' = InNode /\ HasPoint' = HasPoint /\ (pc' = "dive") = (pc = "dive")
      /\ (pc' \in {"entered", "lp", "heuristics", "solved"}) = (pc \in {"entered", "lp", "heuristics", "solved"})
      /\ (pc' \in {"heuristics", "solved"}) = (pc \in {"heuristics", "solved"})
      /\ (pc' = "done") = (pc = "done") /\ (pc' \in Pcs) = (pc \in Pcs)
      /\ (pc' \in {"dead", "refused"}) = (pc \in {"dead", "refused"})
  BY DEF InNode, HasPoint, HeadPcs, Pcs
<1>2. TypeInv'
  BY <1>1 DEF IInv, TypeInv, Feasible
<1>3. DomainInv' /\ BoundInv' /\ PoolInv' /\ NoConflictMet(prob)'
  BY <1>1 DEF IInv, DomainInv, BoundInv, PoolInv, NoConflictMet
<1>4. BoxInv' /\ PointInv'
  BY <1>1 DEF IInv, BoxInv, PointInv, Feasible
<1>5. KeptInv'
  BY <1>1 DEF IInv, KeptInv, Kept, Live, Feasible
<1>6. SoundAnswer'
  BY <1>1 DEF IInv, SoundAnswer
<1> QED BY <1>2, <1>3, <1>4, <1>5, <1>6 DEF IInv

quiet == <<memory, disk>>

\* A step that only moves on keeps it.
LEMMA QuietKeeps ==
  ASSUME IInv, UNCHANGED quiet, ControlInv', ret' \in {"limits", "report"},
         pc' = pc \/ (pc \in HeadPcs /\ pc' \in HeadPcs)
  PROVE  IInv'
<1>1. UNCHANGED memory /\ UNCHANGED disk
  BY DEF quiet
<1>2. DiskInv' /\ CheckpointWhole'
  BY <1>1 DEF IInv, DiskInv, CheckpointWhole
<1> QED BY <1>1, <1>2, MemoryKeeps

\* The head of the loop, up to the limits.
LEMMA HeadKeeps ==
  ASSUME IInv, HeadClosed \/ HeadCheckpoint \/ HeadOn \/ LimitReached \/ LimitsClear
  PROVE  IInv'
<1> USE DEF Goto, searchVars
<1>1. CASE HeadClosed
  <2>1. ControlInv'
    BY <1>1 DEF HeadClosed, IInv, ControlInv
  <2> QED BY <1>1, <2>1, QuietKeeps DEF HeadClosed, quiet, memory, HeadPcs, IInv, TypeInv
<1>2. CASE HeadCheckpoint
  <2>1. ControlInv'
    BY <1>2 DEF HeadCheckpoint, IInv, ControlInv
  <2> QED BY <1>2, <2>1, QuietKeeps DEF HeadCheckpoint, quiet, memory, HeadPcs
<1>3. CASE HeadOn
  <2>1. ControlInv'
    BY <1>3 DEF HeadOn, IInv, ControlInv
  <2> QED BY <1>3, <2>1, QuietKeeps DEF HeadOn, quiet, memory, HeadPcs, IInv, TypeInv
<1>4. CASE LimitReached
  <2>1. ControlInv'
    BY <1>4 DEF LimitReached, StopAt, IInv, ControlInv
  <2> QED BY <1>4, <2>1, QuietKeeps DEF LimitReached, StopAt, quiet, memory, HeadPcs, IInv, TypeInv
<1>5. CASE LimitsClear
  <2>1. ControlInv'
    BY <1>5 DEF LimitsClear, StopAt, IInv, ControlInv
  <2> QED BY <1>5, <2>1, QuietKeeps DEF LimitsClear, StopAt, quiet, memory, HeadPcs, IInv, TypeInv
<1> QED BY <1>1, <1>2, <1>3, <1>4, <1>5

\* The ways out of the loop, and a file that could not be written.
LEMMA StopKeeps ==
  ASSUME IInv, Stopped \/ GapReached \/ AfterLoop \/ SaveFails
  PROVE  IInv'
<1> USE DEF Goto, searchVars
<1>1. CASE Stopped
  <2>1. ControlInv'
    BY <1>1 DEF Stopped, StopAt, IInv, ControlInv
  <2> QED BY <1>1, <2>1, QuietKeeps DEF Stopped, StopAt, quiet, memory, HeadPcs, IInv, TypeInv
<1>2. CASE GapReached
  <2>1. OpenBound' = OpenBound /\ Rounded(OpenBound)' = Rounded(OpenBound)
    BY <1>2 DEF GapReached, OpenBound, Rounded
  <2>2. ControlInv'
    BY <1>2, <2>1 DEF GapReached, GapTargetMet, IInv, ControlInv
  <2> QED BY <1>2, <2>2, QuietKeeps DEF GapReached, quiet, memory, HeadPcs, IInv, TypeInv
<1>3. CASE AfterLoop
  <2>1. OpenBound' = OpenBound /\ Rounded(OpenBound)' = Rounded(OpenBound)
    BY <1>3 DEF AfterLoop, OpenBound, Rounded
  <2>2. ControlInv'
    BY <1>3, <2>1 DEF AfterLoop, IInv, ControlInv
  <2> QED BY <1>3, <2>2, QuietKeeps DEF AfterLoop, quiet, memory, HeadPcs, IInv, TypeInv
<1>4. CASE SaveFails
  <2>1. OpenBound' = OpenBound /\ Rounded(OpenBound)' = Rounded(OpenBound)
    BY <1>4 DEF SaveFails, OpenBound, Rounded
  <2>2. ControlInv'
    BY <1>4, <2>1 DEF SaveFails, IInv, ControlInv, TypeInv
  <2> QED BY <1>4, <2>2, QuietKeeps DEF SaveFails, quiet, memory, HeadPcs, IInv, TypeInv
<1> QED BY <1>1, <1>2, <1>3, <1>4

\* The clock, the interrupt and standing still.
LEMMA ClockKeeps ==
  ASSUME IInv, Tick \/ Interrupt \/ UNCHANGED vars
  PROVE  IInv'
<1>1. UNCHANGED quiet /\ UNCHANGED <<why, gapMet, pc, ret>>
  BY DEF Tick, Interrupt, vars, searchVars, quiet, memory
<1>2. OpenBound' = OpenBound /\ Rounded(OpenBound)' = Rounded(OpenBound)
  BY <1>1 DEF OpenBound, Rounded, quiet, memory
<1>3. ControlInv'
  BY <1>1, <1>2 DEF IInv, ControlInv, quiet, memory
<1>4. pc' = pc /\ ret' \in {"limits", "report"}
  BY <1>1 DEF IInv, TypeInv
<1>5. UNCHANGED quiet
  BY <1>1
<1> QED BY <1>3, <1>4, <1>5, QuietKeeps
------------------------------------------------------------------------------
(* A node from its entry to its leaving                                    *)

\* What is true of the file stays true while nobody writes it.
LEMMA DiskSame ==
  ASSUME IInv, UNCHANGED disk, pc' # "done"
  PROVE  DiskInv' /\ CheckpointWhole' /\ SoundAnswer'
BY DEF IInv, DiskInv, CheckpointWhole, SoundAnswer

\* A step inside the node: the box it leaves can still be undone, and the incumbent
\* gets no worse.
LEMMA StayKeeps ==
  ASSUME IInv, InNode, InNode',
         UNCHANGED <<prob, opt, conflicts, disk, answer, ret, open, cur, why, gapMet>>,
         dom' \in Doms, Leave(dom') = RootDomain,
         inc' \in Feasible \cup {NoInc}, pool' \in Seq(Feasible), PoolInv',
         inc # NoInc => inc' # NoInc /\ inc'.obj <= inc.obj,
         BoxInv', PointInv', HasPoint' => lp' \in prob, pc' = "dive" => probe' \in prob
  PROVE  IInv'
<1>1. TypeInv'
  BY DEF IInv, TypeInv, InNode, Pcs, Feasible
<1>2. ControlInv'
  BY DEF IInv, ControlInv, InNode
<1>3. DomainInv' /\ BoundInv' /\ NoConflictMet(prob)'
  BY DEF IInv, DomainInv, BoundInv, NoConflictMet
<1>4. KeptInv'
  <2>1. SUFFICES ASSUME NEW e \in Feasible PROVE Kept(e)'
    BY DEF KeptInv, Feasible
  <2>2. Kept(e)
    BY DEF IInv, KeptInv, Live, InNode, ControlInv, NoAnswer
  <2>3. CASE Covers(open, e) \/ Meets(e.x, cur.chain)
    BY <2>3 DEF Kept
  <2>4. CASE inc # NoInc /\ e.obj >= inc.obj - Margin
    <3>1. e.obj \in Int /\ inc.obj \in Int /\ inc'.obj \in Int /\ Margin \in Int
      <4>1. \A f \in Feasible : f.obj \in Int
        BY FeasibleType DEF IInv, TypeInv, Feasible
      <4>2. inc \in Feasible /\ inc' \in Feasible
        BY <2>4 DEF IInv, TypeInv
      <4> QED BY <4>1, <4>2, TreeAssumption
    <3> QED BY <2>4, <3>1 DEF Kept
  <2> QED BY <2>2, <2>3, <2>4 DEF Kept
<1>5. DiskInv' /\ CheckpointWhole' /\ SoundAnswer'
  BY DiskSame DEF InNode
<1> QED BY <1>1, <1>2, <1>3, <1>4, <1>5 DEF IInv

\* A step that leaves the node.
LEMMA CloseKeeps ==
  ASSUME IInv, InNode, UNCHANGED <<prob, opt, conflicts, disk, answer, ret, gapMet>>,
         pc' \in {"top", "learn", "after"}, IF pc' = "after" THEN why' # "none" ELSE why' = why,
         dom' = RootDomain, cur' \in Nodes, IsBound(cur', prob),
         open' \in Seq(Nodes), \A k \in DOMAIN open' : IsBound(open'[k], prob),
         inc' \in Feasible \cup {NoInc}, pool' \in Seq(Feasible), PoolInv',
         \A e \in Feasible : Kept(e) => Kept(e)'
  PROVE  IInv'
<1>1. TypeInv'
  BY RootType DEF IInv, TypeInv, HasPoint, Pcs, Feasible
<1>2. ControlInv'
  BY DEF IInv, ControlInv, InNode
<1>3. DomainInv' /\ BoundInv' /\ NoConflictMet(prob)' /\ BoxInv' /\ PointInv'
  BY DEF IInv, DomainInv, BoundInv, NoConflictMet, BoxInv, PointInv, InNode, HasPoint
<1>4. KeptInv'
  BY DEF IInv, KeptInv, Live, InNode, ControlInv, NoAnswer, Feasible
<1>5. DiskInv' /\ CheckpointWhole' /\ SoundAnswer'
  BY DiskSame
<1> QED BY <1>1, <1>2, <1>3, <1>4, <1>5 DEF IInv

\* What a node may count on: leave() goes back to the root's box, the bounds are bounds.
LEMMA LeaveGoes ==
  ASSUME IInv, InNode
  PROVE  /\ dom \in Doms /\ Leave(dom) = RootDomain /\ TypeInv /\ PoolInv /\ NoConflictMet(prob)
         /\ prob \in Problems /\ cur \in Nodes /\ open \in Seq(Nodes)
         /\ IsBound(cur, prob) /\ IsBound(Root, prob) /\ Root \in Nodes
         /\ \A k \in DOMAIN open : IsBound(open[k], prob)
         /\ inc \in Feasible \cup {NoInc} /\ pool \in Seq(Feasible)
<1>1. \A e \in FeasiblePoints(prob) : NegInf <= e.obj
  BY FeasibleType DEF NegInf, IInv, TypeInv
<1> QED BY <1>1, RootType DEF IInv, TypeInv, DomainInv, BoundInv, IsBound, Root

\* A node whose conflict fires held no feasible assignment.
LEMMA PropagateFiresKeeps == ASSUME IInv, PropagateFires PROVE IInv'
<1> DEFINE after == Propagated(dom)
<1>1. InNode /\ pc = "entered"
  BY DEF PropagateFires, InNode
<1>2. after.dead = "conflict" /\ dom' = Leave(after.dom) /\ cur' = Root
  BY DEF PropagateFires, Close
<1>3. UNCHANGED <<prob, opt, conflicts, disk, answer, ret, gapMet, open, inc, pool, why>> /\ pc' = "top"
  BY DEF PropagateFires, outside, Goto
<1>4. dom' = RootDomain
  BY <1>1, <1>2, LeaveGoes, PropagatedKeeps
<1>5. ASSUME NEW e \in Feasible, Kept(e) PROVE Kept(e)'
  <2>1. ~Meets(e.x, cur.chain)
    <3>1. Meets(e.x, cur.chain) => Inside(dom, e.x)
      BY <1>1 DEF IInv, BoxInv
    <3> QED BY <1>1, <1>2, <3>1, LeaveGoes, PropagatedKeeps
  <2> QED BY <1>3, <1>5, <2>1 DEF Kept
<1>6. PoolInv'
  BY <1>3 DEF IInv, PoolInv
<1> QED BY <1>1, <1>2, <1>3, <1>4, <1>5, <1>6, LeaveGoes, CloseKeeps

\* Nor did a node that propagation empties.
LEMMA PropagateInfeasibleKeeps == ASSUME IInv, PropagateInfeasible PROVE IInv'
<1> DEFINE after == Propagated(dom)
<1>1. InNode /\ pc = "entered"
  BY DEF PropagateInfeasible, InNode
<1>2. /\ after.dead = "bound" \/ (after.dead = "no" /\ Inner(after.dom) = {})
      /\ dom' = Leave(after.dom) /\ cur' = cur
  BY DEF PropagateInfeasible, CloseToLearn
<1>3. UNCHANGED <<prob, opt, conflicts, disk, answer, ret, gapMet, open, inc, pool, why>> /\ pc' = "learn"
  BY DEF PropagateInfeasible, outside, Goto
<1>4. dom' = RootDomain
  BY <1>1, <1>2, LeaveGoes, PropagatedKeeps
<1>5. ASSUME NEW e \in Feasible, Kept(e) PROVE Kept(e)'
  <2>1. ~Meets(e.x, cur.chain)
    <3>1. Meets(e.x, cur.chain) => Inside(dom, e.x)
      BY <1>1 DEF IInv, BoxInv
    <3>2. Meets(e.x, cur.chain) => after.dead = "no" /\ Inside(after.dom, e.x)
      BY <1>1, <3>1, LeaveGoes, PropagatedKeeps
    <3> HIDE DEF after
    <3>3. Meets(e.x, cur.chain) => e \in Inner(after.dom)
      BY <3>2 DEF Inner, Feasible
    <3> QED BY <1>2, <3>2, <3>3
  <2> QED BY <1>3, <1>5, <2>1 DEF Kept
<1>6. PoolInv'
  BY <1>3 DEF IInv, PoolInv
<1> QED BY <1>1, <1>2, <1>3, <1>4, <1>5, <1>6, LeaveGoes, CloseKeeps

\* What propagation and the rows tighten keeps every feasible assignment of the node.
LEMMA PropagateDoneKeeps == ASSUME IInv, PropagateDone PROVE IInv'
<1> DEFINE after == Propagated(dom)
<1>1. InNode /\ pc = "entered" /\ InNode' /\ pc' = "lp"
  BY DEF PropagateDone, InNode, Goto
<1>2. dom' = after.dom \/ (Inner(after.dom) # {} /\ dom' = TightenToHull(after.dom))
  BY DEF PropagateDone
<1>3. UNCHANGED <<prob, opt, conflicts, disk, answer, ret, gapMet, open, cur, inc, pool, why>>
  BY DEF PropagateDone, outside
<1>4. /\ after.dom \in Doms /\ Leave(after.dom) = RootDomain
      /\ \A e \in Feasible : Inside(dom, e.x) => Inside(after.dom, e.x)
  BY <1>1, LeaveGoes, PropagatedKeeps
<1> HIDE DEF after
<1>5. /\ dom' \in Doms /\ Leave(dom') = RootDomain
      /\ \A e \in Feasible : Inside(dom, e.x) => Inside(dom', e.x)
  <2>1. CASE dom' = after.dom
    BY <1>4, <2>1
  <2>2. CASE Inner(after.dom) # {} /\ dom' = TightenToHull(after.dom)
    BY <1>1, <1>4, <2>2, LeaveGoes, HullKeeps DEF Inner, Feasible
  <2> QED BY <1>2, <2>1, <2>2
<1>6. BoxInv' /\ PointInv' /\ ~HasPoint'
  BY <1>1, <1>3, <1>5 DEF IInv, BoxInv, PointInv, HasPoint, Feasible
<1>7. PoolInv'
  BY <1>3 DEF IInv, PoolInv
<1>8. inc # NoInc => inc' # NoInc /\ inc'.obj <= inc.obj
  BY <1>1, <1>3, LeaveGoes, FeasibleType DEF Feasible
<1> QED BY <1>1, <1>3, <1>5, <1>6, <1>7, <1>8, LeaveGoes, StayKeeps

\* What is learned was proved from the root's box, so it holds of every later node.
LEMMA LearnKeeps == ASSUME IInv, Learn PROVE IInv'
<1>1. /\ pc = "learn" /\ pc' = "top" /\ cur' = Root
      /\ UNCHANGED <<prob, opt, dom, disk, answer, ret, gapMet, open, inc, pool, why>>
  BY DEF Learn, outside, Goto
<1>2. TypeInv /\ NoConflictMet(prob) /\ dom = RootDomain /\ cur.chain \in Seq(Changes)
  BY <1>1 DEF IInv, TypeInv, DomainInv, InNode, Nodes
<1>3. conflicts' \in Seq(SUBSET Changes) /\ NoConflictMet(prob)'
  <2>1. CASE UNCHANGED conflicts
    BY <1>1, <2>1 DEF IInv, TypeInv, NoConflictMet
  <2>2. ASSUME NEW S \in SUBSET Canonical(cur.chain), Proved(S), conflicts' \in Added(S)
        PROVE  conflicts' \in Seq(SUBSET Changes) /\ NoConflictMet(prob)'
    <3>1. S \in SUBSET Changes /\ \A e \in Feasible : \E c \in S : ~Satisfies(e.x, c)
      BY <1>2, <2>2, ProvedHolds
    <3> QED BY <1>1, <1>2, <2>2, <3>1, AddedHolds
  <2> QED BY <2>1, <2>2 DEF Learn
<1>4. TypeInv'
  BY <1>1, <1>3, RootType DEF IInv, TypeInv, HasPoint, Pcs, Feasible
<1>5. ControlInv'
  BY <1>1 DEF IInv, ControlInv
<1>6. DomainInv' /\ BoxInv' /\ PointInv' /\ PoolInv'
  BY <1>1 DEF IInv, DomainInv, BoxInv, PointInv, HasPoint, PoolInv, InNode
<1>7. BoundInv'
  <2>1. \A e \in FeasiblePoints(prob) : NegInf <= e.obj
    BY FeasibleType DEF NegInf, IInv, TypeInv
  <2> QED BY <1>1, <2>1 DEF IInv, BoundInv, IsBound, Root
<1>8. KeptInv'
  BY <1>1 DEF IInv, KeptInv, Kept, Live, InNode, Feasible
<1>9. DiskInv' /\ CheckpointWhole' /\ SoundAnswer'
  BY <1>1, DiskSame
<1> QED BY <1>3, <1>4, <1>5, <1>6, <1>7, <1>8, <1>9 DEF IInv
------------------------------------------------------------------------------
(* The node is taken, its relaxation solved                                *)

\* An assignment is covered by a list of nodes if it meets one of them.
LEMMA CoversMembers ==
  ASSUME NEW s \in Seq(Nodes), NEW e
  PROVE  Covers(s, e) <=> \E node \in ToSet(s) : Meets(e.x, node.chain)
BY DEF Covers, ToSet

\* Taking a node moves it from the list to the search, or prunes what it could hold.
LEMMA PickNodeKeeps == ASSUME IInv, PickNode PROVE IInv'
<1>1. /\ pc = "test" /\ open # <<>> /\ ~InNode /\ dom = RootDomain
      /\ UNCHANGED <<prob, opt, lp, probe, inc, pool, conflicts, why, gapMet, disk, ret, answer>>
  BY DEF PickNode, IInv, ControlInv, DomainInv, InNode
<1>2. /\ open \in Seq(Nodes) /\ Len(open) \in Nat /\ DOMAIN open = 1 .. Len(open)
      /\ \A k \in 1 .. Len(open) : open[k] \in Nodes
      /\ TypeInv /\ PoolInv
  BY LenProperties, ElementOfSeq DEF IInv, TypeInv
<1>3. PICK k \in Picks :
        /\ open' = RemoveAt(open, k)
        /\ IF CanPrune(open[k].bound)
           THEN pc' = "top" /\ UNCHANGED <<dom, cur, explored>>
           ELSE dom' = Enter(dom, open[k].chain) /\ cur' = open[k] /\ pc' = "entered"
  BY DEF PickNode, Goto
<1>4. k \in 1 .. Len(open)
  BY <1>1, <1>2, <1>3, PicksOpen
<1>5. /\ open' \in Seq(Nodes) /\ ToSet(open') \subseteq ToSet(open)
      /\ \A i \in DOMAIN open : i # k => open[i] \in ToSet(open')
  BY <1>2, <1>3, <1>4, RemoveAtMembers
<1>6. \A i \in DOMAIN open' : IsBound(open'[i], prob)
  <2>1. \A node \in ToSet(open) : IsBound(node, prob)
    BY DEF IInv, BoundInv, ToSet
  <2> QED BY <1>5, <2>1 DEF ToSet
<1>7. open[k] \in Nodes /\ IsBound(open[k], prob) /\ open[k].chain \in Seq(Changes)
      /\ open[k].bound \in NegInf .. NoCutoff - 1
  BY <1>2, <1>4 DEF IInv, BoundInv, Nodes
<1>8. ASSUME NEW e \in Feasible, Kept(e)
      PROVE  \/ Covers(open', e) \/ Meets(e.x, open[k].chain)
             \/ inc # NoInc /\ e.obj >= inc.obj - Margin
  <2>1. CASE Covers(open, e)
    <3>1. PICK i \in DOMAIN open : Meets(e.x, open[i].chain)
      BY <2>1 DEF Covers
    <3> QED BY <1>5, <3>1, CoversMembers
  <2> QED BY <1>1, <1>8, <2>1 DEF Kept
<1>9. \A e \in Feasible : Kept(e)
  BY <1>1 DEF IInv, KeptInv, Live, ControlInv, NoAnswer
<1>10. DiskInv' /\ CheckpointWhole' /\ SoundAnswer'
  BY <1>1, <1>3, DiskSame
<1>11. PoolInv' /\ NoConflictMet(prob)'
  BY <1>1 DEF IInv, PoolInv, NoConflictMet
<1>12. CASE CanPrune(open[k].bound)
  <2>1. pc' = "top" /\ UNCHANGED <<dom, cur>>
    BY <1>3, <1>12
  <2>2. TypeInv' /\ ControlInv' /\ DomainInv'
    BY <1>1, <1>5, <2>1 DEF IInv, TypeInv, ControlInv, DomainInv, InNode, HasPoint, Pcs, Feasible
  <2>3. BoundInv' /\ BoxInv' /\ PointInv'
    BY <1>1, <1>6, <2>1 DEF IInv, BoundInv, BoxInv, PointInv, HasPoint
  <2>4. ASSUME NEW e \in Feasible PROVE Kept(e)'
    <3>1. Meets(e.x, open[k].chain) => inc # NoInc /\ e.obj >= inc.obj - Margin
      <4>1. Meets(e.x, open[k].chain) => open[k].bound <= e.obj
        BY <1>7 DEF IsBound, Feasible
      <4> QED BY <1>2, <1>7, <1>12, <4>1, PruneLoses
    <3> QED BY <1>1, <1>8, <1>9, <3>1 DEF Kept
  <2>5. KeptInv'
    BY <1>1, <2>4 DEF KeptInv, Feasible
  <2> QED BY <1>10, <1>11, <2>2, <2>3, <2>5 DEF IInv
<1>13. CASE ~CanPrune(open[k].bound)
  <2>1. dom' = Enter(dom, open[k].chain) /\ cur' = open[k] /\ pc' = "entered"
    BY <1>3, <1>13
  <2>2. /\ dom' \in Doms /\ Leave(dom') = RootDomain
        /\ \A x \in Spots : Inside(RootDomain, x) /\ Meets(x, open[k].chain) => Inside(dom', x)
    BY <1>1, <1>7, <2>1, EnterKeeps, RootType
  <2>3. TypeInv' /\ ControlInv' /\ DomainInv'
    BY <1>1, <1>5, <1>7, <2>1, <2>2
    DEF IInv, TypeInv, ControlInv, DomainInv, InNode, HasPoint, Pcs, Feasible
  <2>4. BoundInv' /\ PointInv'
    BY <1>1, <1>6, <1>7, <2>1 DEF IInv, BoundInv, PointInv, HasPoint
  <2>5. BoxInv'
    <3>1. \A e \in Feasible : e.x \in Spots /\ Inside(RootDomain, e.x)
      BY <1>2, FeasibleType DEF TypeInv, Feasible
    <3> QED BY <1>1, <2>1, <2>2, <3>1 DEF BoxInv, Feasible
  <2>6. KeptInv'
    BY <1>1, <1>8, <1>9, <2>1 DEF KeptInv, Kept, InNode, Feasible
  <2> QED BY <1>10, <1>11, <2>3, <2>4, <2>5, <2>6 DEF IInv
<1> QED BY <1>12, <1>13

\* A node without a relaxation's answer holds no feasible assignment.
LEMMA NodeInfeasibleKeeps == ASSUME IInv, NodeInfeasible PROVE IInv'
<1>1. /\ InNode /\ pc = "lp" /\ Reachable(prob, dom) = {} /\ dom' = Leave(dom) /\ pc' = "learn"
      /\ UNCHANGED <<prob, opt, conflicts, disk, answer, ret, gapMet, open, inc, pool, why, cur>>
  BY DEF NodeInfeasible, InNode, CloseToLearn, outside, Goto
<1>2. ASSUME NEW e \in Feasible, Kept(e) PROVE Kept(e)'
  <2>1. ASSUME Meets(e.x, cur.chain) PROVE FALSE
    <3>1. Inside(dom, e.x)
      BY <1>1, <2>1 DEF IInv, BoxInv
    <3>2. PICK v \in prob : \A j \in Cols : v.at[j] = 2 * e.x[j]
      BY FeasibleType DEF IInv, TypeInv, Feasible
    <3>3. e.x \in Spots /\ dom \in Doms
      BY FeasibleType DEF IInv, TypeInv, Feasible
    <3>4. v \in Reachable(prob, dom)
      BY <3>1, <3>2, <3>3 DEF Reachable, Inside, Spots, Doms
    <3> QED BY <1>1, <3>4
  <2> QED BY <1>1, <1>2, <2>1 DEF Kept
<1>3. PoolInv'
  BY <1>1 DEF IInv, PoolInv
<1> QED BY <1>1, <1>2, <1>3, LeaveGoes, CloseKeeps

\* The relaxation's answer is a bound of the node.
LEMMA CheapestBounds ==
  ASSUME IInv, pc = "lp", NEW v \in Cheapest(Reachable(prob, dom))
  PROVE  /\ v \in prob /\ v \in Reachable(prob, dom) /\ v.cost \in 0 .. NoCutoff - 1
         /\ \A e \in Feasible : Meets(e.x, cur.chain) => v.cost <= e.obj
<1>1. v \in Reachable(prob, dom) /\ \A u \in Reachable(prob, dom) : v.cost <= u.cost
  BY DEF Cheapest
<1>2. v \in prob /\ prob \in Problems
  BY <1>1 DEF Reachable, IInv, TypeInv
<1>3. ASSUME NEW e \in Feasible, Meets(e.x, cur.chain) PROVE v.cost <= e.obj
  <2>1. Inside(dom, e.x)
    BY <1>3 DEF IInv, BoxInv
  <2>2. PICK u \in prob : e.obj = u.cost /\ \A j \in Cols : u.at[j] = 2 * e.x[j]
    BY <1>2, FeasibleType DEF Feasible
  <2>3. e.x \in Spots /\ dom \in Doms
    BY <1>2, FeasibleType DEF IInv, TypeInv, Feasible
  <2>4. u \in Reachable(prob, dom)
    BY <2>1, <2>2, <2>3 DEF Reachable, Inside, Spots, Doms
  <2> QED BY <1>1, <2>2, <2>4
<1> QED BY <1>1, <1>2, <1>3, PointType

\* A node pruned on its relaxation holds nothing better than the incumbent.
LEMMA NodeSolvedKeeps == ASSUME IInv, NodeSolved PROVE IInv'
<1>1. /\ InNode /\ pc = "lp"
      /\ UNCHANGED <<prob, opt, conflicts, disk, answer, ret, gapMet, open, inc, pool, why>>
  BY DEF NodeSolved, InNode, outside
<1>2. PICK v \in Cheapest(Reachable(prob, dom)) :
        IF CanPrune(v.cost) THEN dom' = Leave(dom) /\ cur' = Root /\ pc' = "top"
        ELSE lp' = v /\ UNCHANGED <<dom, cur, probe>> /\ pc' = "heuristics"
  BY DEF NodeSolved, Close, Goto
<1>3. /\ v \in prob /\ v \in Reachable(prob, dom) /\ v.cost \in 0 .. NoCutoff - 1
      /\ \A e \in Feasible : Meets(e.x, cur.chain) => v.cost <= e.obj
  BY <1>1, CheapestBounds
<1>4. PoolInv'
  BY <1>1 DEF IInv, PoolInv
<1>5. CASE CanPrune(v.cost)
  <2>1. ASSUME NEW e \in Feasible, Kept(e) PROVE Kept(e)'
    <3>1. v.cost \in NegInf .. NoCutoff - 1
      BY <1>3, TreeAssumption DEF NegInf
    <3>2. Meets(e.x, cur.chain) => inc # NoInc /\ e.obj >= inc.obj - Margin
      BY <1>1, <1>3, <1>5, <3>1, LeaveGoes, PruneLoses
    <3> QED BY <1>1, <2>1, <3>2 DEF Kept
  <2> QED BY <1>1, <1>2, <1>4, <1>5, <2>1, LeaveGoes, CloseKeeps
<1>6. CASE ~CanPrune(v.cost)
  <2>1. lp' = v /\ UNCHANGED <<dom, cur, probe>> /\ pc' = "heuristics" /\ InNode'
    BY <1>2, <1>6 DEF InNode
  <2>2. BoxInv' /\ PointInv'
    BY <1>1, <1>3, <2>1 DEF IInv, BoxInv, PointInv, Feasible
  <2>3. inc # NoInc => inc' # NoInc /\ inc'.obj <= inc.obj
    BY <1>1, LeaveGoes, FeasibleType DEF Feasible
  <2> QED BY <1>1, <1>3, <1>4, <2>1, <2>2, <2>3, LeaveGoes, StayKeeps
<1> QED BY <1>5, <1>6
\* A node whose relaxation was cut short goes back on the list.
LEMMA NodeStoppedKeeps == ASSUME IInv, NodeStopped PROVE IInv'
<1>1. /\ InNode /\ dom' = Leave(dom) /\ cur' = Root /\ open' = Append(open, cur)
      /\ pc' = "after" /\ why' # "none"
      /\ UNCHANGED <<prob, opt, conflicts, disk, answer, ret, gapMet, inc, pool>>
  BY DEF NodeStopped, NodeLimit, InNode, Close, outside, Goto
<1>2. /\ open \in Seq(Nodes) /\ cur \in Nodes
      /\ Len(open) \in Nat /\ DOMAIN open = 1 .. Len(open)
  BY LenProperties DEF IInv, TypeInv
<1>3. /\ open' \in Seq(Nodes) /\ Len(open') = Len(open) + 1 /\ DOMAIN open' = 1 .. Len(open) + 1
      /\ \A k \in 1 .. Len(open) : open'[k] = open[k]
      /\ open'[Len(open) + 1] = cur
  BY <1>1, <1>2, AppendProperties, LenProperties
<1>4. \A k \in DOMAIN open' : IsBound(open'[k], prob)
  <2>1. ASSUME NEW k \in DOMAIN open' PROVE IsBound(open'[k], prob)
    <3>1. CASE k = Len(open) + 1
      BY <1>3, <3>1 DEF IInv, BoundInv
    <3>2. CASE k # Len(open) + 1
      <4>1. k \in 1 .. Len(open)
        BY <1>2, <1>3, <3>2
      <4> QED BY <1>2, <1>3, <4>1 DEF IInv, BoundInv
    <3> QED BY <3>1, <3>2
  <2> QED BY <2>1
<1>5. ASSUME NEW e \in Feasible, Kept(e) PROVE Kept(e)'
  <2>1. CASE Covers(open, e)
    BY <1>2, <1>3, <2>1 DEF Kept, Covers
  <2>2. CASE Meets(e.x, cur.chain)
    <3>1. Len(open) + 1 \in DOMAIN open'
      BY <1>2, <1>3
    <3> QED BY <1>3, <2>2, <3>1 DEF Kept, Covers
  <2> QED BY <1>1, <1>5, <2>1, <2>2 DEF Kept
<1>6. PoolInv'
  BY <1>1 DEF IInv, PoolInv
<1> QED BY <1>1, <1>3, <1>4, <1>5, <1>6, LeaveGoes, CloseKeeps

\* A failed relaxation ends the search without a claim.
LEMMA NodeFailedKeeps == ASSUME IInv, NodeFailed PROVE IInv'
<1>1. /\ InNode /\ dom' = Leave(dom) /\ cur' = Root /\ pc' = "done"
      /\ answer' = [NoAnswer EXCEPT !.status = "failed"]
      /\ UNCHANGED <<prob, opt, conflicts, disk, ret, open, inc, pool>>
  BY DEF NodeFailed, InNode, Close, Goto
<1>2. dom' = RootDomain
  BY <1>1, LeaveGoes
<1>3. answer'.status = "failed"
  BY <1>1 DEF NoAnswer
<1>4. TypeInv'
  BY <1>1, <1>2, RootType DEF IInv, TypeInv, HasPoint, Pcs, Feasible
<1>5. ControlInv' /\ DomainInv' /\ BoxInv' /\ PointInv' /\ PoolInv' /\ NoConflictMet(prob)'
  BY <1>1, <1>2
  DEF IInv, ControlInv, DomainInv, BoxInv, PointInv, PoolInv, NoConflictMet, InNode, HasPoint
<1>6. BoundInv'
  BY <1>1, LeaveGoes DEF BoundInv
<1>7. KeptInv' /\ SoundAnswer'
  BY <1>3 DEF KeptInv, Live, SoundAnswer
<1>8. DiskInv' /\ CheckpointWhole'
  BY <1>1 DEF IInv, DiskInv, CheckpointWhole
<1> QED BY <1>4, <1>5, <1>6, <1>7, <1>8 DEF IInv

\* The heuristics only improve the incumbent.
LEMMA NodeHeuristicsKeeps == ASSUME IInv, NodeHeuristics PROVE IInv'
<1>1. /\ InNode /\ InNode' /\ pc = "heuristics" /\ pc' = "solved"
      /\ UNCHANGED <<prob, opt, conflicts, disk, answer, ret, open, cur, why, gapMet, dom, lp, probe>>
  BY DEF NodeHeuristics, InNode, outside, Goto
<1>2. /\ inc' \in Feasible \cup {NoInc} /\ pool' \in Seq(Feasible) /\ PoolInv'
      /\ inc # NoInc => inc' # NoInc /\ inc'.obj <= inc.obj
  <2>1. CASE UNCHANGED <<inc, pool>>
    <3>1. inc # NoInc => inc' # NoInc /\ inc'.obj <= inc.obj
      BY <1>1, <2>1, LeaveGoes, FeasibleType DEF Feasible
    <3> QED BY <2>1, <3>1 DEF IInv, TypeInv, PoolInv
  <2>2. ASSUME NEW e \in FeasiblePoints(prob), OfferIncumbent(e)
        PROVE  /\ inc' \in Feasible \cup {NoInc} /\ pool' \in Seq(Feasible) /\ PoolInv'
               /\ inc # NoInc => inc' # NoInc /\ inc'.obj <= inc.obj
    BY <1>1, <2>2, LeaveGoes, OfferKeeps DEF Feasible
  <2> QED BY <2>1, <2>2 DEF NodeHeuristics
<1>3. BoxInv' /\ PointInv'
  BY <1>1 DEF IInv, BoxInv, PointInv, HasPoint, Feasible
<1>4. lp' \in prob
  BY <1>1 DEF IInv, TypeInv, HasPoint
<1> QED BY <1>1, <1>2, <1>3, <1>4, LeaveGoes, StayKeeps

\* An integral point of the relaxation is a feasible one.
LEMMA IntegralIsFeasible ==
  ASSUME NEW v \in prob, Fractional(v) = {}
  PROVE  AsEntry(v) \in Feasible /\ AsEntry(v).obj = v.cost
BY DEF Feasible, FeasiblePoints, AsEntry

\* An integral relaxation is the node's best point; the pieces are parts of the node.
LEMMA NodeIntegralKeeps == ASSUME IInv, NodeIntegral PROVE IInv'
<1>1. /\ InNode /\ pc = "solved" /\ Fractional(lp) = {} /\ dom' = Leave(dom) /\ cur' = Root
      /\ OfferIncumbent(AsEntry(lp)) /\ pc' = "top"
      /\ UNCHANGED <<prob, opt, conflicts, disk, answer, ret, gapMet, why>>
  BY DEF NodeIntegral, InNode, Close, outside, Goto
<1>2. /\ lp \in prob /\ prob \in Problems /\ dom \in Doms /\ cur.chain \in Seq(Changes)
      /\ open \in Seq(Nodes) /\ TypeInv /\ PoolInv
      /\ \A e \in Feasible : Meets(e.x, cur.chain) => lp.cost <= e.obj
  BY <1>1 DEF IInv, TypeInv, PointInv, HasPoint, Nodes
<1>3. lp.at \in [Cols -> Nat] /\ lp.cost \in 0 .. NoCutoff - 1
  BY <1>2, PointType
<1>4. /\ inc' \in Feasible /\ inc' # NoInc /\ inc'.obj <= lp.cost
      /\ inc # NoInc => inc'.obj <= inc.obj
      /\ pool' \in Seq(Feasible) /\ PoolInv'
  BY <1>1, <1>2, IntegralIsFeasible, OfferKeeps
<1>5. Position(lp) \in Spots
  <2>1. \A j \in Cols : lp.at[j] \div 2 \in Int
    BY <1>3
  <2> QED BY <2>1 DEF Position, Spots
<1> DEFINE pieces == Pieces(dom, cur.chain, Position(lp))
           rest == [k \in DOMAIN pieces |-> [chain |-> pieces[k], bound |-> lp.cost]]
<1>6. /\ pieces \in Seq(Seq(Changes))
      /\ \A p \in ToSet(pieces) : \A y : Meets(y, p) => Meets(y, cur.chain)
  BY <1>2, <1>5, PiecesAreParts
<1>7. open' = open \o rest \/ open' = open
  BY DEF NodeIntegral
<1> HIDE DEF pieces
<1>8. /\ Len(pieces) \in Nat /\ DOMAIN pieces = 1 .. Len(pieces)
      /\ \A k \in 1 .. Len(pieces) : pieces[k] \in Seq(Changes)
  BY <1>6, LenProperties, ElementOfSeq
<1>9. rest \in Seq(Nodes)
  <2>1. lp.cost \in NegInf .. NoCutoff - 1
    BY <1>3, TreeAssumption DEF NegInf
  <2>2. rest \in [1 .. Len(pieces) -> Nodes]
    BY <1>8, <2>1 DEF Nodes
  <2> QED BY <1>8, <2>2
<1>10. \A node \in ToSet(rest) : IsBound(node, prob)
  <2>1. SUFFICES ASSUME NEW k \in DOMAIN pieces PROVE IsBound(rest[k], prob)
    BY DEF ToSet
  <2>2. \A y : Meets(y, pieces[k]) => Meets(y, cur.chain)
    BY <1>6 DEF ToSet
  <2>3. rest[k].chain = pieces[k] /\ rest[k].bound = lp.cost
    OBVIOUS
  <2> QED BY <1>2, <2>2, <2>3 DEF IsBound, Feasible
<1> HIDE DEF rest
<1>11. /\ open' \in Seq(Nodes) /\ ToSet(open) \subseteq ToSet(open')
       /\ ToSet(open') \subseteq ToSet(open) \cup ToSet(rest)
  <2>1. open \o rest \in Seq(Nodes)
    BY <1>2, <1>9, ConcatProperties
  <2>2. ToSet(open \o rest) = ToSet(open) \cup ToSet(rest)
    BY <1>2, <1>9, ConcatMembers
  <2>3. CASE open' = open \o rest
    BY <2>1, <2>2, <2>3
  <2>4. CASE open' = open
    BY <1>2, <2>4
  <2> QED BY <1>7, <2>3, <2>4
<1>12. \A k \in DOMAIN open' : IsBound(open'[k], prob)
  <2>1. \A node \in ToSet(open) : IsBound(node, prob)
    BY DEF IInv, BoundInv, ToSet
  <2> QED BY <1>10, <1>11, <2>1 DEF ToSet
<1>13. ASSUME NEW e \in Feasible, Kept(e) PROVE Kept(e)'
  <2>0. e.obj \in Int /\ inc'.obj \in Int /\ Margin \in Nat /\ (inc # NoInc => inc.obj \in Int)
    <3>1. \A f \in Feasible : f.obj \in Int
      BY <1>2, FeasibleType DEF Feasible
    <3> QED BY <1>2, <1>4, <3>1, TreeAssumption DEF TypeInv
  <2>1. CASE Covers(open, e)
    BY <1>2, <1>11, <2>1, CoversMembers DEF Kept
  <2>2. CASE Meets(e.x, cur.chain)
    BY <1>2, <1>3, <1>4, <2>0, <2>2 DEF Kept
  <2>3. CASE inc # NoInc /\ e.obj >= inc.obj - Margin
    BY <1>4, <2>0, <2>3 DEF Kept
  <2> QED BY <1>13, <2>1, <2>2, <2>3 DEF Kept
<1> QED BY <1>1, <1>4, <1>11, <1>12, <1>13, LeaveGoes, CloseKeeps

\* A fractional relaxation goes on to the dive or to branching.
LEMMA NodeFractionalKeeps == ASSUME IInv, NodeFractional PROVE IInv'
<1>1. /\ InNode /\ InNode' /\ pc = "solved" /\ pc' \in {"dive", "branch"}
      /\ pc' = "dive" => probe' = lp
      /\ UNCHANGED <<prob, opt, conflicts, disk, answer, ret, open, cur, why, gapMet, dom, lp, inc, pool>>
  BY DEF NodeFractional, InNode, outside, Goto
<1>2. inc # NoInc => inc' # NoInc /\ inc'.obj <= inc.obj
  BY <1>1, LeaveGoes, FeasibleType DEF Feasible
<1>3. lp \in prob
  BY <1>1 DEF IInv, TypeInv, HasPoint
<1>4. BoxInv' /\ PointInv' /\ PoolInv'
  BY <1>1 DEF IInv, BoxInv, PointInv, PoolInv, HasPoint, Feasible
<1> QED BY <1>1, <1>2, <1>3, <1>4, LeaveGoes, StayKeeps

\* What the dive fixes can be undone.
LEMMA DiveStepKeeps == ASSUME IInv, DiveStep PROVE IInv'
<1> DEFINE j == Min(Fractional(probe))
           at == (probe.at[j] + 1) \div 2
           first == Change(j, FALSE, at)
           second == Change(j, TRUE, at)
<1>1. /\ InNode /\ InNode' /\ pc = "dive" /\ pc' \in {"dive", "pump"} /\ Fractional(probe) # {}
      /\ dom' = Tighten(Tighten(dom, first), second)
      /\ probe' \in Reachable(prob, dom') \/ probe' = probe
      /\ UNCHANGED <<prob, opt, conflicts, disk, answer, ret, open, cur, why, gapMet, lp, inc, pool>>
  BY DEF DiveStep, InNode, outside, Goto, Cheapest
<1>2. probe \in prob /\ lp \in prob /\ prob \in Problems
  BY <1>1 DEF IInv, TypeInv, HasPoint
<1>3. Fractional(probe) \subseteq Cols /\ Fractional(probe) \subseteq Int /\ \A k \in Fractional(probe) : 0 <= k
  <2>1. Cardinality(Cols) \in Nat /\ Cols = 1 .. Cardinality(Cols)
    BY ColsAssumption, FS_CardinalityType
  <2>2. \A k \in Cols : k \in Int /\ 0 <= k
    BY <2>1
  <2> QED BY <2>2 DEF Fractional
<1>4. j \in Cols
  <2>1. 0 \in Int
    OBVIOUS
  <2> QED BY <1>1, <1>3, <2>1, MinIn
<1> HIDE DEF j
<1>5. at \in Int
  <2>1. probe.at[j] \in Nat
    BY <1>2, <1>4, PointType
  <2> QED BY <2>1
<1> HIDE DEF at
<1>6. first \in Changes /\ second \in Changes
  BY <1>4, <1>5 DEF Change, Changes
<1> HIDE DEF first, second
<1>7. /\ Tighten(dom, first) \in Doms /\ Leave(Tighten(dom, first)) = RootDomain
  BY <1>1, <1>6, LeaveGoes, TightenType, LeaveTighten
<1>8. dom' \in Doms /\ Leave(dom') = RootDomain
  BY <1>1, <1>6, <1>7, TightenType, LeaveTighten
<1>9. probe' \in prob
  BY <1>1, <1>2 DEF Reachable
<1>10. inc # NoInc => inc' # NoInc /\ inc'.obj <= inc.obj
  BY <1>1, LeaveGoes, FeasibleType DEF Feasible
<1>11. BoxInv' /\ PointInv' /\ PoolInv'
  BY <1>1 DEF IInv, BoxInv, PointInv, PoolInv, HasPoint, Feasible
<1> QED BY <1>1, <1>2, <1>8, <1>9, <1>10, <1>11, LeaveGoes, StayKeeps

\* What the dive finds only improves the incumbent.
LEMMA DiveFindsKeeps == ASSUME IInv, DiveFinds PROVE IInv'
<1>1. /\ InNode /\ InNode' /\ pc = "dive" /\ pc' = "pump" /\ Fractional(probe) = {}
      /\ OfferIncumbent(AsEntry(probe))
      /\ UNCHANGED <<prob, opt, conflicts, disk, answer, ret, open, cur, why, gapMet, dom, lp, probe>>
  BY DEF DiveFinds, InNode, outside, Goto
<1>2. probe \in prob /\ lp \in prob
  BY <1>1 DEF IInv, TypeInv, HasPoint
<1>3. /\ inc' \in Feasible \cup {NoInc} /\ pool' \in Seq(Feasible) /\ PoolInv'
      /\ inc # NoInc => inc' # NoInc /\ inc'.obj <= inc.obj
  BY <1>1, <1>2, LeaveGoes, IntegralIsFeasible, OfferKeeps
<1>4. BoxInv' /\ PointInv'
  BY <1>1 DEF IInv, BoxInv, PointInv, HasPoint, Feasible
<1> QED BY <1>1, <1>2, <1>3, <1>4, LeaveGoes, StayKeeps

\* So does what the pump finds.
LEMMA RootPumpKeeps == ASSUME IInv, RootPump PROVE IInv'
<1>1. /\ InNode /\ InNode' /\ pc = "pump" /\ pc' = "branch"
      /\ UNCHANGED <<prob, opt, conflicts, disk, answer, ret, open, cur, why, gapMet, dom, lp>>
  BY DEF RootPump, InNode, outside, Goto
<1>2. lp \in prob
  BY <1>1 DEF IInv, TypeInv, HasPoint
<1>3. /\ inc' \in Feasible \cup {NoInc} /\ pool' \in Seq(Feasible) /\ PoolInv'
      /\ inc # NoInc => inc' # NoInc /\ inc'.obj <= inc.obj
  <2>1. CASE UNCHANGED <<inc, pool>>
    <3>1. inc # NoInc => inc' # NoInc /\ inc'.obj <= inc.obj
      BY <1>1, <2>1, LeaveGoes, FeasibleType DEF Feasible
    <3> QED BY <2>1, <3>1 DEF IInv, TypeInv, PoolInv
  <2>2. ASSUME NEW e \in FeasiblePoints(prob), OfferIncumbent(e)
        PROVE  /\ inc' \in Feasible \cup {NoInc} /\ pool' \in Seq(Feasible) /\ PoolInv'
               /\ inc # NoInc => inc' # NoInc /\ inc'.obj <= inc.obj
    BY <1>1, <2>2, LeaveGoes, OfferKeeps DEF Feasible
  <2> QED BY <2>1, <2>2 DEF RootPump
<1>4. BoxInv' /\ PointInv'
  BY <1>1 DEF IInv, BoxInv, PointInv, HasPoint, Feasible
<1> QED BY <1>1, <1>2, <1>3, <1>4, LeaveGoes, StayKeeps

\* The two children cover the node, and strong branching left its box alone.
LEMMA BranchKeeps == ASSUME IInv, Branch PROVE IInv'
<1>1. /\ InNode /\ pc = "branch" /\ pc' = "top" /\ cur' = Root
      /\ UNCHANGED <<prob, opt, conflicts, disk, answer, ret, gapMet, why, inc, pool>>
  BY DEF Branch, InNode, Close, outside, Goto
<1>2. PICK probed \in Fractional(lp), j \in Fractional(lp) :
        /\ dom' = Leave(StrongBranch(dom, probed))
        /\ open' = open \o <<[chain |-> Append(cur.chain, Down(j)), bound |-> lp.cost],
                             [chain |-> Append(cur.chain, Up(j)), bound |-> lp.cost]>>
  BY DEF Branch, Close
<1>3. /\ lp \in prob /\ prob \in Problems /\ cur.chain \in Seq(Changes)
      /\ open \in Seq(Nodes) /\ TypeInv
      /\ \A e \in Feasible : Meets(e.x, cur.chain) => lp.cost <= e.obj
  BY <1>1 DEF IInv, TypeInv, PointInv, HasPoint, Nodes
<1>4. dom' = RootDomain
  BY <1>1, <1>2, <1>3, LeaveGoes, StrongBranchUndone
<1>5. /\ Down(j) \in Changes /\ Up(j) \in Changes
      /\ \A x \in Spots : Satisfies(x, Down(j)) \/ Satisfies(x, Up(j))
  BY <1>3, BranchType
<1> DEFINE down == [chain |-> Append(cur.chain, Down(j)), bound |-> lp.cost]
           up == [chain |-> Append(cur.chain, Up(j)), bound |-> lp.cost]
<1>6. down \in Nodes /\ up \in Nodes
  <2>1. lp.cost \in NegInf .. NoCutoff - 1
    BY <1>3, PointType, TreeAssumption DEF NegInf
  <2>2. Append(cur.chain, Down(j)) \in Seq(Changes) /\ Append(cur.chain, Up(j)) \in Seq(Changes)
    BY <1>3, <1>5, AppendProperties
  <2> QED BY <2>1, <2>2 DEF Nodes
<1>7. \A x : /\ Meets(x, down.chain) <=> Meets(x, cur.chain) /\ Satisfies(x, Down(j))
             /\ Meets(x, up.chain) <=> Meets(x, cur.chain) /\ Satisfies(x, Up(j))
  BY <1>3, <1>5, MeetsAppend
<1>8. IsBound(down, prob) /\ IsBound(up, prob)
  BY <1>3, <1>7 DEF IsBound, Feasible
<1> DEFINE two == <<down, up>>
<1>9. open' = open \o two
  BY <1>2
<1> HIDE DEF down, up
<1>10. two \in Seq(Nodes) /\ ToSet(two) = {down, up}
  BY <1>6, OneAndTwo DEF ToSet
<1> HIDE DEF two
<1>11. open' \in Seq(Nodes) /\ \A node : node \in ToSet(open') <=> node \in ToSet(open) \/ node = down \/ node = up
  <2>1. open \o two \in Seq(Nodes)
    BY <1>3, <1>10, ConcatProperties
  <2>2. ToSet(open \o two) = ToSet(open) \cup ToSet(two)
    BY <1>3, <1>10, ConcatMembers
  <2>3. ToSet(open') = ToSet(open) \cup {down, up}
    BY <1>9, <1>10, <2>2
  <2> QED BY <1>9, <2>1, <2>3
<1>12. \A k \in DOMAIN open' : IsBound(open'[k], prob)
  <2>1. \A node \in ToSet(open) : IsBound(node, prob)
    BY DEF IInv, BoundInv, ToSet
  <2> QED BY <1>8, <1>11, <2>1 DEF ToSet
<1>13. ASSUME NEW e \in Feasible, Kept(e) PROVE Kept(e)'
  <2>1. CASE Covers(open, e)
    BY <1>3, <1>11, <2>1, CoversMembers DEF Kept
  <2>2. CASE Meets(e.x, cur.chain)
    <3>1. e.x \in Spots
      BY <1>3, FeasibleType DEF Feasible
    <3>2. Meets(e.x, down.chain) \/ Meets(e.x, up.chain)
      BY <1>5, <1>7, <2>2, <3>1
    <3> QED BY <1>11, <3>2, CoversMembers DEF Kept
  <2> QED BY <1>1, <1>13, <2>1, <2>2 DEF Kept
<1>14. PoolInv'
  BY <1>1 DEF IInv, PoolInv
<1> QED BY <1>1, <1>4, <1>11, <1>12, <1>13, <1>14, LeaveGoes, CloseKeeps
------------------------------------------------------------------------------
(* The file, a crash, a resume, the answer                                 *)

\* The file gets the whole list of open nodes, leaf first, and the incumbent.
LEMMA SaveCommitKeeps == ASSUME IInv, SaveCommit PROVE IInv'
<1>1. /\ pc = "saving" /\ pc' = ret /\ disk' = MakeCheckpoint
      /\ UNCHANGED memory /\ UNCHANGED <<ret, why, gapMet>>
  BY DEF SaveCommit, memory, searchVars, Goto
<1>2. OpenBound' = OpenBound /\ Rounded(OpenBound)' = Rounded(OpenBound)
  BY <1>1 DEF OpenBound, Rounded, memory
<1>3. ret \in {"limits", "report"} /\ ret' = ret
  BY <1>1 DEF IInv, TypeInv
<1>4. ControlInv'
  BY <1>1, <1>2, <1>3 DEF IInv, ControlInv, memory
<1>5. /\ open \in Seq(Nodes) /\ Len(open) \in Nat /\ DOMAIN open = 1 .. Len(open)
      /\ \A k \in 1 .. Len(open) : open[k] \in Nodes
  BY LenProperties, ElementOfSeq DEF IInv, TypeInv
<1> DEFINE saved == [k \in DOMAIN open |->
                       [chain |-> Reverse(open[k].chain), bound |-> open[k].bound]]
<1>6. disk'.prob = prob /\ disk'.inc = inc /\ disk'.open = saved
  BY <1>1 DEF MakeCheckpoint
<1>7. \A k \in DOMAIN open : saved[k] \in Nodes
  BY <1>5, ReverseOf DEF Nodes
<1>8. saved \in Seq(Nodes) /\ DOMAIN saved = DOMAIN open
  <2>1. saved \in [1 .. Len(open) -> Nodes]
    BY <1>5, <1>7
  <2> QED BY <1>5, <2>1
<1>9. \A k \in DOMAIN open : \A x : Meets(x, saved[k].chain) <=> Meets(x, open[k].chain)
  BY <1>5, MeetsReverse DEF Nodes
<1>10. \A k \in DOMAIN open : saved[k].bound = open[k].bound
  OBVIOUS
<1> HIDE DEF saved
<1>11. DiskInv'
  <2>1. \A k \in DOMAIN open : IsBound(saved[k], prob)
    BY <1>9, <1>10 DEF IsBound, IInv, BoundInv
  <2> QED BY <1>6, <1>8, <2>1 DEF DiskInv, IInv, TypeInv, Feasible
<1>12. CheckpointWhole'
  <2>1. ASSUME NEW e \in FeasiblePoints(prob)
        PROVE  Covers(saved, e) \/ (inc # NoInc /\ e.obj >= inc.obj - Margin)
    <3>1. Kept(e) /\ ~InNode
      BY <1>1 DEF IInv, KeptInv, Live, InNode, ControlInv, NoAnswer, Feasible
    <3> QED BY <1>8, <1>9, <3>1 DEF Kept, Covers
  <2> QED BY <1>6, <2>1 DEF CheckpointWhole
<1>13. pc \in HeadPcs /\ pc' \in HeadPcs
  BY <1>1, <1>3 DEF HeadPcs
<1> QED BY <1>1, <1>3, <1>4, <1>11, <1>12, <1>13, MemoryKeeps

\* A crash forgets everything but the file.
LEMMA CrashKeeps == ASSUME IInv, Crash PROVE IInv'
<1> USE DEF Crash, FreshSearch, Goto
<1>1. TypeInv'
  BY RootType, EmptySeq DEF IInv, TypeInv, HasPoint, Pcs, Feasible
<1>2. ControlInv' /\ DomainInv' /\ BoxInv' /\ PointInv' /\ PoolInv' /\ NoConflictMet(prob)'
  BY DEF ControlInv, DomainInv, BoxInv, PointInv, PoolInv, NoConflictMet, InNode, HasPoint
<1>3. BoundInv'
  <2>1. \A e \in FeasiblePoints(prob) : NegInf <= e.obj
    BY FeasibleType DEF NegInf, IInv, TypeInv
  <2> QED BY <2>1 DEF BoundInv, IsBound, Root
<1>4. KeptInv' /\ SoundAnswer'
  BY DEF KeptInv, Live, SoundAnswer
<1>5. DiskInv' /\ CheckpointWhole'
  BY DEF IInv, DiskInv, CheckpointWhole
<1> QED BY <1>1, <1>2, <1>3, <1>4, <1>5 DEF IInv

\* A resumed search has what the file has; another model's file is refused.
LEMMA ResumeKeeps == ASSUME IInv, Resume PROVE IInv'
<1>1. /\ disk # NoFile /\ disk' = disk /\ prob' \in Problems /\ opt' \in Options
      /\ dom' = RootDomain /\ cur' = Root /\ conflicts' = <<>>
      /\ why' = "none" /\ gapMet' = FALSE /\ ret' = "limits" /\ answer' = NoAnswer
      /\ pc' \in {"top", "refused"}
  BY DEF Resume, FreshSearch, Restore, Goto
<1>2. \A e \in FeasiblePoints(prob') : NegInf <= e.obj /\ Meets(e.x, Root.chain)
  BY <1>1, FeasibleType, RootType DEF NegInf
<1>3. /\ open' \in Seq(Nodes) /\ \A k \in DOMAIN open' : IsBound(open'[k], prob')
      /\ inc' \in FeasiblePoints(prob') \cup {NoInc}
      /\ pool' \in Seq(FeasiblePoints(prob'))
      /\ \A k \in DOMAIN pool' : inc' # NoInc /\ inc'.obj <= pool'[k].obj
  <2>1. CASE Refused(prob')
    <3>1. open' = <<Root>> /\ inc' = NoInc /\ pool' = <<>>
      BY <2>1 DEF Resume
    <3>2. <<Root>> \in Seq(Nodes) /\ DOMAIN <<Root>> = {1} /\ <<Root>>[1] = Root
      BY RootType, OneAndTwo
    <3> QED BY <1>2, <3>1, <3>2, EmptySeq DEF IsBound, Root
  <2>2. CASE ~Refused(prob')
    <3>1. /\ open' = disk.open /\ inc' = disk.inc /\ prob' = disk.prob
          /\ pool' = IF disk.inc = NoInc THEN <<>>
                     ELSE Offer(<<>>, disk.inc, PoolSize, opt'.diversity)
      BY <2>2 DEF Resume, Restore, Refused
    <3>2. /\ disk.open \in Seq(Nodes) /\ disk.inc \in FeasiblePoints(disk.prob) \cup {NoInc}
          /\ \A k \in DOMAIN disk.open : IsBound(disk.open[k], disk.prob)
      BY <1>1 DEF IInv, DiskInv
    <3>3. CASE disk.inc = NoInc
      BY <3>1, <3>2, <3>3, EmptySeq
    <3>4. CASE disk.inc # NoInc
      <4> DEFINE S == {disk.inc}
      <4>1. S \subseteq FeasiblePoints(prob') /\ S \in SUBSET Entries /\ disk.inc \in S
        BY <1>1, <3>1, <3>2, <3>4, FeasibleType
      <4>2. \A m \in S : m = disk.inc
        OBVIOUS
      <4> HIDE DEF S
      <4>3. <<>> \in Seq(S) /\ PoolSize \in Nat
        BY EmptySeq, TreeAssumption
      <4>4. Offer(<<>>, disk.inc, PoolSize, opt'.diversity) \in Seq(S)
        BY <4>1, <4>3, OfferType
      <4>5. pool' \in Seq(S)
        BY <3>1, <3>4, <4>4
      <4>6. \A k \in DOMAIN pool' : pool'[k] = disk.inc
        BY <4>2, <4>5, LenProperties, ElementOfSeq
      <4>7. disk.inc.obj \in Int
        BY <1>1, <3>1, <3>2, <3>4, FeasibleType
      <4>8. pool' \in Seq(FeasiblePoints(prob'))
        BY <4>1, <4>5, SeqMonotonic
      <4> QED BY <3>1, <3>2, <3>4, <4>6, <4>7, <4>8
    <3> QED BY <3>3, <3>4
  <2> QED BY <2>1, <2>2
<1>4. TypeInv'
  BY <1>1, <1>3, RootType, EmptySeq DEF TypeInv, HasPoint, Pcs, Feasible
<1>5. ControlInv' /\ DomainInv' /\ BoxInv' /\ PointInv' /\ NoConflictMet(prob)'
  BY <1>1 DEF ControlInv, DomainInv, BoxInv, PointInv, NoConflictMet, InNode, HasPoint
<1>6. BoundInv' /\ PoolInv'
  BY <1>1, <1>2, <1>3 DEF BoundInv, PoolInv, IsBound, Root
<1>7. KeptInv'
  <2>1. CASE Refused(prob')
    BY <2>1 DEF Resume, Goto, KeptInv, Live
  <2>2. CASE ~Refused(prob')
    <3>1. open' = disk.open /\ inc' = disk.inc /\ prob' = disk.prob
      BY <2>2 DEF Resume, Restore, Refused
    <3> QED BY <1>1, <3>1 DEF IInv, CheckpointWhole, KeptInv, Kept, Feasible
  <2> QED BY <2>1, <2>2
<1>8. DiskInv' /\ CheckpointWhole' /\ SoundAnswer'
  BY <1>1, DiskSame
<1> QED BY <1>4, <1>5, <1>6, <1>7, <1>8 DEF IInv
\* The final bound is at most each rounded bound and the incumbent's objective, and
\* is one of them.
LEMMA FinalBoundIs ==
  ASSUME TypeInv
  PROVE  /\ FinalBound \in Int
         /\ \A k \in DOMAIN open : FinalBound <= Rounded(open[k].bound)
         /\ inc # NoInc => FinalBound <= inc.obj
         /\ \/ \E k \in DOMAIN open : FinalBound = Rounded(open[k].bound)
            \/ FinalBound = IF inc = NoInc THEN Inf ELSE inc.obj
<1> DEFINE own == IF inc = NoInc THEN Inf ELSE inc.obj
           all == {Rounded(open[k].bound) : k \in DOMAIN open} \cup {own}
<1>1. open \in Seq(Nodes) /\ inc \in Feasible \cup {NoInc} /\ prob \in Problems
  BY DEF TypeInv
<1>2. \A k \in DOMAIN open : open[k].bound \in NegInf .. NoCutoff - 1
  <2>1. \A k \in DOMAIN open : open[k] \in Nodes
    BY <1>1, LenProperties, ElementOfSeq
  <2> QED BY <2>1 DEF Nodes
<1>3. \A k \in DOMAIN open : Rounded(open[k].bound) \in Int /\ Rounded(open[k].bound) >= NegInf
  BY <1>2, RoundedType
<1>4. own \in Int /\ own >= NegInf
  <2>1. \A f \in Feasible : f.obj \in 0 .. NoCutoff - 1
    BY <1>1, FeasibleType DEF Feasible
  <2>2. NoCutoff \in Nat
    BY TreeAssumption
  <2> QED BY <1>1, <2>1, <2>2 DEF Inf, NegInf
<1>5. NegInf \in Int
  BY DEF NegInf
<1>6. all \subseteq Int /\ all # {} /\ \A b \in all : NegInf <= b
  BY <1>3, <1>4, <1>5
<1>7. /\ \A k \in DOMAIN open : Rounded(open[k].bound) \in all
      /\ own \in all
      /\ \A b \in all : b = own \/ \E k \in DOMAIN open : b = Rounded(open[k].bound)
  OBVIOUS
<1>8. FinalBound = Min(all)
  BY DEF FinalBound
<1> HIDE DEF all
<1>9. Min(all) \in all /\ \A b \in all : Min(all) <= b
  BY <1>5, <1>6, MinIn
<1> QED BY <1>6, <1>7, <1>8, <1>9

\* Rounding is monotone.
LEMMA RoundedMonotone ==
  ASSUME NEW a \in NegInf .. NoCutoff - 1, NEW b \in NegInf .. NoCutoff - 1, a <= b
  PROVE  Rounded(a) <= Rounded(b)
<1>1. Rounded(a) \in Int /\ Rounded(b) \in Int /\ Rounded(b) >= NegInf
  BY RoundedType
<1>2. CASE a = NegInf
  BY <1>1, <1>2 DEF Rounded, NegInf
<1>3. CASE a # NegInf
  <2>1. a \in Nat /\ b \in Nat
    BY <1>3, TreeAssumption DEF NegInf
  <2>2. b <= Rounded(b) /\ Rounded(b) \in Int
    BY <2>1, RoundedBounds
  <2>3. PICK m \in Int : Rounded(b) = Step * m
    BY <2>1, RoundedBounds
  <2>4. a <= Step * m
    BY <2>1, <2>2, <2>3
  <2> QED BY <2>1, <2>3, <2>4, RoundedBelow
<1> QED BY <1>2, <1>3

\* The answer is read off the open nodes and the incumbent.
LEMMA ReportKeeps == ASSUME IInv, Report PROVE IInv'
<1>1. /\ pc = "report" /\ pc' = "done" /\ ~InNode
      /\ UNCHANGED <<prob, opt, dom, open, cur, lp, probe, inc, pool, conflicts, why, gapMet, disk, ret>>
  BY DEF Report, searchVars, Goto, InNode
<1>2. /\ answer'.status = Status /\ answer'.stoppedBy = why /\ answer'.x = inc
      /\ answer'.bound = IF Status = "infeasible" THEN Inf ELSE FinalBound
  BY DEF Report
<1>3. /\ TypeInv /\ prob \in Problems /\ inc \in Feasible \cup {NoInc} /\ open \in Seq(Nodes)
      /\ why = "none" => open = <<>> \/ gapMet
      /\ gapMet => /\ why = "none" /\ inc # NoInc /\ open # <<>>
                   /\ inc.obj - Rounded(OpenBound) <= GapSlack[inc.obj]
  BY <1>1 DEF IInv, TypeInv, ControlInv
<1>4. \A e \in Feasible : Covers(open, e) \/ (inc # NoInc /\ e.obj >= inc.obj - Margin)
  BY <1>1 DEF IInv, KeptInv, Kept, Live, ControlInv, NoAnswer
<1>5. \A f \in Feasible : f.obj \in 0 .. NoCutoff - 1 /\ f.obj \in Int /\ f # NoInc
  BY <1>3, FeasibleType DEF Feasible
<1>6. /\ FinalBound \in Int
      /\ \A k \in DOMAIN open : FinalBound <= Rounded(open[k].bound)
      /\ inc # NoInc => FinalBound <= inc.obj
      /\ \/ \E k \in DOMAIN open : FinalBound = Rounded(open[k].bound)
         \/ FinalBound = IF inc = NoInc THEN Inf ELSE inc.obj
  BY <1>3, FinalBoundIs
<1>7. \A k \in DOMAIN open : open[k].bound \in NegInf .. NoCutoff - 1
  <2>1. \A k \in DOMAIN open : open[k] \in Nodes
    BY <1>3, LenProperties, ElementOfSeq
  <2> QED BY <2>1 DEF Nodes
<1>8. Status = "infeasible" => Feasible = {}
  <2>1. SUFFICES ASSUME Status = "infeasible", NEW e \in Feasible PROVE FALSE
    OBVIOUS
  <2>2. inc = NoInc /\ open = <<>>
    BY <1>3, <2>1 DEF Status
  <2> QED BY <1>4, <2>2 DEF Covers
<1>9. ASSUME NEW e \in Feasible PROVE FinalBound - Margin <= e.obj
  <2>1. Margin \in Nat /\ e.obj \in Int
    BY <1>5, TreeAssumption
  <2>2. CASE Covers(open, e)
    <3>1. PICK k \in DOMAIN open : Meets(e.x, open[k].chain)
      BY <2>2 DEF Covers
    <3>2. open[k].bound <= e.obj
      BY <3>1 DEF IInv, BoundInv, IsBound, Feasible
    <3>3. Rounded(open[k].bound) <= e.obj /\ Rounded(open[k].bound) \in Int
      BY <1>3, <1>7, <3>2, RoundedIsBound, RoundedType DEF Feasible
    <3>4. FinalBound <= Rounded(open[k].bound)
      BY <1>6
    <3> QED BY <1>6, <2>1, <3>3, <3>4
  <2>3. CASE inc # NoInc /\ e.obj >= inc.obj - Margin
    <3>1. inc.obj \in Int /\ FinalBound <= inc.obj
      BY <1>3, <1>5, <1>6, <2>3
    <3> QED BY <1>6, <2>1, <2>3, <3>1
  <2> QED BY <1>4, <2>2, <2>3
<1>10. ASSUME Status = "optimal"
       PROVE  why = "none" /\ inc.obj - FinalBound <= GapSlack[inc.obj]
  <2>1. inc # NoInc /\ why = "none" /\ (open = <<>> \/ gapMet)
    BY <1>3, <1>10 DEF Status
  <2>2. inc.obj \in Int /\ GapSlack[inc.obj] \in Nat
    <3>1. NoCutoff \in Nat /\ GapSlack \in [0 .. NoCutoff -> Nat]
      BY TreeAssumption
    <3>2. inc.obj \in 0 .. NoCutoff
      BY <1>3, <1>5, <2>1, <3>1
    <3> QED BY <3>1, <3>2
  <2>3. CASE FinalBound = inc.obj
    BY <2>1, <2>2, <2>3
  <2>4. ASSUME NEW k \in DOMAIN open, FinalBound = Rounded(open[k].bound)
        PROVE  inc.obj - FinalBound <= GapSlack[inc.obj]
    <3>1. gapMet /\ open # <<>>
      BY <1>3, <2>1, <2>4
    <3>2. OpenBound \in NegInf .. NoCutoff - 1 /\ OpenBound <= open[k].bound
      BY <1>3, <2>4, <3>1, OpenBoundIn
    <3>3. Rounded(OpenBound) <= FinalBound /\ Rounded(OpenBound) \in Int
      BY <1>7, <2>4, <3>2, RoundedMonotone, RoundedType
    <3> QED BY <1>3, <1>6, <2>2, <3>1, <3>3
  <2> QED BY <1>6, <2>1, <2>3, <2>4
<1>11. SoundAnswer'
  <2> DEFINE best == {e.obj : e \in Feasible}
  <2>1. inc # NoInc => inc \in Feasible
    BY <1>3
  <2>2. Status # "infeasible" => FinalBound - Margin \in Int /\ \A v \in best : FinalBound - Margin <= v
    BY <1>6, <1>9, TreeAssumption
  <2>3. Status = "infeasible" => best = {}
    BY <1>8
  <2> QED BY <1>1, <1>2, <1>10, <2>1, <2>2, <2>3 DEF SoundAnswer, Feasible
<1>12. TypeInv' /\ ControlInv' /\ DomainInv' /\ BoxInv' /\ PointInv' /\ PoolInv' /\ NoConflictMet(prob)'
  BY <1>1 DEF IInv, TypeInv, ControlInv, DomainInv, BoxInv, PointInv, PoolInv, NoConflictMet,
              InNode, HasPoint, Pcs, Feasible
<1>13. BoundInv' /\ DiskInv' /\ CheckpointWhole'
  BY <1>1 DEF IInv, BoundInv, DiskInv, CheckpointWhole
<1>14. KeptInv'
  BY <1>1, <1>4 DEF KeptInv, Kept, Feasible
<1> QED BY <1>11, <1>12, <1>13, <1>14 DEF IInv

------------------------------------------------------------------------------
(* The theorems                                                            *)

\* Every step keeps the invariant.
LEMMA NextKeeps == IInv /\ [Next]_vars => IInv'
<1> SUFFICES ASSUME IInv, [Next]_vars PROVE IInv'
  OBVIOUS
<1>1. CASE Search
  BY <1>1, HeadKeeps, StopKeeps, PickNodeKeeps, PropagateFiresKeeps, PropagateInfeasibleKeeps,
     PropagateDoneKeeps, LearnKeeps, NodeInfeasibleKeeps, NodeSolvedKeeps, NodeStoppedKeeps,
     NodeFailedKeeps, NodeHeuristicsKeeps, NodeIntegralKeeps, NodeFractionalKeeps,
     DiveStepKeeps, DiveFindsKeeps, RootPumpKeeps, BranchKeeps, SaveCommitKeeps, ReportKeeps
  DEF Search
<1>2. CASE Environment
  BY <1>2, ClockKeeps, CrashKeeps, ResumeKeeps DEF Environment
<1>3. CASE Over \/ UNCHANGED vars
  BY <1>3, ClockKeeps DEF Over
<1> QED BY <1>1, <1>2, <1>3 DEF Next

\* The inductive invariant holds of every behaviour.
THEOREM Invariance == Spec => []IInv
<1> QED BY InitKeeps, NextKeeps, PTL DEF Spec

\* leave() gives back the root's box, so every node and every check of a conflict
\* starts from the model's own bounds.
THEOREM BoxIsRestored == Spec => []DomainsRestored
<1>1. IInv => DomainsRestored
  BY DEF IInv, DomainInv, DomainsRestored
<1> QED BY <1>1, Invariance, PTL

\* No feasible assignment better than the incumbent by more than the absolute gap
\* leaves the search: prune, conflict, limit or resume.
THEOREM SearchLosesNothing == Spec => []NothingLost
<1>1. IInv => NothingLost
  <2> SUFFICES ASSUME IInv, Live, NEW e \in FeasiblePoints(prob)
               PROVE  Covers(open \o Taken, e) \/ (inc # NoInc /\ e.obj >= inc.obj - Margin)
    BY DEF NothingLost
  <2>1. Kept(e)
    BY DEF IInv, KeptInv, Feasible
  <2>2. open \in Seq(Nodes) /\ cur \in Nodes
    BY DEF IInv, TypeInv
  <2> DEFINE taken == Taken
  <2>3. taken \in Seq(Nodes) /\ (InNode => ToSet(taken) = {cur})
    BY <2>2, OneAndTwo, EmptySeq DEF Taken, ToSet
  <2> HIDE DEF taken
  <2>4. open \o taken \in Seq(Nodes)
    BY <2>2, <2>3, ConcatProperties
  <2>5. ToSet(open \o taken) = ToSet(open) \cup ToSet(taken)
    BY <2>2, <2>3, ConcatMembers
  <2>6. Covers(open, e) \/ (InNode /\ Meets(e.x, cur.chain)) => Covers(open \o taken, e)
    BY <2>2, <2>3, <2>4, <2>5, CoversMembers
  <2> QED BY <2>1, <2>6 DEF Kept, taken
<1> QED BY <1>1, Invariance, PTL

\* A learned conflict is satisfied by no feasible assignment.
THEOREM ConflictsAreTrue == Spec => []ConflictsHold
<1>1. IInv => ConflictsHold
  BY DEF IInv, NoConflictMet, ConflictsHold
<1> QED BY <1>1, Invariance, PTL

\* At every moment the file holds a whole search, so a process killed anywhere can
\* be resumed from it without loss.
THEOREM FileIsWhole == Spec => []CheckpointWhole
<1>1. IInv => CheckpointWhole
  BY DEF IInv
<1> QED BY <1>1, Invariance, PTL

\* What run() answers is true of the model, whatever limit, gap target, crash or
\* resume there was on the way.
THEOREM AnswerIsSound == Spec => []SoundAnswer
<1>1. IInv => SoundAnswer
  BY DEF IInv
<1> QED BY <1>1, Invariance, PTL

------------------------------------------------------------------------------
(* The pool in its order                                                   *)

\* Removing at a position closes the gap.
LEMMA RemoveAtPlaces ==
  ASSUME NEW S, NEW s \in Seq(S), NEW k \in 1 .. Len(s)
  PROVE  \A i \in 1 .. Len(s) - 1 : RemoveAt(s, k)[i] = IF i < k THEN s[i] ELSE s[i + 1]
<1> DEFINE n == Len(s)
           a == SubSeq(s, 1, k - 1)
           b == SubSeq(s, k + 1, n)
<1>1. n \in Nat /\ k \in 1 .. n /\ \A i \in 1 .. n : s[i] \in S
  BY LenProperties, ElementOfSeq
<1> HIDE DEF n
<1>2. a \in Seq(S) /\ Len(a) = k - 1 /\ \A i \in 1 .. k - 1 : a[i] = s[i]
  <2>1. k - 1 \in Int /\ 1 \in Int /\ \A i \in 1 .. k - 1 : s[i] \in S
    BY <1>1
  <2>2. /\ a \in Seq(S) /\ Len(a) = IF 1 <= k - 1 THEN (k - 1) - 1 + 1 ELSE 0
        /\ \A i \in 1 .. (k - 1) - 1 + 1 : a[i] = s[1 + i - 1]
    BY <2>1, SubSeqProperties
  <2> HIDE DEF a
  <2>3. Len(a) = k - 1 /\ (k - 1) - 1 + 1 = k - 1 /\ \A i \in 1 .. k - 1 : 1 + i - 1 = i
    BY <1>1, <2>2
  <2> QED BY <2>2, <2>3
<1>3. b \in Seq(S) /\ Len(b) = n - k /\ \A i \in 1 .. n - k : b[i] = s[k + i]
  <2>1. k + 1 \in Int /\ n \in Int /\ \A i \in k + 1 .. n : s[i] \in S
    BY <1>1
  <2>2. /\ b \in Seq(S) /\ Len(b) = IF k + 1 <= n THEN n - (k + 1) + 1 ELSE 0
        /\ \A i \in 1 .. n - (k + 1) + 1 : b[i] = s[(k + 1) + i - 1]
    BY <2>1, SubSeqProperties
  <2> HIDE DEF b
  <2>3. n - (k + 1) + 1 = n - k /\ \A i \in 1 .. n - k : (k + 1) + i - 1 = k + i
    BY <1>1
  <2>4. Len(b) = n - k
    <3>1. CASE k + 1 <= n
      BY <2>2, <2>3, <3>1
    <3>2. CASE ~(k + 1 <= n)
      BY <1>1, <2>2, <3>2
    <3> QED BY <3>1, <3>2
  <2> QED BY <2>2, <2>3, <2>4
<1> HIDE DEF a, b
<1>4. RemoveAt(s, k) = a \o b
  BY DEF RemoveAt, a, b, n
<1>5. \A i \in 1 .. Len(a) + Len(b) : (a \o b)[i] = IF i <= Len(a) THEN a[i] ELSE b[i - Len(a)]
  BY <1>2, <1>3, ConcatProperties
<1>6. ASSUME NEW i \in 1 .. n - 1 PROVE RemoveAt(s, k)[i] = IF i < k THEN s[i] ELSE s[i + 1]
  <2>0. i \in 1 .. Len(a) + Len(b)
    BY <1>1, <1>2, <1>3
  <2>1. CASE i < k
    <3>1. i <= k - 1 /\ i \in 1 .. k - 1
      BY <1>1, <2>1
    <3> QED BY <1>2, <1>4, <1>5, <2>0, <2>1, <3>1
  <2>2. CASE ~(i < k)
    <3>1. ~(i <= k - 1) /\ i - (k - 1) \in 1 .. n - k /\ k + (i - (k - 1)) = i + 1
      BY <1>1, <2>2
    <3> QED BY <1>2, <1>3, <1>4, <1>5, <2>0, <2>2, <3>1
  <2> QED BY <2>1, <2>2
<1> QED BY <1>6 DEF n

\* Inserting at a position moves those behind it by one.
LEMMA InsertAtPlaces ==
  ASSUME NEW S, NEW s \in Seq(S), NEW e \in S, NEW k \in 1 .. Len(s) + 1
  PROVE  \A i \in 1 .. Len(s) + 1 :
           InsertAt(s, k, e)[i] = IF i < k THEN s[i] ELSE IF i = k THEN e ELSE s[i - 1]
<1> DEFINE n == Len(s)
           a == SubSeq(s, 1, k - 1)
           b == SubSeq(s, k, n)
           one == <<e>>
<1>1. n \in Nat /\ k \in 1 .. n + 1 /\ \A i \in 1 .. n : s[i] \in S
  BY LenProperties, ElementOfSeq
<1> HIDE DEF n
<1>2. a \in Seq(S) /\ Len(a) = k - 1 /\ \A i \in 1 .. k - 1 : a[i] = s[i]
  <2>1. k - 1 \in Int /\ 1 \in Int /\ \A i \in 1 .. k - 1 : s[i] \in S
    BY <1>1
  <2>2. /\ a \in Seq(S) /\ Len(a) = IF 1 <= k - 1 THEN (k - 1) - 1 + 1 ELSE 0
        /\ \A i \in 1 .. (k - 1) - 1 + 1 : a[i] = s[1 + i - 1]
    BY <2>1, SubSeqProperties
  <2> HIDE DEF a
  <2>3. Len(a) = k - 1 /\ (k - 1) - 1 + 1 = k - 1 /\ \A i \in 1 .. k - 1 : 1 + i - 1 = i
    BY <1>1, <2>2
  <2> QED BY <2>2, <2>3
<1>3. b \in Seq(S) /\ Len(b) = n - k + 1 /\ \A i \in 1 .. n - k + 1 : b[i] = s[k + i - 1]
  <2>1. k \in Int /\ n \in Int /\ \A i \in k .. n : s[i] \in S
    BY <1>1
  <2>2. /\ b \in Seq(S) /\ Len(b) = IF k <= n THEN n - k + 1 ELSE 0
        /\ \A i \in 1 .. n - k + 1 : b[i] = s[k + i - 1]
    BY <2>1, SubSeqProperties
  <2> HIDE DEF b
  <2>3. Len(b) = n - k + 1
    <3>1. CASE k <= n
      BY <2>2, <3>1
    <3>2. CASE ~(k <= n)
      BY <1>1, <2>2, <3>2
    <3> QED BY <3>1, <3>2
  <2> QED BY <2>2, <2>3
<1>4. one \in Seq(S) /\ Len(one) = 1 /\ one[1] = e
  BY OneAndTwo
<1> HIDE DEF a, b, one
<1> DEFINE c == a \o one
<1>5. c \in Seq(S) /\ Len(c) = k /\ \A i \in 1 .. k : c[i] = IF i < k THEN s[i] ELSE e
  <2>1. /\ c \in Seq(S) /\ Len(c) = Len(a) + Len(one)
        /\ \A i \in 1 .. Len(a) + Len(one) : c[i] = IF i <= Len(a) THEN a[i] ELSE one[i - Len(a)]
    BY <1>2, <1>4, ConcatProperties
  <2> HIDE DEF c
  <2>2. Len(a) + Len(one) = k /\ \A i \in 1 .. k : c[i] = IF i <= k - 1 THEN a[i] ELSE one[i - (k - 1)]
    BY <1>1, <1>2, <1>4, <2>1
  <2>3. ASSUME NEW i \in 1 .. k PROVE c[i] = IF i < k THEN s[i] ELSE e
    <3>1. CASE i < k
      <4>1. i <= k - 1 /\ i \in 1 .. k - 1
        BY <1>1, <3>1
      <4> QED BY <1>2, <2>2, <3>1, <4>1
    <3>2. CASE ~(i < k)
      <4>1. ~(i <= k - 1) /\ i - (k - 1) = 1
        BY <1>1, <3>2
      <4> QED BY <1>4, <2>2, <3>2, <4>1
    <3> QED BY <3>1, <3>2
  <2> QED BY <2>1, <2>2, <2>3
<1>6. InsertAt(s, k, e) = c \o b
  BY DEF InsertAt, a, b, one, c, n
<1> HIDE DEF c
<1>7. \A i \in 1 .. Len(c) + Len(b) : (c \o b)[i] = IF i <= Len(c) THEN c[i] ELSE b[i - Len(c)]
  BY <1>3, <1>5, ConcatProperties
<1>8. ASSUME NEW i \in 1 .. n + 1
      PROVE  InsertAt(s, k, e)[i] = IF i < k THEN s[i] ELSE IF i = k THEN e ELSE s[i - 1]
  <2>0. i \in 1 .. Len(c) + Len(b)
    BY <1>1, <1>3, <1>5
  <2>1. CASE i <= k
    <3>1. i \in 1 .. k
      BY <1>1, <2>1
    <3>2. InsertAt(s, k, e)[i] = IF i < k THEN s[i] ELSE e
      BY <1>5, <1>6, <1>7, <2>0, <2>1, <3>1
    <3>3. i < k \/ i = k
      BY <1>1, <2>1
    <3> QED BY <1>1, <3>2, <3>3
  <2>2. CASE ~(i <= k)
    <3>1. i - k \in 1 .. n - k + 1 /\ k + (i - k) - 1 = i - 1
      BY <1>1, <2>2
    <3>2. InsertAt(s, k, e)[i] = s[i - 1]
      BY <1>3, <1>5, <1>6, <1>7, <2>0, <2>2, <3>1
    <3>3. ~(i < k) /\ i # k
      BY <1>1, <2>2
    <3> QED BY <3>2, <3>3
  <2> QED BY <2>1, <2>2
<1> QED BY <1>8 DEF n

\* Best first, and one entry per assignment.
Ordered(p) == \A i, k \in DOMAIN p : i < k => p[i].obj <= p[k].obj /\ p[i].x # p[k].x

\* The assignment is a member, with an objective no worse.
Listed(p, e) == \E k \in DOMAIN p : p[k].x = e.x /\ p[k].obj <= e.obj

\* In an ordered pool the members no worse than an entry come first, and their count
\* says where they end.
LEMMA InsertPlace ==
  ASSUME NEW p \in Seq(Entries), Ordered(p), NEW e \in Entries
  PROVE  \E at \in 1 .. Len(p) + 1 :
           /\ Insert(p, e) = InsertAt(p, at, e)
           /\ \A i \in 1 .. Len(p) : i < at => p[i].obj <= e.obj
           /\ \A i \in 1 .. Len(p) : i >= at => p[i].obj > e.obj
<1> DEFINE n == Len(p)
           low == {k \in DOMAIN p : p[k].obj <= e.obj}
<1>1. n \in Nat /\ DOMAIN p = 1 .. n /\ \A i \in 1 .. n : p[i] \in Entries
  BY LenProperties, ElementOfSeq
<1>2. e.obj \in Nat /\ \A i \in 1 .. n : p[i].obj \in Nat
  BY <1>1 DEF Entries
<1>3. \A i \in 1 .. n : i \in low <=> p[i].obj <= e.obj
  BY <1>1
<1>4. low \in SUBSET (1 .. n)
  BY <1>1
<1>5. \A i, k \in 1 .. n : i < k /\ k \in low => i \in low
  BY <1>1, <1>2, <1>3 DEF Ordered
<1> HIDE DEF low, n
<1>6. \E c \in 0 .. n : low = 1 .. c
  <2>1. CASE low = {}
    BY <1>1, <2>1, 1 .. 0 = {}
  <2>2. CASE low # {}
    <3> DEFINE c == Max(low)
    <3>1. c \in low /\ \A y \in low : y <= c
      BY <1>1, <1>4, <2>2, MaxIn
    <3> HIDE DEF c
    <3>2. c \in 1 .. n
      BY <1>4, <3>1
    <3>3. \A i \in 1 .. c : i \in low
      <4>1. ASSUME NEW i \in 1 .. c PROVE i \in low
        <5>1. i \in 1 .. n /\ (i = c \/ i < c)
          BY <1>1, <3>2
        <5> QED BY <1>5, <3>1, <3>2, <5>1
      <4> QED BY <4>1
    <3>4. \A i \in low : i \in 1 .. c
      BY <1>4, <3>1, <3>2
    <3>5. low = 1 .. c
      BY <3>3, <3>4
    <3> QED BY <1>1, <3>2, <3>5
  <2> QED BY <2>1, <2>2
<1>7. PICK c \in 0 .. n : low = 1 .. c
  BY <1>6
<1>8. Cardinality(low) = c
  <2>1. 1 \in Int /\ c \in Int
    BY <1>1
  <2>2. Cardinality(1 .. c) = IF 1 > c THEN 0 ELSE c - 1 + 1
    BY <2>1, FS_Interval
  <2> QED BY <1>1, <1>7, <2>2
<1>9. Insert(p, e) = InsertAt(p, 1 + c, e)
  BY <1>8 DEF Insert, low
<1>10. 1 + c \in 1 .. n + 1
  BY <1>1
<1>11. \A i \in 1 .. n : (i < 1 + c => p[i].obj <= e.obj) /\ (i >= 1 + c => p[i].obj > e.obj)
  <2>1. SUFFICES ASSUME NEW i \in 1 .. n
                 PROVE (i < 1 + c => p[i].obj <= e.obj) /\ (i >= 1 + c => p[i].obj > e.obj)
    OBVIOUS
  <2>2. i \in low <=> i <= c
    BY <1>1, <1>7
  <2> QED BY <1>1, <1>2, <1>3, <2>2
<1> QED BY <1>9, <1>10, <1>11 DEF n

\* Taking an assignment out leaves the others in their order.
LEMMA WithoutRanks ==
  ASSUME NEW p \in Seq(Entries), Ordered(p), NEW x
  PROVE  /\ Without(p, x) \in Seq(Entries) /\ Ordered(Without(p, x))
         /\ Len(Without(p, x)) = IF Holders(p, x) = {} THEN Len(p) ELSE Len(p) - 1
         /\ \A j \in DOMAIN Without(p, x) : /\ Without(p, x)[j].x # x
                                            /\ \E i \in DOMAIN p : Without(p, x)[j] = p[i]
         /\ \A i \in DOMAIN p :
              p[i].x # x => \E j \in DOMAIN Without(p, x) : Without(p, x)[j] = p[i]
<1> DEFINE n == Len(p)
           q == Without(p, x)
<1>1. n \in Nat /\ DOMAIN p = 1 .. n /\ \A i \in 1 .. n : p[i] \in Entries
  BY LenProperties, ElementOfSeq
<1>2. \A i \in 1 .. n : i \in Holders(p, x) <=> p[i].x = x
  BY <1>1 DEF Holders
<1>3. CASE Holders(p, x) = {}
  <2>1. q = p
    BY <1>3 DEF Without
  <2> HIDE DEF q
  <2>2. \A i \in 1 .. n : p[i].x # x
    BY <1>2, <1>3
  <2> QED BY <1>1, <1>3, <2>1, <2>2 DEF q
<1>4. CASE Holders(p, x) # {}
  <2> DEFINE k == CHOOSE i \in Holders(p, x) : TRUE
  <2>1. k \in Holders(p, x)
    BY <1>4
  <2>2. q = RemoveAt(p, k)
    BY <1>4 DEF Without
  <2> HIDE DEF k
  <2>3. k \in 1 .. n /\ p[k].x = x
    BY <1>1, <1>2, <2>1 DEF Holders
  <2>4. /\ q \in Seq(Entries) /\ Len(q) = n - 1
        /\ \A i \in 1 .. n - 1 : q[i] = IF i < k THEN p[i] ELSE p[i + 1]
    BY <2>2, <2>3, RemoveAtMembers, RemoveAtPlaces
  <2> HIDE DEF q
  <2>5. DOMAIN q = 1 .. n - 1
    BY <2>4, LenProperties
  <2> DEFINE up(i) == IF i < k THEN i ELSE i + 1
  <2>6. \A i \in 1 .. n - 1 : up(i) \in 1 .. n /\ up(i) # k /\ q[i] = p[up(i)]
    BY <1>1, <2>3, <2>4
  <2>7. \A i, j \in 1 .. n - 1 : i < j => up(i) < up(j)
    BY <1>1, <2>3
  <2> HIDE DEF up
  <2>8. Ordered(q)
    BY <1>1, <2>5, <2>6, <2>7 DEF Ordered
  <2>9. \A i \in 1 .. n : i # k => p[i].x # x
    <3>1. SUFFICES ASSUME NEW i \in 1 .. n, i # k PROVE p[i].x # x
      OBVIOUS
    <3>2. i < k \/ k < i
      BY <1>1, <2>3, <3>1
    <3> QED BY <1>1, <2>3, <3>2 DEF Ordered
  <2>10. \A j \in DOMAIN q : q[j].x # x /\ \E i \in DOMAIN p : q[j] = p[i]
    BY <1>1, <2>5, <2>6, <2>9
  <2>11. \A i \in DOMAIN p : p[i].x # x => \E j \in DOMAIN q : q[j] = p[i]
    <3>1. SUFFICES ASSUME NEW i \in 1 .. n, i # k PROVE \E j \in 1 .. n - 1 : q[j] = p[i]
      BY <1>1, <2>3, <2>5
    <3>2. CASE i < k
      BY <1>1, <2>3, <2>4, <3>2, i \in 1 .. n - 1
    <3>3. CASE ~(i < k)
      <4>1. i - 1 \in 1 .. n - 1 /\ ~(i - 1 < k) /\ (i - 1) + 1 = i
        BY <1>1, <2>3, <3>1, <3>3
      <4> QED BY <2>4, <4>1
    <3> QED BY <3>2, <3>3
  <2> QED BY <1>4, <2>4, <2>8, <2>10, <2>11 DEF q
<1> QED BY <1>3, <1>4

\* An entry of a new assignment joins at its place.
LEMMA InsertRanks ==
  ASSUME NEW p \in Seq(Entries), Ordered(p), NEW e \in Entries, \A i \in DOMAIN p : p[i].x # e.x
  PROVE  /\ Insert(p, e) \in Seq(Entries) /\ Ordered(Insert(p, e))
         /\ Len(Insert(p, e)) = Len(p) + 1
         /\ \E j \in DOMAIN Insert(p, e) : Insert(p, e)[j] = e
         /\ \A i \in DOMAIN p : \E j \in DOMAIN Insert(p, e) : Insert(p, e)[j] = p[i]
         /\ \A j \in DOMAIN Insert(p, e) :
              Insert(p, e)[j] = e \/ \E i \in DOMAIN p : Insert(p, e)[j] = p[i]
         /\ p # <<>> => \E j \in {Len(p), Len(p) + 1} : Insert(p, e)[j] = p[Len(p)]
<1> DEFINE n == Len(p)
           q == Insert(p, e)
<1>1. /\ n \in Nat /\ DOMAIN p = 1 .. n /\ (p # <<>> => n >= 1)
      /\ \A i \in 1 .. n : p[i] \in Entries
  BY LenProperties, ElementOfSeq, EmptySeq
<1>2. e.obj \in Nat /\ \A i \in 1 .. n : p[i].obj \in Nat
  BY <1>1 DEF Entries
<1>3. PICK at \in 1 .. n + 1 :
        /\ q = InsertAt(p, at, e)
        /\ \A i \in 1 .. n : i < at => p[i].obj <= e.obj
        /\ \A i \in 1 .. n : i >= at => p[i].obj > e.obj
  BY InsertPlace
<1> HIDE DEF q
<1>4. /\ q \in Seq(Entries) /\ Len(q) = n + 1
      /\ \A i \in 1 .. n + 1 : q[i] = IF i < at THEN p[i] ELSE IF i = at THEN e ELSE p[i - 1]
  <2>1. InsertAt(p, at, e) \in Seq(Entries) /\ Len(InsertAt(p, at, e)) = n + 1
    BY InsertAtType
  <2>2. \A i \in 1 .. n + 1 :
          InsertAt(p, at, e)[i] = IF i < at THEN p[i] ELSE IF i = at THEN e ELSE p[i - 1]
    BY InsertAtPlaces
  <2> QED BY <1>3, <2>1, <2>2
<1> HIDE DEF n
<1>5. DOMAIN q = 1 .. n + 1
  BY <1>1, <1>4, LenProperties
<1>6. ASSUME NEW i \in 1 .. n + 1, NEW j \in 1 .. n + 1, i < j
      PROVE  q[i].obj <= q[j].obj /\ q[i].x # q[j].x
  <2>1. CASE j < at
    <3>1. i \in 1 .. n /\ j \in 1 .. n /\ i < at
      BY <1>1, <1>3, <1>6, <2>1
    <3>2. q[i] = p[i] /\ q[j] = p[j]
      BY <1>4, <2>1, <3>1
    <3> QED BY <1>1, <1>6, <3>1, <3>2 DEF Ordered
  <2>2. CASE j = at
    <3>1. i \in 1 .. n /\ i < at
      BY <1>1, <1>3, <1>6, <2>2
    <3>2. q[i] = p[i] /\ q[j] = e
      BY <1>4, <2>2, <3>1
    <3> QED BY <1>1, <1>3, <3>1, <3>2
  <2>3. CASE j > at
    <3>0. j - 1 \in 1 .. n /\ j - 1 >= at /\ ~(j < at) /\ j # at
      BY <1>1, <1>3, <2>3
    <3>1. q[j] = p[j - 1]
      BY <1>4, <3>0
    <3>2. CASE i < at
      <4>1. i \in 1 .. n /\ i < j - 1
        BY <1>1, <1>3, <3>0, <3>2
      <4>2. q[i] = p[i]
        BY <1>4, <3>2
      <4> QED BY <1>1, <3>0, <3>1, <4>1, <4>2 DEF Ordered
    <3>3. CASE i = at
      <4>1. q[i] = e
        BY <1>4, <3>3
      <4>2. e.obj <= p[j - 1].obj
        BY <1>2, <1>3, <3>0
      <4>3. p[j - 1].x # e.x
        BY <1>1, <3>0
      <4> QED BY <3>1, <4>1, <4>2, <4>3
    <3>4. CASE i > at
      <4>1. i - 1 \in 1 .. n /\ i - 1 < j - 1 /\ ~(i < at) /\ i # at
        BY <1>1, <1>3, <1>6, <3>4
      <4>2. q[i] = p[i - 1]
        BY <1>4, <4>1
      <4> QED BY <1>1, <3>0, <3>1, <4>1, <4>2 DEF Ordered
    <3> QED BY <1>3, <3>2, <3>3, <3>4
  <2> QED BY <1>3, <2>1, <2>2, <2>3
<1>7. Ordered(q)
  BY <1>5, <1>6 DEF Ordered
<1>8. q[at] = e /\ at \in DOMAIN q
  BY <1>1, <1>3, <1>4, <1>5
<1>9. \A i \in DOMAIN p : \E j \in DOMAIN q : q[j] = p[i]
  <2>1. SUFFICES ASSUME NEW i \in 1 .. n PROVE \E j \in 1 .. n + 1 : q[j] = p[i]
    BY <1>1, <1>5
  <2>2. CASE i < at
    BY <1>1, <1>4, <2>2, i \in 1 .. n + 1
  <2>3. CASE ~(i < at)
    <3>1. i + 1 \in 1 .. n + 1 /\ ~(i + 1 < at) /\ i + 1 # at /\ (i + 1) - 1 = i
      BY <1>1, <1>3, <2>3
    <3> QED BY <1>4, <3>1
  <2> QED BY <2>2, <2>3
<1>10. \A j \in DOMAIN q : q[j] = e \/ \E i \in DOMAIN p : q[j] = p[i]
  <2>1. SUFFICES ASSUME NEW j \in 1 .. n + 1 PROVE q[j] = e \/ \E i \in 1 .. n : q[j] = p[i]
    BY <1>1, <1>5
  <2>2. CASE j < at
    <3>1. j \in 1 .. n
      BY <1>1, <1>3, <2>2
    <3> QED BY <1>4, <2>2, <3>1
  <2>3. CASE j = at
    BY <1>4, <2>3
  <2>4. CASE j > at
    <3>1. j - 1 \in 1 .. n /\ ~(j < at) /\ j # at
      BY <1>1, <1>3, <2>4
    <3> QED BY <1>4, <3>1
  <2> QED BY <1>3, <2>2, <2>3, <2>4
<1>11. p # <<>> => \E j \in {n, n + 1} : q[j] = p[n]
  <2>1. SUFFICES ASSUME n >= 1 PROVE q[n] = p[n] \/ q[n + 1] = p[n]
    BY <1>1
  <2>2. CASE n < at
    <3>1. n \in 1 .. n + 1
      BY <1>1, <2>1
    <3> QED BY <1>4, <2>2, <3>1
  <2>3. CASE ~(n < at)
    <3>1. n + 1 \in 1 .. n + 1 /\ ~(n + 1 < at) /\ n + 1 # at /\ (n + 1) - 1 = n
      BY <1>1, <1>3, <2>3
    <3> QED BY <1>4, <3>1
  <2> QED BY <2>2, <2>3
<1> QED BY <1>4, <1>7, <1>8, <1>9, <1>10, <1>11 DEF q, n

\* What offer() does to a pool of the best: it stays in order and within its capacity,
\* no assignment it lists is lost but to better ones that fill it, and the worst member
\* of a full pool gets no worse.
LEMMA OfferRanks ==
  ASSUME NEW p \in Seq(Entries), Ordered(p), NEW e \in Entries, NEW capacity \in Nat \ {0},
         Len(p) <= capacity, NEW diversity, ~diversity,
         NEW q, q = Offer(p, e, capacity, diversity)
  PROVE  /\ q \in Seq(Entries) /\ Ordered(q) /\ Len(q) <= capacity
         /\ \A f \in Entries : f = e \/ Listed(p, f) =>
              Listed(q, f) \/ (Len(q) = capacity /\ q[Len(q)].obj <= f.obj)
         /\ Len(p) = capacity => Len(q) = capacity /\ q[Len(q)].obj <= p[Len(p)].obj
<1> DEFINE rest == Without(p, e.x)
           g == Insert(rest, e)
           n == Len(p)
<1>0. \A f \in Entries : f.obj \in Nat
  BY DEF Entries
<1>1. /\ n \in Nat /\ DOMAIN p = 1 .. n
      /\ \A i \in 1 .. n : p[i] \in Entries /\ p[i].obj \in Nat
  BY <1>0, LenProperties, ElementOfSeq
<1>2. e.obj \in Nat /\ capacity \in Nat /\ capacity >= 1 /\ n <= capacity
  BY <1>0
<1> HIDE DEF n
<1>3. CASE \E k \in Holders(p, e.x) : p[k].obj <= e.obj
  <2>1. q = p
    BY <1>3 DEF Offer
  <2>2. Listed(p, e)
    BY <1>3 DEF Listed, Holders
  <2>3. n = capacity => p[n].obj <= p[n].obj
    BY <1>1, <1>2
  <2> QED BY <1>2, <2>1, <2>2, <2>3 DEF n
<1>4. CASE ~ \E k \in Holders(p, e.x) : p[k].obj <= e.obj
  <2>1. q = IF Len(g) > capacity THEN EvictOne(g, diversity) ELSE g
    BY <1>4 DEF Offer
  <2> DEFINE old == Without(p, e.x)
  <2>2a. /\ old \in Seq(Entries) /\ Ordered(old)
        /\ Len(old) = IF Holders(p, e.x) = {} THEN Len(p) ELSE Len(p) - 1
    BY WithoutRanks
  <2>2b. /\ \A j \in DOMAIN old : old[j].x # e.x /\ \E i \in DOMAIN p : old[j] = p[i]
        /\ \A i \in DOMAIN p : p[i].x # e.x => \E j \in DOMAIN old : old[j] = p[i]
    BY WithoutRanks
  <2>2. /\ rest \in Seq(Entries) /\ Ordered(rest)
        /\ Len(rest) = IF Holders(p, e.x) = {} THEN n ELSE n - 1
        /\ \A j \in DOMAIN rest : rest[j].x # e.x /\ \E i \in DOMAIN p : rest[j] = p[i]
        /\ \A i \in DOMAIN p : p[i].x # e.x => \E j \in DOMAIN rest : rest[j] = p[i]
    BY <2>2a, <2>2b DEF n
  <2> HIDE DEF rest
  <2>3. /\ g \in Seq(Entries) /\ Ordered(g) /\ Len(g) = Len(rest) + 1
        /\ \E j \in DOMAIN g : g[j] = e
        /\ \A i \in DOMAIN rest : \E j \in DOMAIN g : g[j] = rest[i]
        /\ \A j \in DOMAIN g : g[j] = e \/ \E i \in DOMAIN rest : g[j] = rest[i]
        /\ rest # <<>> => \E j \in {Len(rest), Len(rest) + 1} : g[j] = rest[Len(rest)]
    BY <2>2, InsertRanks
  <2> HIDE DEF g
  <2>4. /\ Len(g) \in Nat /\ DOMAIN g = 1 .. Len(g) /\ Len(g) <= capacity + 1 /\ Len(g) >= 1
        /\ \A j \in 1 .. Len(g) : g[j] \in Entries /\ g[j].obj \in Nat
        /\ Holders(p, e.x) = {} => Len(g) = n + 1
        /\ Holders(p, e.x) # {} => Len(g) = n
    <3>1. Len(g) \in Nat /\ DOMAIN g = 1 .. Len(g)
      BY <2>3, LenProperties
    <3>2. \A j \in 1 .. Len(g) : g[j] \in Entries /\ g[j].obj \in Nat
      BY <1>0, <2>3, ElementOfSeq
    <3>3. Len(rest) \in Nat
      BY <2>2, LenProperties
    <3> QED BY <1>1, <1>2, <2>2, <2>3, <3>1, <3>2, <3>3
  <2>5. ASSUME NEW f \in Entries, f = e \/ Listed(p, f) PROVE Listed(g, f)
    <3>1. CASE f = e
      <4>1. PICK j \in DOMAIN g : g[j] = e
        BY <2>3
      <4>2. e.obj <= e.obj
        BY <1>2
      <4> QED BY <3>1, <4>1, <4>2 DEF Listed
    <3>2. ASSUME NEW k \in DOMAIN p, p[k].x = f.x, p[k].obj <= f.obj PROVE Listed(g, f)
      <4>1. CASE p[k].x = e.x
        <5>1. k \in Holders(p, e.x)
          BY <4>1 DEF Holders
        <5>2. e.obj <= f.obj /\ e.x = f.x
          <6>1. f.obj \in Nat
            BY DEF Entries
          <6>2. ~(p[k].obj <= e.obj)
            BY <1>4, <5>1
          <6> QED BY <1>1, <1>2, <3>2, <4>1, <6>1, <6>2
        <5> QED BY <2>3, <5>2 DEF Listed
      <4>2. CASE p[k].x # e.x
        <5>1. PICK j \in DOMAIN rest : rest[j] = p[k]
          BY <2>2, <4>2
        <5>2. PICK i \in DOMAIN g : g[i] = rest[j]
          BY <2>3
        <5> QED BY <3>2, <5>1, <5>2 DEF Listed
      <4> QED BY <4>1, <4>2
    <3> QED BY <2>5, <3>1, <3>2 DEF Listed
  <2>6. CASE Len(g) <= capacity
    <3>1. q = g
      BY <1>2, <2>1, <2>4, <2>6
    <3>2. ASSUME n = capacity PROVE Len(q) = capacity /\ q[Len(q)].obj <= p[n].obj
      <4>1. Holders(p, e.x) # {} /\ Len(g) = n
        <5>1. Len(g) \in Nat /\ Len(g) # n + 1
          <6>1. Len(g) \in Nat /\ n \in Nat /\ Len(g) <= capacity /\ n = capacity
            BY <1>1, <2>4, <2>6, <3>2
          <6> QED BY <6>1
        <5> QED BY <2>4, <5>1
      <4>2. PICK h \in Holders(p, e.x) : TRUE
        BY <4>1
      <4>3. h \in 1 .. n /\ p[h].x = e.x /\ ~(p[h].obj <= e.obj)
        BY <1>1, <1>4 DEF Holders
      <4>4. \A i \in 1 .. n : p[i].obj <= p[n].obj
        <5>1. SUFFICES ASSUME NEW i \in 1 .. n PROVE p[i].obj <= p[n].obj
          OBVIOUS
        <5>2. n \in 1 .. n /\ (i = n \/ i < n)
          BY <1>1, <1>2, <3>2
        <5> QED BY <1>1, <5>2 DEF Ordered
      <4>5. e.obj <= p[n].obj
        <5>1. p[h].obj <= p[n].obj /\ n \in 1 .. n
          BY <1>1, <4>3, <4>4
        <5> QED BY <1>1, <1>2, <4>3, <5>1
      <4>6. n \in DOMAIN g
        BY <1>1, <1>2, <2>4, <3>2, <4>1
      <4>7. g[n] = e \/ \E i \in DOMAIN p : g[n] = p[i]
        BY <2>2, <2>3, <4>6
      <4> QED BY <1>1, <3>1, <3>2, <4>1, <4>4, <4>5, <4>7
    <3> QED BY <2>3, <2>5, <2>6, <3>1, <3>2 DEF n
  <2>7. CASE ~(Len(g) <= capacity)
    <3>1. Len(g) = capacity + 1 /\ capacity \in 1 .. Len(g) /\ Len(g) \in 1 .. Len(g)
      <4>1. Len(g) \in Nat /\ Len(g) <= capacity + 1 /\ capacity \in Nat /\ capacity >= 1
        BY <1>2, <2>4
      <4>2. Len(g) = capacity + 1
        BY <2>7, <4>1
      <4> QED BY <4>1, <4>2
    <3>2. q = RemoveAt(g, Len(g))
      BY <1>2, <2>1, <2>4, <2>7 DEF EvictOne, Victim
    <3>3. /\ q \in Seq(Entries) /\ Len(q) = capacity
          /\ \A i \in 1 .. capacity : q[i] = g[i]
      <4>1. /\ q \in Seq(Entries) /\ Len(q) = Len(g) - 1
            /\ \A i \in 1 .. Len(g) - 1 : q[i] = IF i < Len(g) THEN g[i] ELSE g[i + 1]
        <5>1. Len(g) \in 1 .. Len(g)
          BY <3>1
        <5>2. RemoveAt(g, Len(g)) \in Seq(Entries) /\ Len(RemoveAt(g, Len(g))) = Len(g) - 1
          BY <2>3, <5>1, RemoveAtMembers
        <5>3. \A i \in 1 .. Len(g) - 1 :
                RemoveAt(g, Len(g))[i] = IF i < Len(g) THEN g[i] ELSE g[i + 1]
          BY <2>3, <5>1, RemoveAtPlaces
        <5> QED BY <3>2, <5>2, <5>3
      <4> QED BY <1>2, <3>1, <4>1
    <3>4. DOMAIN q = 1 .. capacity
      BY <3>3, LenProperties
    <3>5. Ordered(q)
      <4>1. SUFFICES ASSUME NEW i \in 1 .. capacity, NEW j \in 1 .. capacity, i < j
                     PROVE  q[i].obj <= q[j].obj /\ q[i].x # q[j].x
        BY <3>4 DEF Ordered
      <4>2. i \in DOMAIN g /\ j \in DOMAIN g
        BY <1>2, <2>4, <3>1
      <4>3. g[i].obj <= g[j].obj /\ g[i].x # g[j].x
        BY <2>3, <4>1, <4>2, Zenon DEF Ordered
      <4>4. q[i] = g[i] /\ q[j] = g[j]
        BY <3>3
      <4> QED BY <4>3, <4>4
    <3>6. q[capacity] = g[capacity] /\ g[capacity].obj <= g[capacity + 1].obj
      <4>1. /\ capacity \in DOMAIN g /\ capacity + 1 \in DOMAIN g /\ capacity < capacity + 1
            /\ capacity \in 1 .. capacity
        BY <1>2, <2>4, <3>1
      <4>2. g[capacity].obj <= g[capacity + 1].obj
        BY <2>3, <4>1, Zenon DEF Ordered
      <4> QED BY <3>3, <4>1, <4>2
    <3>7. ASSUME NEW f \in Entries, f = e \/ Listed(p, f)
          PROVE  Listed(q, f) \/ q[capacity].obj <= f.obj
      <4>1. Listed(g, f)
        BY <2>5, <3>7
      <4>2. PICK k \in DOMAIN g : g[k].x = f.x /\ g[k].obj <= f.obj
        BY <4>1 DEF Listed
      <4>3. CASE k <= capacity
        <5>1. k \in 1 .. capacity
          BY <1>2, <2>4, <4>3
        <5> QED BY <3>3, <3>4, <4>2, <5>1 DEF Listed
      <4>4. CASE ~(k <= capacity)
        <5>1. k = capacity + 1
          BY <2>4, <3>1, <4>4
        <5>2. f.obj \in Nat /\ g[capacity].obj \in Nat /\ g[capacity + 1].obj \in Nat
          BY <2>4, <3>1 DEF Entries
        <5> QED BY <3>6, <4>2, <5>1, <5>2
      <4> QED BY <4>3, <4>4
    <3>8. ASSUME n = capacity PROVE q[capacity].obj <= p[n].obj
      <4>1. Holders(p, e.x) = {}
        BY <1>1, <2>4, <3>1, <3>8
      <4>2. rest = p /\ rest # <<>>
        BY <1>1, <3>8, <4>1, EmptySeq DEF Without, rest
      <4>3. g[capacity] = p[n] \/ g[capacity + 1] = p[n]
        BY <2>3, <3>8, <4>2 DEF n
      <4>4. g[capacity].obj \in Nat
        BY <2>4, <3>1
      <4> QED BY <3>6, <4>3, <4>4
    <3>9. Len(q) <= capacity
      BY <3>3
    <3> QED BY <3>3, <3>5, <3>7, <3>8, <3>9 DEF n
  <2> QED BY <1>2, <2>4, <2>6, <2>7 DEF n
<1> QED BY <1>3, <1>4

\* A turn of finish()'s loop gives a pool.
LEMMA JoinType ==
  ASSUME NEW out \in Seq(Entries), NEW m \in Entries, NEW capacity, NEW limit
  PROVE  Join(out, m, capacity, limit) \in Seq(Entries)
BY AppendProperties DEF Join

\* finish() is a run over the members of the pool.
LEMMA JoinRun ==
  ASSUME NEW p \in Seq(Entries), NEW first \in Entries, NEW capacity \in Nat \ {0}, NEW limit
  PROVE  \E h \in [0 .. Len(p) -> Seq(Entries)] :
           /\ h[0] = <<first>>
           /\ \A k \in 1 .. Len(p) : h[k] = Join(h[k - 1], p[k], capacity, limit)
           /\ Finish(p, first, capacity, limit) = h[Len(p)]
<1> DEFINE n == Len(p)
           base == <<first>>
           V == Seq(Entries)
           Eq(f) == f = [s \in SUBSET (1 .. n) |->
                           IF s = {} THEN base
                           ELSE Join(f[s \ {Max(s)}], p[Max(s)], capacity, limit)]
           step == [q \in (1 .. n) \X V |-> Join(q[2], p[q[1]], capacity, limit)]
           iter == CHOOSE f : Eq(f)
<1>1. n \in Nat /\ DOMAIN p = 1 .. n /\ (\A k \in 1 .. n : p[k] \in Entries) /\ base \in V
  BY LenProperties, ElementOfSeq, OneAndTwo
<1>2. step \in [(1 .. n) \X V -> V]
  BY <1>1, JoinType
<1>3. PICK g \in [SUBSET (1 .. n) -> V] : IsFold(g, n, base, step)
  BY <1>1, <1>2, FoldExists
<1>4. Eq(g)
  <2> SUFFICES ASSUME NEW s \in SUBSET (1 .. n), s # {}
               PROVE  step[<<Max(s), g[s \ {Max(s)}]>>]
                        = Join(g[s \ {Max(s)}], p[Max(s)], capacity, limit)
    BY <1>3 DEF IsFold
  <2>1. Max(s) \in 1 .. n
    BY <1>1, MaxIn
  <2> HIDE DEF V
  <2> QED BY <2>1
<1>5. Eq(iter)
  BY <1>4, Zenon
<1>6. Finish(p, first, capacity, limit) = iter[1 .. n]
  <2>1. capacity # 0
    OBVIOUS
  <2> QED BY <1>1, <2>1, Zenon DEF FoldLeft, MapThenFoldSet, Finish
<1>7. iter[{}] = base /\ \A k \in 1 .. n : iter[1 .. k] = Join(iter[1 .. k - 1], p[k], capacity, limit)
  <2>1. iter[{}] = base
    BY <1>5
  <2>2. ASSUME NEW k \in 1 .. n
        PROVE  iter[1 .. k] = Join(iter[1 .. k - 1], p[k], capacity, limit)
    <3>1. /\ Max(1 .. k) = k /\ (1 .. k) \ {k} = 1 .. k - 1
          /\ 1 .. k \in SUBSET (1 .. n) /\ 1 .. k # {}
      BY <1>1, UpTo
    <3> HIDE DEF iter
    <3> QED BY <1>5, <3>1
  <2> QED BY <2>1, <2>2
<1> HIDE DEF iter, V
<1> DEFINE P == {k \in 0 .. n : iter[1 .. k] \in V}
<1>8. 0 \in P
  BY <1>1, <1>7, 1 .. 0 = {}
<1>9. \A k \in 0 .. n - 1 : k \in P => k + 1 \in P
  <2> SUFFICES ASSUME NEW k \in 0 .. n - 1, k \in P PROVE k + 1 \in P
    OBVIOUS
  <2>1. k + 1 \in 1 .. n /\ k + 1 \in 0 .. n /\ (k + 1) - 1 = k
    BY <1>1
  <2>2. iter[1 .. k + 1] = Join(iter[1 .. k], p[k + 1], capacity, limit)
    BY <1>7, <2>1
  <2>3. Join(iter[1 .. k], p[k + 1], capacity, limit) \in V
    BY <1>1, <2>1, JoinType DEF V
  <2> QED BY <2>1, <2>2, <2>3
<1> HIDE DEF P
<1>10. \A k \in 0 .. n : iter[1 .. k] \in V
  <2>1. n \in Nat
    BY <1>1
  <2>2. \A k \in 0 .. n : k \in P
    BY <1>8, <1>9, <2>1, Climb
  <2> QED BY <2>2 DEF P
<1> DEFINE h == [k \in 0 .. n |-> iter[1 .. k]]
<1>11. h \in [0 .. n -> V] /\ h[0] = base
  BY <1>1, <1>7, <1>10, 1 .. 0 = {}
<1>12. \A k \in 1 .. n : h[k] = Join(h[k - 1], p[k], capacity, limit)
  BY <1>1, <1>7
<1>13. Finish(p, first, capacity, limit) = h[n]
  BY <1>1, <1>6
<1> QED BY <1>11, <1>12, <1>13 DEF V

\* What finish() has taken from the first k members of the pool.
Taking(p, first, capacity, limit, out, k) ==
  /\ out \in Seq(Entries) /\ Len(out) \in 1 .. capacity /\ out[1] = first
  /\ \A m \in 1 .. Len(out) : out[m] = first \/ \E i \in 1 .. k : out[m] = p[i]
  /\ \A i \in 1 .. k : p[i].x # first.x /\ p[i].obj <= limit =>
       \/ \E m \in 1 .. Len(out) : out[m] = p[i]
       \/ Len(out) = capacity /\ out[Len(out)].obj <= p[i].obj
  /\ (\A i \in 1 .. k : p[i].obj <= limit) =>
       \/ Len(out) = capacity \/ Len(out) >= k + 1
       \/ Len(out) >= k /\ \E i \in 1 .. k : p[i].x = first.x

\* A turn takes the next member, or passes it for the incumbent again, too far from it,
\* or no better than what already fills the answer.
LEMMA JoinTakes ==
  ASSUME NEW p \in Seq(Entries), Ordered(p), NEW first \in Entries,
         \A i \in DOMAIN p : first.obj <= p[i].obj,
         NEW capacity \in Nat \ {0}, NEW limit \in Int,
         NEW k \in 1 .. Len(p), NEW out, Taking(p, first, capacity, limit, out, k - 1)
  PROVE  Taking(p, first, capacity, limit, Join(out, p[k], capacity, limit), k)
<1> DEFINE n == Len(p)
           q == Join(out, p[k], capacity, limit)
           l == Len(out)
<1>0. \A f \in Entries : f.obj \in Nat
  BY DEF Entries
<1>1. /\ n \in Nat /\ DOMAIN p = 1 .. n /\ k \in 1 .. n
      /\ \A i \in 1 .. n : p[i] \in Entries /\ p[i].obj \in Nat
  BY <1>0, LenProperties, ElementOfSeq
<1>2. first.obj \in Nat /\ capacity \in Nat /\ capacity >= 1
  BY <1>0
<1>3. /\ out \in Seq(Entries) /\ l \in 1 .. capacity /\ l \in Nat /\ l >= 1 /\ out[1] = first
      /\ \A m \in 1 .. l : out[m] = first \/ \E i \in 1 .. k - 1 : out[m] = p[i]
  BY <1>2 DEF Taking
<1>4. \A i \in 1 .. k - 1 : p[i].x # first.x /\ p[i].obj <= limit =>
        (\E m \in 1 .. l : out[m] = p[i]) \/ (l = capacity /\ out[l].obj <= p[i].obj)
  BY DEF Taking
<1>5. (\A i \in 1 .. k - 1 : p[i].obj <= limit) =>
        l = capacity \/ l >= k \/ (l >= k - 1 /\ \E i \in 1 .. k - 1 : p[i].x = first.x)
  <2>1. (k - 1) + 1 = k
    BY <1>1
  <2> QED BY <2>1 DEF Taking
<1> HIDE DEF n, l
<1>6. \A i \in 1 .. k : i \in 1 .. n /\ (i = k \/ i \in 1 .. k - 1)
  BY <1>1
<1>7. \A i \in 1 .. k - 1 : i \in 1 .. k /\ i \in 1 .. n /\ p[i].obj <= p[k].obj
  <2>1. SUFFICES ASSUME NEW i \in 1 .. k - 1 PROVE i \in 1 .. k /\ i \in 1 .. n /\ p[i].obj <= p[k].obj
    OBVIOUS
  <2>2. i \in 1 .. k /\ i \in 1 .. n /\ i < k
    BY <1>1
  <2> QED BY <1>1, <2>2, Zenon DEF Ordered
<1>8. CASE l < capacity /\ p[k].x # first.x /\ p[k].obj <= limit
  <2>1. q = Append(out, p[k])
    BY <1>3, <1>8 DEF Join, l
  <2> HIDE DEF q
  <2>2. /\ q \in Seq(Entries) /\ Len(q) = l + 1 /\ q[l + 1] = p[k]
        /\ \A m \in 1 .. l : q[m] = out[m]
    BY <1>1, <1>3, <2>1, AppendProperties DEF l
  <2>3. Len(q) \in 1 .. capacity /\ q[1] = first
    BY <1>2, <1>3, <1>8, <2>2
  <2>4. \A m \in 1 .. l + 1 : m \in 1 .. l \/ m = l + 1
    BY <1>3
  <2>5. ASSUME NEW m \in 1 .. l + 1 PROVE q[m] = first \/ \E i \in 1 .. k : q[m] = p[i]
    <3>1. CASE m = l + 1
      BY <1>1, <2>2, <3>1, k \in 1 .. k
    <3>2. CASE m \in 1 .. l
      BY <1>3, <1>7, <2>2, <3>2
    <3> QED BY <2>4, <3>1, <3>2
  <2>6. ASSUME NEW i \in 1 .. k, p[i].x # first.x, p[i].obj <= limit
        PROVE  \E m \in 1 .. l + 1 : q[m] = p[i]
    <3>1. CASE i = k
      BY <1>3, <2>2, <3>1, l + 1 \in 1 .. l + 1
    <3>2. CASE i \in 1 .. k - 1
      <4>1. PICK m \in 1 .. l : out[m] = p[i]
        BY <1>2, <1>3, <1>4, <1>8, <2>6, <3>2
      <4>2. m \in 1 .. l + 1
        BY <1>3
      <4> QED BY <2>2, <4>1, <4>2
    <3> QED BY <1>6, <3>1, <3>2
  <2>7. ASSUME \A i \in 1 .. k : p[i].obj <= limit
        PROVE  l + 1 = capacity \/ l + 1 >= k + 1 \/ (l + 1 >= k /\ \E i \in 1 .. k : p[i].x = first.x)
    <3>1. l >= k \/ (l >= k - 1 /\ \E i \in 1 .. k - 1 : p[i].x = first.x)
      BY <1>2, <1>3, <1>5, <1>7, <1>8, <2>7
    <3>2. CASE l >= k
      BY <1>1, <1>3, <3>2
    <3>3. CASE l >= k - 1 /\ \E i \in 1 .. k - 1 : p[i].x = first.x
      BY <1>1, <1>3, <1>7, <3>3
    <3> QED BY <3>1, <3>2, <3>3
  <2>8. Taking(p, first, capacity, limit, q, k)
    BY <2>2, <2>3, <2>5, <2>6, <2>7 DEF Taking
  <2> QED BY <2>8 DEF q
<1>9. CASE ~(l < capacity /\ p[k].x # first.x /\ p[k].obj <= limit)
  <2>1. q = out
    BY <1>3, <1>9 DEF Join, l
  <2> HIDE DEF q
  <2>2. ASSUME NEW m \in 1 .. l PROVE out[m] = first \/ \E i \in 1 .. k : out[m] = p[i]
    BY <1>3, <1>7
  <2>3. ASSUME NEW i \in 1 .. k, p[i].x # first.x, p[i].obj <= limit
        PROVE  (\E m \in 1 .. l : out[m] = p[i]) \/ (l = capacity /\ out[l].obj <= p[i].obj)
    <3>1. CASE i = k
      <4>1. l = capacity
        BY <1>2, <1>3, <1>9, <2>3, <3>1
      <4>2. l \in 1 .. l
        BY <1>3
      <4>3. out[l] = first \/ \E h \in 1 .. k - 1 : out[l] = p[h]
        BY <1>3, <4>2
      <4>4. first.obj <= p[k].obj
        BY <1>1
      <4>5. out[l].obj <= p[k].obj
        BY <1>7, <4>3, <4>4
      <4> QED BY <3>1, <4>1, <4>5
    <3>2. CASE i \in 1 .. k - 1
      BY <1>4, <2>3, <3>2
    <3> QED BY <1>6, <3>1, <3>2
  <2>4. ASSUME \A i \in 1 .. k : p[i].obj <= limit
        PROVE  l = capacity \/ l >= k + 1 \/ (l >= k /\ \E i \in 1 .. k : p[i].x = first.x)
    <3>1. k \in 1 .. k
      BY <1>1
    <3>2. l = capacity \/ p[k].x = first.x
      BY <1>2, <1>3, <1>9, <2>4, <3>1
    <3>3. l = capacity \/ l >= k \/ (l >= k - 1 /\ \E i \in 1 .. k - 1 : p[i].x = first.x)
      BY <1>5, <1>7, <2>4
    <3>4. CASE l >= k /\ p[k].x = first.x
      BY <3>1, <3>4
    <3>5. ASSUME NEW i \in 1 .. k - 1, p[i].x = first.x, p[k].x = first.x PROVE FALSE
      <4>1. i \in DOMAIN p /\ k \in DOMAIN p /\ i < k
        BY <1>1
      <4> QED BY <3>5, <4>1, Zenon DEF Ordered
    <3> QED BY <3>2, <3>3, <3>4, <3>5
  <2>5. Taking(p, first, capacity, limit, out, k)
    BY <1>3, <2>2, <2>3, <2>4 DEF Taking, l
  <2> QED BY <2>1, <2>5 DEF q
<1> QED BY <1>8, <1>9

\* What finish() answers with: the incumbent leads, a member within the gap is there or
\* the answer is full of better ones, and a full pool within the gap fills it.
LEMMA FinishRanks ==
  ASSUME NEW p \in Seq(Entries), Ordered(p), NEW first \in Entries,
         \A i \in DOMAIN p : first.obj <= p[i].obj,
         NEW capacity \in Nat \ {0}, NEW limit \in Int,
         NEW f, f = Finish(p, first, capacity, limit)
  PROVE  /\ f \in Seq(Entries) /\ Len(f) \in 1 .. capacity /\ f[1] = first
         /\ \A i \in 1 .. Len(p) : p[i].x # first.x /\ p[i].obj <= limit =>
              \/ \E m \in 1 .. Len(f) : f[m] = p[i]
              \/ Len(f) = capacity /\ f[Len(f)].obj <= p[i].obj
         /\ Len(p) = capacity /\ (\A i \in 1 .. Len(p) : p[i].obj <= limit) =>
              Len(f) = capacity /\ f[Len(f)].obj <= p[Len(p)].obj
<1> DEFINE n == Len(p)
<1>0. \A g \in Entries : g.obj \in Nat
  BY DEF Entries
<1>1. /\ n \in Nat /\ DOMAIN p = 1 .. n /\ \A i \in 1 .. n : p[i] \in Entries /\ p[i].obj \in Nat
  BY <1>0, LenProperties, ElementOfSeq
<1>2. first.obj \in Nat /\ capacity \in Nat /\ capacity >= 1
  BY <1>0
<1>3. PICK h \in [0 .. n -> Seq(Entries)] :
        /\ h[0] = <<first>>
        /\ \A k \in 1 .. n : h[k] = Join(h[k - 1], p[k], capacity, limit)
        /\ Finish(p, first, capacity, limit) = h[n]
  <2>1. p \in Seq(Entries) /\ first \in Entries /\ capacity \in Nat \ {0}
    OBVIOUS
  <2>2. \E h \in [0 .. Len(p) -> Seq(Entries)] :
          /\ h[0] = <<first>>
          /\ \A k \in 1 .. Len(p) : h[k] = Join(h[k - 1], p[k], capacity, limit)
          /\ Finish(p, first, capacity, limit) = h[Len(p)]
    BY <2>1, JoinRun
  <2> QED BY <2>2
<1> HIDE DEF n
<1> DEFINE P == {k \in 0 .. n : Taking(p, first, capacity, limit, h[k], k)}
<1>4. 0 \in P
  <2> DEFINE out == <<first>>
  <2>1. out \in Seq(Entries) /\ Len(out) = 1 /\ out[1] = first
    BY OneAndTwo
  <2> HIDE DEF out
  <2>2. 1 .. 0 = {} /\ 1 \in 1 .. capacity /\ \A m \in 1 .. 1 : m = 1
    BY <1>2
  <2>3. Taking(p, first, capacity, limit, out, 0)
    BY <2>1, <2>2 DEF Taking
  <2> QED BY <1>1, <1>3, <2>3 DEF out
<1>5. ASSUME NEW k \in 0 .. n - 1, k \in P PROVE k + 1 \in P
  <2>1. k + 1 \in 1 .. Len(p) /\ k + 1 \in 0 .. n /\ (k + 1) - 1 = k
    BY <1>1 DEF n
  <2>2. Taking(p, first, capacity, limit, h[k], (k + 1) - 1)
    BY <1>5, <2>1
  <2>3. Taking(p, first, capacity, limit, Join(h[k], p[k + 1], capacity, limit), k + 1)
    BY <2>1, <2>2, JoinTakes
  <2>4. h[k + 1] = Join(h[k], p[k + 1], capacity, limit)
    BY <1>3, <2>1 DEF n
  <2> QED BY <2>1, <2>3, <2>4
<1> HIDE DEF P
<1>6. n \in P
  BY <1>1, <1>4, <1>5, ClimbTo
<1>7. Taking(p, first, capacity, limit, f, n)
  BY <1>3, <1>6 DEF P
<1>8. /\ f \in Seq(Entries) /\ Len(f) \in 1 .. capacity /\ f[1] = first
      /\ \A m \in 1 .. Len(f) : f[m] = first \/ \E i \in 1 .. n : f[m] = p[i]
  BY <1>7 DEF Taking
<1>9. \A i \in 1 .. n : p[i].x # first.x /\ p[i].obj <= limit =>
        (\E m \in 1 .. Len(f) : f[m] = p[i]) \/ (Len(f) = capacity /\ f[Len(f)].obj <= p[i].obj)
  BY <1>7 DEF Taking
<1>10. ASSUME n = capacity, \A i \in 1 .. n : p[i].obj <= limit
       PROVE  Len(f) = capacity /\ f[Len(f)].obj <= p[n].obj
  <2>1. Len(f) = capacity \/ Len(f) >= n
    <3>1. Len(f) = capacity \/ Len(f) >= n + 1 \/ Len(f) >= n
      BY <1>7, <1>10 DEF Taking
    <3> QED BY <1>1, <1>2, <1>8, <3>1
  <2>2. Len(f) = capacity
    BY <1>2, <1>8, <1>10, <2>1
  <2>3. Len(f) \in 1 .. Len(f) /\ n \in 1 .. n
    BY <1>2, <1>10, <2>2
  <2>4. f[Len(f)] = first \/ \E i \in 1 .. n : f[Len(f)] = p[i]
    BY <1>8, <2>3
  <2>5. first.obj <= p[n].obj
    BY <1>1, <2>3
  <2>6. ASSUME NEW i \in 1 .. n PROVE p[i].obj <= p[n].obj
    <3>1. CASE i = n
      BY <1>1, <3>1
    <3>2. CASE i # n
      <4>1. i \in DOMAIN p /\ n \in DOMAIN p /\ i < n
        BY <1>1, <2>3, <3>2
      <4> QED BY <4>1, Zenon DEF Ordered
    <3> QED BY <3>1, <3>2
  <2> QED BY <2>2, <2>4, <2>5, <2>6
<1> QED BY <1>8, <1>9, <1>10 DEF n

------------------------------------------------------------------------------
(* The invariant of the pool                                               *)

\* A first search for a complete pool of the best.
Filling == runs = 1 /\ opt.complete /\ ~opt.diversity /\ PoolSize > 0

PoolFull == Cutoff(pool, PoolSize, opt.diversity)

\* No better than the worst member of a full pool, or outside the gap of a solution no
\* better than the incumbent: what is so stays so, whether the gap's limit tightens or not.
Beyond(e) ==
  \/ e.obj >= PoolFull - Margin
  \/ inc # NoInc /\ \E g \in Feasible : g.obj >= inc.obj /\ e.obj >= GapLimit(g) - Margin

\* Where a feasible assignment is: ahead, in the pool, or past what it may still take.
Placed(e) ==
  \/ Covers(open, e)
  \/ InNode /\ Meets(e.x, cur.chain)
  \/ Listed(pool, e)
  \/ Beyond(e)

RankInv ==
  /\ runs \in Nat \ {0}
  /\ gapMet => ~opt.complete
  /\ Filling => Ordered(pool) /\ Len(pool) <= PoolSize
  /\ Filling /\ Live => \A e \in Feasible : Placed(e)
  /\ PoolIsBest

\* The cutoff of a full pool is a number.
LEMMA CutoffType ==
  ASSUME NEW p \in Seq(Entries), NEW diversity PROVE Cutoff(p, PoolSize, diversity) \in Int
<1>1. NoCutoff \in Nat /\ PoolSize \in Nat
  BY TreeAssumption
<1>2. CASE diversity \/ PoolSize = 0 \/ Len(p) < PoolSize
  BY <1>1, <1>2 DEF Cutoff
<1>3. CASE ~(diversity \/ PoolSize = 0 \/ Len(p) < PoolSize)
  <2>1. Len(p) \in Nat
    BY LenProperties
  <2>2. Len(p) \in 1 .. Len(p)
    BY <1>1, <1>3, <2>1
  <2>3. p[Len(p)] \in Entries
    BY <2>2, ElementOfSeq
  <2>4. p[Len(p)].obj \in Int
    BY <2>3 DEF Entries
  <2> QED BY <1>3, <2>4 DEF Cutoff, Last
<1> QED BY <1>2, <1>3

\* It only falls as points are offered.
LEMMA CutoffFalls ==
  ASSUME NEW p \in Seq(Entries), NEW q \in Seq(Entries), NEW diversity,
         \A i \in DOMAIN q : q[i].obj <= NoCutoff,
         Len(p) <= PoolSize, Len(q) <= PoolSize,
         Len(p) = PoolSize => Len(q) = PoolSize /\ q[Len(q)].obj <= p[Len(p)].obj
  PROVE  Cutoff(q, PoolSize, diversity) <= Cutoff(p, PoolSize, diversity)
<1> DEFINE old == Cutoff(p, PoolSize, diversity)
           new == Cutoff(q, PoolSize, diversity)
<1>0. NoCutoff \in Nat /\ PoolSize \in Nat /\ Len(p) \in Nat /\ Len(q) \in Nat
  BY TreeAssumption, LenProperties
<1>1. CASE diversity \/ PoolSize = 0
  BY <1>0, <1>1 DEF Cutoff
<1>2. CASE ~diversity /\ PoolSize # 0 /\ Len(p) < PoolSize
  <2>1. old = NoCutoff
    BY <1>2 DEF Cutoff
  <2>2. CASE Len(q) < PoolSize
    BY <1>0, <2>1, <2>2 DEF Cutoff
  <2>3. CASE ~(Len(q) < PoolSize)
    <3>1. Len(q) \in DOMAIN q
      <4>1. Len(q) \in 1 .. Len(q)
        BY <1>0, <1>2, <2>3
      <4> QED BY <4>1, LenProperties
    <3>2. q[Len(q)].obj <= NoCutoff
      BY <3>1
    <3>3. new = q[Len(q)].obj
      BY <1>2, <2>3 DEF Cutoff, Last
    <3> QED BY <2>1, <3>2, <3>3
  <2> QED BY <2>2, <2>3
<1>3. CASE ~diversity /\ PoolSize # 0 /\ ~(Len(p) < PoolSize)
  <2>1. Len(p) = PoolSize
    BY <1>0, <1>3
  <2>2. Len(q) = PoolSize /\ q[Len(q)].obj <= p[Len(p)].obj
    BY <2>1
  <2>3. ~(Len(q) < PoolSize)
    BY <1>0, <2>2
  <2> QED BY <1>3, <2>2, <2>3 DEF Cutoff, Last
<1> QED BY <1>1, <1>2, <1>3

\* What gap a solution gives is a number.
LEMMA GapLimitType ==
  ASSUME TypeInv, NEW g \in Feasible
  PROVE  g.obj \in 0 .. NoCutoff /\ g.obj \in Int /\ GapLimit(g) \in Int
<1>1. prob \in Problems
  BY DEF TypeInv
<1>2. g.obj \in 0 .. NoCutoff - 1 /\ NoCutoff \in Nat
  BY <1>1, FeasibleType, TreeAssumption DEF Feasible
<1>3. g.obj \in 0 .. NoCutoff /\ g.obj \in Int
  BY <1>2
<1>4. PoolSlack[g.obj] \in Nat
  BY <1>3, TreeAssumption
<1> QED BY <1>3, <1>4 DEF GapLimit

\* What an offer does to the pool of a first search: it stays in order, the point offered
\* and what was placed are placed, and so is a worse point of the same assignment.
LEMMA OfferPlaces ==
  ASSUME TypeInv, PoolInv, Filling, Ordered(pool), Len(pool) <= PoolSize,
         NEW e \in Feasible, OfferIncumbent(e), UNCHANGED <<prob, opt>>
  PROVE  /\ Ordered(pool') /\ Len(pool') <= PoolSize
         /\ \A f \in Feasible :
              (f.x = e.x /\ e.obj <= f.obj) \/ Listed(pool, f) \/ Beyond(f) =>
                Listed(pool', f) \/ Beyond(f)'
<1>1. /\ prob \in Problems /\ inc \in Feasible \cup {NoInc} /\ pool \in Seq(Feasible)
      /\ ~opt.diversity
  BY DEF TypeInv, Filling
<1>2. \A f \in Feasible : f \in Entries /\ f.obj \in 0 .. NoCutoff /\ f.obj \in Int
  BY <1>1, FeasibleType, GapLimitType DEF Feasible
<1>3. NoCutoff \in Nat /\ PoolSize \in Nat \ {0} /\ Margin \in Nat
  BY TreeAssumption DEF Filling
<1>4. /\ inc' \in Feasible /\ inc' # NoInc
      /\ inc # NoInc => inc'.obj <= inc.obj
      /\ pool' \in Seq(Feasible)
  BY OfferKeeps
<1>5. pool \in Seq(Entries) /\ pool' \in Seq(Entries) /\ e \in Entries
  BY <1>1, <1>2, <1>4, SeqMonotonic
<1>6. pool' = Offer(pool, e, PoolSize, opt.diversity)
  BY DEF OfferIncumbent
<1> DEFINE q == pool'
           full == Cutoff(q, PoolSize, opt.diversity)
<1>7. /\ Ordered(q) /\ Len(q) <= PoolSize
      /\ \A f \in Entries : f = e \/ Listed(pool, f) =>
           Listed(q, f) \/ (Len(q) = PoolSize /\ q[Len(q)].obj <= f.obj)
      /\ Len(pool) = PoolSize => Len(q) = PoolSize /\ q[Len(q)].obj <= pool[Len(pool)].obj
  BY <1>1, <1>3, <1>5, <1>6, OfferRanks
<1>8. \A i \in DOMAIN q : q[i] \in Feasible /\ q[i].obj <= NoCutoff /\ q[i].obj \in Int
  <2>1. \A i \in DOMAIN q : q[i] \in Feasible
    BY <1>4, LenProperties, ElementOfSeq
  <2> QED BY <1>2, <1>3, <2>1
<1>9. full \in Int /\ PoolFull \in Int /\ full <= PoolFull
  BY <1>5, <1>7, <1>8, CutoffType, CutoffFalls DEF PoolFull
<1>10. \A f : Beyond(f)' <=>
         \/ f.obj >= full - Margin
         \/ \E g \in Feasible : g.obj >= inc'.obj /\ f.obj >= GapLimit(g) - Margin
  BY <1>4 DEF Beyond, PoolFull, Feasible, GapLimit, Cutoff
<1>11. ASSUME NEW f \in Feasible, f = e \/ Listed(pool, f)
       PROVE  Listed(q, f) \/ f.obj >= full - Margin
  <2>1. f \in Entries /\ f.obj \in Int
    BY <1>2
  <2>2. CASE Listed(q, f)
    BY <2>2
  <2>3. CASE Len(q) = PoolSize /\ q[Len(q)].obj <= f.obj
    <3>1. full = q[Len(q)].obj
      BY <1>1, <1>3, <2>3 DEF Cutoff, Last
    <3> HIDE DEF q, full
    <3> QED BY <1>3, <1>9, <2>1, <2>3, <3>1
  <2> QED BY <1>7, <1>11, <2>1, <2>2, <2>3
<1> HIDE DEF full
<1>12. ASSUME NEW f \in Feasible, f.x = e.x, e.obj <= f.obj
       PROVE  Listed(q, f) \/ f.obj >= full - Margin
  <2>1. e.obj \in Int /\ f.obj \in Int
    BY <1>2
  <2>2. CASE Listed(q, e)
    <3>1. PICK k \in DOMAIN q : q[k].x = e.x /\ q[k].obj <= e.obj
      BY <2>2 DEF Listed
    <3>2. q[k].obj <= f.obj
      BY <1>8, <1>12, <2>1, <3>1
    <3> QED BY <1>12, <3>1, <3>2 DEF Listed
  <2>3. CASE e.obj >= full - Margin
    BY <1>3, <1>9, <1>12, <2>1, <2>3
  <2> QED BY <1>11, <2>2, <2>3
<1>13. ASSUME NEW f \in Feasible, Beyond(f) PROVE Beyond(f)'
  <2>1. CASE f.obj >= PoolFull - Margin
    <3>1. f.obj >= full - Margin
      BY <1>2, <1>3, <1>9, <2>1
    <3> QED BY <1>10, <3>1
  <2>2. CASE inc # NoInc /\ \E g \in Feasible : g.obj >= inc.obj /\ f.obj >= GapLimit(g) - Margin
    <3>1. PICK g \in Feasible : g.obj >= inc.obj /\ f.obj >= GapLimit(g) - Margin
      BY <2>2
    <3>2. g.obj \in Int /\ inc.obj \in Int /\ inc'.obj \in Int /\ inc'.obj <= inc.obj
      BY <1>1, <1>2, <1>4, <2>2
    <3>3. g.obj >= inc'.obj
      BY <3>1, <3>2
    <3> QED BY <1>10, <3>1, <3>3
  <2> QED BY <1>13, <2>1, <2>2 DEF Beyond
<1> QED BY <1>7, <1>10, <1>11, <1>12, <1>13

------------------------------------------------------------------------------
(* Every step keeps the invariant of the pool                              *)

\* PoolIsBest, said of one assignment.
LEMMA BestOfEach ==
  PoolIsBest <=>
    (Promised /\ runs = 1 =>
       \A e \in FeasiblePoints(prob) :
         ~ /\ \A f \in FeasiblePoints(prob) : f.obj >= answer.x.obj => e.obj < GapLimit(f) - Margin
           /\ ~ \E m \in ToSet(answer.pool) : m.x = e.x /\ m.obj <= e.obj
           /\ Len(answer.pool) < PoolSize \/ e.obj < Last(answer.pool).obj - Margin)
BY DEF PoolIsBest, Missing

\* Without an answer there is nothing to promise.
LEMMA NoneBest ==
  ASSUME pc' # "done" \/ answer'.status # "optimal"
  PROVE  PoolIsBest'
BY DEF PoolIsBest, Promised

\* A step of the search keeps the invariant if it keeps the pool in order and every
\* assignment in its place.
LEMMA RankStays ==
  ASSUME RankInv, UNCHANGED <<prob, opt, runs>>, PoolIsBest', gapMet' => gapMet \/ ~opt.complete,
         Filling => Ordered(pool') /\ Len(pool') <= PoolSize,
         Filling /\ Live' => \A e \in Feasible : Placed(e)'
  PROVE  RankInv'
<1>1. Filling' = Filling /\ Feasible' = Feasible
  BY DEF Filling, Feasible
<1>2. runs' \in Nat \ {0} /\ (gapMet' => ~opt'.complete)
  BY DEF RankInv
<1>3. Filling' => Ordered(pool') /\ Len(pool') <= PoolSize
  BY <1>1
<1>4. Filling' /\ Live' => \A e \in Feasible' : Placed(e)'
  BY <1>1
<1> QED BY <1>2, <1>3, <1>4 DEF RankInv

\* What is ahead of the search: in an open node or in the one taken.
Ahead(e) == Covers(open, e) \/ (InNode /\ Meets(e.x, cur.chain))

\* The same, of a step that offers nothing: what was ahead stays ahead or is out of
\* the pool's reach.
LEMMA AheadStays ==
  ASSUME RankInv, UNCHANGED <<prob, opt, runs, inc, pool>>, PoolIsBest',
         gapMet' => gapMet \/ ~opt.complete, Live' => Live,
         Filling /\ Live' =>
           \A e \in Feasible : Ahead(e) => Ahead(e)' \/ Beyond(e)
  PROVE  RankInv'
<1>1. \A e : Beyond(e)' <=> Beyond(e)
  BY DEF Beyond, PoolFull, Cutoff, Feasible, GapLimit
<1>2. Filling => Ordered(pool') /\ Len(pool') <= PoolSize
  BY DEF RankInv
<1>3. ASSUME Filling, Live', NEW e \in Feasible PROVE Placed(e)'
  <2>1. Placed(e)
    BY <1>3 DEF RankInv
  <2>2. CASE Ahead(e)
    BY <1>1, <1>3, <2>2 DEF Ahead, Placed
  <2>3. CASE Listed(pool, e) \/ Beyond(e)
    BY <1>1, <2>3 DEF Placed
  <2> QED BY <2>1, <2>2, <2>3 DEF Placed, Ahead
<1> QED BY <1>2, <1>3, RankStays

\* A step that only moves on keeps it.
LEMMA QuietRanks ==
  ASSUME RankInv, UNCHANGED memory, runs' = runs, gapMet' => gapMet \/ ~opt.complete,
         pc' = pc \/ (pc \in HeadPcs /\ pc' \in HeadPcs)
  PROVE  RankInv'
<1>1. UNCHANGED <<prob, opt, runs, inc, pool, answer, open, cur>>
  BY DEF memory
<1>2. /\ (pc' = "done") = (pc = "done") /\ InNode' = InNode
      /\ (pc' \in {"dead", "refused"}) = (pc \in {"dead", "refused"})
  BY DEF HeadPcs, InNode
<1>3. Live' = Live
  BY <1>1, <1>2 DEF Live
<1>4. PoolIsBest'
  <2>1. PoolIsBest
    BY DEF RankInv
  <2> QED BY <1>1, <1>2, <2>1 DEF PoolIsBest, Promised, Missing, GapLimit
<1>5. \A e : Ahead(e)' = Ahead(e)
  BY <1>1, <1>2 DEF Ahead, Covers
<1> QED BY <1>1, <1>3, <1>4, <1>5, AheadStays

\* The head of the loop, the ways out of it, the file and the clock.
LEMMA LoopRanks ==
  ASSUME IInv, RankInv,
         \/ HeadClosed \/ HeadCheckpoint \/ HeadOn \/ LimitReached \/ LimitsClear \/ Stopped
         \/ GapReached \/ AfterLoop \/ SaveCommit \/ SaveFails \/ Tick \/ Interrupt
         \/ UNCHANGED vars
  PROVE  RankInv'
<1> USE DEF Goto, searchVars
<1>1. CASE HeadClosed \/ HeadCheckpoint \/ HeadOn
  BY <1>1, QuietRanks DEF HeadClosed, HeadCheckpoint, HeadOn, memory, HeadPcs
<1>2. CASE LimitReached \/ LimitsClear \/ Stopped
  BY <1>2, QuietRanks DEF LimitReached, LimitsClear, Stopped, StopAt, memory, HeadPcs
<1>3. CASE GapReached
  BY <1>3, QuietRanks DEF GapReached, GapTargetMet, memory, HeadPcs
<1>4. CASE AfterLoop
  BY <1>4, QuietRanks DEF AfterLoop, memory, HeadPcs
<1>5. CASE SaveCommit \/ SaveFails
  BY <1>5, QuietRanks DEF SaveCommit, SaveFails, memory, HeadPcs, IInv, TypeInv
<1>6. CASE Tick \/ Interrupt \/ UNCHANGED vars
  BY <1>6, QuietRanks DEF Tick, Interrupt, vars, memory
<1> QED BY <1>1, <1>2, <1>3, <1>4, <1>5, <1>6

\* What a node closed with no feasible assignment in it, or put back, leaves ahead.
LEMMA NodeRanks ==
  ASSUME RankInv, InNode, UNCHANGED <<prob, opt, runs, inc, pool, answer, gapMet>>, pc' # "done",
         \A e \in Feasible : Ahead(e) => Ahead(e)' \/ (Filling => Beyond(e))
  PROVE  RankInv'
<1>1. Live' => Live
  BY DEF Live, InNode
<1>2. PoolIsBest'
  BY NoneBest
<1> QED BY <1>1, <1>2, AheadStays

\* Propagation finds nothing against a node that holds a feasible assignment.
LEMMA EnteredHolds ==
  ASSUME IInv, pc = "entered", NEW e \in Feasible, Meets(e.x, cur.chain)
  PROVE  Propagated(dom).dead = "no" /\ e \in Inner(Propagated(dom).dom)
<1>1. InNode
  BY DEF InNode
<1>2. Inside(dom, e.x)
  BY DEF IInv, BoxInv
<1>3. Propagated(dom).dead = "no" /\ Inside(Propagated(dom).dom, e.x)
  BY <1>1, <1>2, LeaveGoes, PropagatedKeeps
<1> QED BY <1>3 DEF Inner, Feasible

\* Nor is its relaxation without an answer.
LEMMA SolvedHolds ==
  ASSUME IInv, pc = "lp", NEW e \in Feasible, Meets(e.x, cur.chain)
  PROVE  Reachable(prob, dom) # {}
<1>1. Inside(dom, e.x)
  BY DEF IInv, BoxInv
<1>2. PICK v \in prob : \A j \in Cols : v.at[j] = 2 * e.x[j]
  BY FeasibleType DEF IInv, TypeInv, Feasible
<1>3. e.x \in Spots /\ dom \in Doms
  BY FeasibleType DEF IInv, TypeInv, Feasible
<1>4. v \in Reachable(prob, dom)
  BY <1>1, <1>2, <1>3 DEF Reachable, Inside, Spots, Doms
<1> QED BY <1>4

\* A node closed for holding nothing held nothing.
LEMMA EmptyNodeRanks ==
  ASSUME IInv, RankInv, PropagateFires \/ PropagateInfeasible \/ NodeInfeasible
  PROVE  RankInv'
<1>1. /\ InNode /\ pc' # "done"
      /\ UNCHANGED <<prob, opt, runs, inc, pool, answer, gapMet, open>>
  BY DEF PropagateFires, PropagateInfeasible, NodeInfeasible, InNode, outside, Goto
<1>2. ASSUME NEW e \in Feasible PROVE ~Meets(e.x, cur.chain)
  <2>1. CASE PropagateFires
    BY <2>1, EnteredHolds DEF PropagateFires
  <2>2. CASE PropagateInfeasible
    <3> DEFINE after == Propagated(dom)
    <3>1. pc = "entered" /\ (after.dead = "bound" \/ (after.dead = "no" /\ Inner(after.dom) = {}))
      BY <2>2 DEF PropagateInfeasible
    <3>2. Meets(e.x, cur.chain) => after.dead = "no" /\ e \in Inner(after.dom)
      BY <3>1, EnteredHolds
    <3> HIDE DEF after
    <3> QED BY <3>1, <3>2
  <2>3. CASE NodeInfeasible
    BY <2>3, SolvedHolds DEF NodeInfeasible
  <2> QED BY <2>1, <2>2, <2>3
<1>3. \A e \in Feasible : Ahead(e) => Ahead(e)'
  BY <1>1, <1>2 DEF Ahead, Covers
<1> QED BY <1>1, <1>3, NodeRanks

\* A node that goes on stays where it is.
LEMMA GoOnRanks ==
  ASSUME IInv, RankInv, PropagateDone \/ NodeFractional \/ DiveStep
  PROVE  RankInv'
<1>1. /\ InNode /\ InNode' /\ pc' # "done"
      /\ UNCHANGED <<prob, opt, runs, inc, pool, answer, gapMet, open, cur>>
  <2>1. CASE PropagateDone
    BY <2>1 DEF PropagateDone, InNode, outside, Goto
  <2>2. CASE NodeFractional
    BY <2>2 DEF NodeFractional, InNode, outside, Goto
  <2>3. CASE DiveStep
    BY <2>3 DEF DiveStep, InNode, outside, Goto
  <2> QED BY <2>1, <2>2, <2>3
<1>2. \A e \in Feasible : Ahead(e) => Ahead(e)'
  BY <1>1 DEF Ahead, Covers
<1> QED BY <1>1, <1>2, NodeRanks

\* Learning moves no node.
LEMMA LearnRanks == ASSUME RankInv, Learn PROVE RankInv'
<1>1. /\ pc = "learn" /\ pc' = "top"
      /\ UNCHANGED <<prob, opt, runs, inc, pool, answer, gapMet, open>>
  BY DEF Learn, outside, Goto
<1>2. (Live' => Live) /\ PoolIsBest'
  BY <1>1, NoneBest DEF Live
<1>3. \A e \in Feasible : Ahead(e) => Ahead(e)'
  BY <1>1 DEF Ahead, Covers, InNode
<1> QED BY <1>1, <1>2, <1>3, AheadStays

\* What is pruned for a complete pool is out of the pool's reach.
LEMMA PruneReaches ==
  ASSUME TypeInv, Filling, NEW b \in NegInf .. NoCutoff - 1, CanPrune(b),
         NEW e \in Feasible, b <= e.obj
  PROVE  Beyond(e)
<1>1. prob \in Problems /\ pool \in Seq(Feasible) /\ inc \in Feasible \cup {NoInc}
  BY DEF TypeInv
<1>2. \A f \in Feasible : f \in Entries /\ f.obj \in 0 .. NoCutoff - 1
  BY <1>1, FeasibleType DEF Feasible
<1>3. pool \in Seq(Entries) /\ (inc # NoInc => inc.obj \in 0 .. NoCutoff)
  BY <1>1, <1>2, SeqMonotonic, TreeAssumption
<1>4. /\ Rounded(b) >= PoolCutoff - Margin /\ Margin \in Int
      /\ Rounded(b) <= e.obj /\ Rounded(b) \in Int /\ e.obj \in Int
  BY <1>1, <1>2, RoundedIsBound, RoundedType, TreeAssumption DEF Feasible, CanPrune, Filling
<1>5. PoolFull \in Int
  BY <1>3, CutoffType DEF PoolFull
<1>6. CASE inc = NoInc
  <2>1. PoolCutoff = PoolFull
    BY <1>6 DEF PoolCutoff, PoolFull
  <2>2. e.obj >= PoolFull - Margin
    BY <1>4, <1>5, <2>1
  <2> QED BY <2>2 DEF Beyond
<1>7. CASE inc # NoInc
  <2>1. inc \in Feasible /\ inc.obj \in Int /\ GapLimit(inc) \in Int
    BY <1>1, <1>7, GapLimitType
  <2>2. PoolCutoff = Min({PoolFull, GapLimit(inc)})
    BY <1>7 DEF PoolCutoff, PoolFull, GapLimit
  <2>3. PoolCutoff = PoolFull \/ PoolCutoff = GapLimit(inc)
    BY <1>5, <2>1, <2>2, MinOfTwo
  <2>4. CASE PoolCutoff = PoolFull
    <3>1. e.obj >= PoolFull - Margin
      BY <1>4, <1>5, <2>4
    <3> QED BY <3>1 DEF Beyond
  <2>5. CASE PoolCutoff = GapLimit(inc)
    <3>1. e.obj >= GapLimit(inc) - Margin /\ inc.obj >= inc.obj
      BY <1>4, <2>1, <2>5
    <3> QED BY <1>7, <2>1, <3>1 DEF Beyond
  <2> QED BY <2>3, <2>4, <2>5
<1> QED BY <1>6, <1>7

\* Taking a node moves it from the list to the search, or prunes it.
LEMMA PickNodeRanks == ASSUME IInv, RankInv, PickNode PROVE RankInv'
<1>1. /\ pc = "test" /\ open # <<>> /\ ~InNode
      /\ UNCHANGED <<prob, opt, runs, inc, pool, answer, gapMet>>
  BY DEF PickNode, IInv, ControlInv, InNode
<1>2. open \in Seq(Nodes) /\ \A k \in 1 .. Len(open) : open[k] \in Nodes
  BY LenProperties, ElementOfSeq DEF IInv, TypeInv
<1>3. PICK k \in Picks :
        /\ open' = RemoveAt(open, k)
        /\ IF CanPrune(open[k].bound) THEN pc' = "top" ELSE cur' = open[k] /\ pc' = "entered"
  BY DEF PickNode, Goto
<1>4. k \in 1 .. Len(open)
  BY <1>1, <1>2, <1>3, PicksOpen
<1>5. open' \in Seq(Nodes) /\ \A i \in DOMAIN open : i # k => open[i] \in ToSet(open')
  BY <1>2, <1>3, <1>4, RemoveAtMembers
<1>6. ASSUME NEW e \in Feasible, Ahead(e)
      PROVE  Ahead(e)' \/ (Filling => Beyond(e))
  <2>1. PICK i \in DOMAIN open : Meets(e.x, open[i].chain)
    BY <1>1, <1>6 DEF Ahead, Covers
  <2>2. CASE i # k
    BY <1>5, <2>1, <2>2, CoversMembers DEF Ahead
  <2>3. CASE i = k /\ ~CanPrune(open[k].bound)
    BY <1>3, <2>1, <2>3 DEF Ahead, InNode
  <2>4. CASE i = k /\ CanPrune(open[k].bound)
    <3>1. open[k].bound \in NegInf .. NoCutoff - 1
      BY <1>2, <1>4 DEF Nodes
    <3>2. open[k].bound <= e.obj
      BY <2>1, <2>4 DEF IInv, BoundInv, IsBound, Feasible
    <3> QED BY <2>4, <3>1, <3>2, PruneReaches DEF IInv
  <2> QED BY <2>2, <2>3, <2>4
<1>7. (Live' => Live) /\ PoolIsBest'
  BY <1>1, <1>3, NoneBest DEF Live
<1> QED BY <1>1, <1>6, <1>7, AheadStays

\* A relaxation's value prunes only what is out of reach.
LEMMA NodeSolvedRanks == ASSUME IInv, RankInv, NodeSolved PROVE RankInv'
<1>1. /\ InNode /\ pc = "lp" /\ pc' # "done"
      /\ UNCHANGED <<prob, opt, runs, inc, pool, answer, gapMet, open>>
  BY DEF NodeSolved, InNode, outside, Goto
<1>2. PICK v \in Cheapest(Reachable(prob, dom)) :
        IF CanPrune(v.cost) THEN pc' = "top" ELSE cur' = cur /\ pc' = "heuristics"
  BY DEF NodeSolved, Goto
<1>3. /\ v.cost \in NegInf .. NoCutoff - 1
      /\ \A e \in Feasible : Meets(e.x, cur.chain) => v.cost <= e.obj
  BY <1>1, CheapestBounds, TreeAssumption DEF NegInf
<1>4. ASSUME NEW e \in Feasible, Ahead(e)
      PROVE  Ahead(e)' \/ (Filling => Beyond(e))
  <2>1. CASE Covers(open, e)
    BY <1>1, <2>1 DEF Ahead, Covers
  <2>2. CASE Meets(e.x, cur.chain) /\ CanPrune(v.cost)
    BY <1>3, <2>2, PruneReaches DEF IInv
  <2>3. CASE Meets(e.x, cur.chain) /\ ~CanPrune(v.cost)
    BY <1>2, <2>3 DEF Ahead, InNode
  <2> QED BY <1>4, <2>1, <2>2, <2>3 DEF Ahead
<1> QED BY <1>1, <1>4, NodeRanks

\* A node put back is open again.
LEMMA NodeStoppedRanks == ASSUME IInv, RankInv, NodeStopped PROVE RankInv'
<1>1. /\ InNode /\ pc' # "done" /\ open' = Append(open, cur)
      /\ UNCHANGED <<prob, opt, runs, inc, pool, answer, gapMet>>
  BY DEF NodeStopped, NodeLimit, InNode, Close, outside, Goto
<1>2. open \in Seq(Nodes) /\ cur \in Nodes /\ Len(open) \in Nat /\ DOMAIN open = 1 .. Len(open)
  BY LenProperties DEF IInv, TypeInv
<1>3. /\ DOMAIN open' = 1 .. Len(open) + 1 /\ open'[Len(open) + 1] = cur
      /\ \A k \in 1 .. Len(open) : open'[k] = open[k]
  BY <1>1, <1>2, AppendProperties, LenProperties
<1>4. ASSUME NEW e \in Feasible, Ahead(e) PROVE Covers(open', e)
  <2>1. CASE Covers(open, e)
    BY <1>2, <1>3, <2>1 DEF Covers
  <2>2. CASE Meets(e.x, cur.chain)
    <3>1. Len(open) + 1 \in DOMAIN open'
      BY <1>2, <1>3
    <3> QED BY <1>3, <2>2, <3>1 DEF Covers
  <2> QED BY <1>4, <2>1, <2>2 DEF Ahead
<1> QED BY <1>1, <1>4, NodeRanks DEF Ahead

\* The two children hold what the node did.
LEMMA BranchRanks == ASSUME IInv, RankInv, Branch PROVE RankInv'
<1>1. /\ InNode /\ pc = "branch" /\ pc' # "done"
      /\ UNCHANGED <<prob, opt, runs, inc, pool, answer, gapMet>>
  BY DEF Branch, InNode, Close, outside, Goto
<1>2. PICK j \in Fractional(lp) :
        open' = open \o <<[chain |-> Append(cur.chain, Down(j)), bound |-> lp.cost],
                          [chain |-> Append(cur.chain, Up(j)), bound |-> lp.cost]>>
  BY DEF Branch
<1>3. lp \in prob /\ prob \in Problems /\ cur.chain \in Seq(Changes) /\ open \in Seq(Nodes) /\ TypeInv
  BY <1>1 DEF IInv, TypeInv, HasPoint, Nodes
<1>4. /\ Down(j) \in Changes /\ Up(j) \in Changes
      /\ \A x \in Spots : Satisfies(x, Down(j)) \/ Satisfies(x, Up(j))
  BY <1>3, BranchType
<1> DEFINE down == [chain |-> Append(cur.chain, Down(j)), bound |-> lp.cost]
           up == [chain |-> Append(cur.chain, Up(j)), bound |-> lp.cost]
           two == <<down, up>>
<1>5. down \in Nodes /\ up \in Nodes
  <2>1. lp.cost \in NegInf .. NoCutoff - 1
    BY <1>3, PointType, TreeAssumption DEF NegInf
  <2>2. Append(cur.chain, Down(j)) \in Seq(Changes) /\ Append(cur.chain, Up(j)) \in Seq(Changes)
    BY <1>3, <1>4, AppendProperties
  <2> QED BY <2>1, <2>2 DEF Nodes
<1>6. \A x : /\ Meets(x, down.chain) <=> Meets(x, cur.chain) /\ Satisfies(x, Down(j))
             /\ Meets(x, up.chain) <=> Meets(x, cur.chain) /\ Satisfies(x, Up(j))
  BY <1>3, <1>4, MeetsAppend
<1>7. open' = open \o two
  BY <1>2
<1> HIDE DEF down, up
<1>8. two \in Seq(Nodes) /\ ToSet(two) = {down, up}
  BY <1>5, OneAndTwo DEF ToSet
<1> HIDE DEF two
<1>9. open' \in Seq(Nodes) /\ ToSet(open') = ToSet(open) \cup {down, up}
  BY <1>3, <1>7, <1>8, ConcatProperties, ConcatMembers
<1>10. ASSUME NEW e \in Feasible, Ahead(e) PROVE Covers(open', e)
  <2>1. CASE Covers(open, e)
    BY <1>3, <1>9, <2>1, CoversMembers
  <2>2. CASE Meets(e.x, cur.chain)
    <3>1. e.x \in Spots
      BY <1>3, FeasibleType DEF Feasible
    <3>2. Meets(e.x, down.chain) \/ Meets(e.x, up.chain)
      BY <1>4, <1>6, <2>2, <3>1
    <3> QED BY <1>9, <3>2, CoversMembers
  <2> QED BY <1>10, <2>1, <2>2 DEF Ahead
<1> QED BY <1>1, <1>10, NodeRanks DEF Ahead

\* A point offered at a node takes its place in the pool, and so does any other point of
\* its assignment that is no better.
LEMMA OfferStays ==
  ASSUME IInv, RankInv, InNode, pc' # "done", UNCHANGED <<prob, opt, runs, answer, gapMet>>,
         NEW e \in Feasible, OfferIncumbent(e),
         Filling => \A f \in Feasible : Ahead(f) => Ahead(f)' \/ (f.x = e.x /\ e.obj <= f.obj)
  PROVE  RankInv'
<1>1. PoolIsBest'
  BY NoneBest
<1>2. Live' => Live
  BY DEF Live, InNode
<1>3. ASSUME Filling
      PROVE  /\ Ordered(pool') /\ Len(pool') <= PoolSize
             /\ \A f \in Feasible :
                  (f.x = e.x /\ e.obj <= f.obj) \/ Listed(pool, f) \/ Beyond(f) =>
                    Listed(pool', f) \/ Beyond(f)'
  BY <1>3, OfferPlaces DEF IInv, RankInv
<1>4. ASSUME Filling, Live', NEW f \in Feasible PROVE Placed(f)'
  <2>1. Placed(f)
    BY <1>2, <1>4 DEF RankInv
  <2>2. CASE (f.x = e.x /\ e.obj <= f.obj) \/ Listed(pool, f) \/ Beyond(f)
    BY <1>3, <1>4, <2>2 DEF Placed
  <2>3. CASE Ahead(f)'
    BY <2>3 DEF Ahead, Placed
  <2> QED BY <1>4, <2>1, <2>2, <2>3 DEF Placed, Ahead
<1> QED BY <1>1, <1>3, <1>4, RankStays

\* What the heuristics, the dive and the pump find goes to the pool; the node stays.
LEMMA FindRanks ==
  ASSUME IInv, RankInv, NodeHeuristics \/ DiveFinds \/ RootPump
  PROVE  RankInv'
<1>1. /\ InNode /\ InNode' /\ pc' # "done"
      /\ UNCHANGED <<prob, opt, runs, answer, gapMet, open, cur>>
  <2>1. CASE NodeHeuristics
    BY <2>1 DEF NodeHeuristics, InNode, outside, Goto
  <2>2. CASE DiveFinds
    BY <2>2 DEF DiveFinds, InNode, outside, Goto
  <2>3. CASE RootPump
    BY <2>3 DEF RootPump, InNode, outside, Goto
  <2> QED BY <2>1, <2>2, <2>3
<1>2. UNCHANGED <<inc, pool>> \/ \E e \in Feasible : OfferIncumbent(e)
  <2>1. CASE NodeHeuristics
    BY <2>1 DEF NodeHeuristics, Feasible
  <2>2. CASE DiveFinds
    <3>1. probe \in prob /\ Fractional(probe) = {} /\ OfferIncumbent(AsEntry(probe))
      BY <2>2 DEF DiveFinds, IInv, TypeInv
    <3> QED BY <3>1, IntegralIsFeasible
  <2>3. CASE RootPump
    BY <2>3 DEF RootPump, Feasible
  <2> QED BY <2>1, <2>2, <2>3
<1>3. \A f \in Feasible : Ahead(f) => Ahead(f)'
  BY <1>1 DEF Ahead, Covers
<1>4. CASE UNCHANGED <<inc, pool>>
  BY <1>1, <1>3, <1>4, NodeRanks
<1>5. ASSUME NEW e \in Feasible, OfferIncumbent(e) PROVE RankInv'
  BY <1>1, <1>3, <1>5, OfferStays
<1> QED BY <1>2, <1>4, <1>5

\* An integral relaxation is the best point of its assignment, and the rest of the node
\* is in the pieces; a node with no free column holds no other assignment.
LEMMA NodeIntegralRanks == ASSUME IInv, RankInv, NodeIntegral PROVE RankInv'
<1>1. /\ InNode /\ pc = "solved" /\ Fractional(lp) = {} /\ pc' = "top" /\ ~InNode'
      /\ OfferIncumbent(AsEntry(lp))
      /\ UNCHANGED <<prob, opt, runs, answer, gapMet>>
  BY DEF NodeIntegral, InNode, outside, Goto
<1>2. /\ lp \in prob /\ prob \in Problems /\ dom \in Doms /\ cur.chain \in Seq(Changes)
      /\ open \in Seq(Nodes) /\ lp \in Reachable(prob, dom)
      /\ \A f \in Feasible : Meets(f.x, cur.chain) => lp.cost <= f.obj /\ Inside(dom, f.x)
  BY <1>1 DEF IInv, TypeInv, PointInv, BoxInv, HasPoint, Nodes
<1> DEFINE x == Position(lp)
           e == AsEntry(lp)
<1>3. e \in Feasible /\ e.x = x /\ e.obj = lp.cost
  BY <1>1, <1>2, IntegralIsFeasible DEF AsEntry
<1>4. lp.at \in [Cols -> Nat] /\ lp.cost \in 0 .. NoCutoff - 1
  BY <1>2, PointType
<1>5. x \in Spots /\ \A j \in Cols : x[j] = lp.at[j] \div 2
  <2>1. \A j \in Cols : lp.at[j] \div 2 \in Int
    BY <1>4
  <2> QED BY <2>1 DEF Position, Spots
<1> HIDE DEF x, e
<1>6. Inside(dom, x)
  <2>1. ASSUME NEW j \in Cols PROVE dom.lo[j] <= x[j] /\ x[j] <= dom.hi[j]
    <3>1. dom.lo[j] \in Int /\ dom.hi[j] \in Int
      BY <1>2 DEF Doms
    <3>2. 2 * dom.lo[j] <= lp.at[j] /\ lp.at[j] <= 2 * dom.hi[j]
      BY <1>2 DEF Reachable
    <3>3. lp.at[j] \in Nat /\ lp.at[j] % 2 = 0
      BY <1>1, <1>4 DEF Fractional
    <3>4. lp.at[j] = 2 * (lp.at[j] \div 2) /\ lp.at[j] \div 2 \in Int
      BY <3>3
    <3> QED BY <1>5, <3>1, <3>2, <3>3, <3>4
  <2> QED BY <2>1 DEF Inside
<1> DEFINE pieces == Pieces(dom, cur.chain, x)
           rest == [k \in DOMAIN pieces |-> [chain |-> pieces[k], bound |-> lp.cost]]
<1>7. open' = IF opt.complete /\ FreeColumns(dom) # {} THEN open \o rest ELSE open
  BY DEF NodeIntegral, x
<1>8. pieces \in Seq(Seq(Changes))
  BY <1>2, <1>5, PiecesAreParts
<1> HIDE DEF pieces
<1>9. rest \in Seq(Nodes)
  <2>1. lp.cost \in NegInf .. NoCutoff - 1
    BY <1>4, TreeAssumption DEF NegInf
  <2>2. /\ Len(pieces) \in Nat /\ DOMAIN pieces = 1 .. Len(pieces)
        /\ \A k \in 1 .. Len(pieces) : pieces[k] \in Seq(Changes)
    BY <1>8, LenProperties, ElementOfSeq
  <2>3. rest \in [1 .. Len(pieces) -> Nodes]
    BY <2>1, <2>2 DEF Nodes
  <2> QED BY <2>2, <2>3
<1>10. \A p \in ToSet(pieces) : \E node \in ToSet(rest) : node.chain = p
  <2>1. SUFFICES ASSUME NEW k \in DOMAIN pieces
                 PROVE  \E node \in ToSet(rest) : node.chain = pieces[k]
    BY DEF ToSet
  <2>2. k \in DOMAIN rest /\ rest[k].chain = pieces[k]
    OBVIOUS
  <2> HIDE DEF rest
  <2> QED BY <2>2 DEF ToSet
<1> HIDE DEF rest
<1>11. open \o rest \in Seq(Nodes) /\ ToSet(open \o rest) = ToSet(open) \cup ToSet(rest)
  BY <1>2, <1>9, ConcatProperties, ConcatMembers
<1>12. ASSUME Filling, NEW f \in Feasible, Ahead(f)
       PROVE  Covers(open', f) \/ (f.x = e.x /\ e.obj <= f.obj)
  <2>1. CASE Covers(open, f)
    <3>1. Covers(open \o rest, f)
      BY <1>2, <1>11, <2>1, CoversMembers
    <3> QED BY <1>7, <2>1, <3>1
  <2>2. CASE Meets(f.x, cur.chain) /\ f.x = x
    BY <1>2, <1>3, <2>2
  <2>3. CASE Meets(f.x, cur.chain) /\ f.x # x
    <3>1. f.x \in Spots /\ Inside(dom, f.x)
      BY <1>2, <2>3, FeasibleType DEF Feasible
    <3>2. FreeColumns(dom) # {}
      <4>1. PICK j \in Cols : f.x[j] # x[j]
        <5>1. f.x \in [Cols -> Int] /\ x \in [Cols -> Int]
          BY <1>5, <3>1 DEF Spots
        <5> QED BY <2>3, <5>1
      <4>2. /\ dom.lo[j] \in Int /\ dom.hi[j] \in Int /\ f.x[j] \in Int /\ x[j] \in Int
            /\ dom.lo[j] <= f.x[j] /\ f.x[j] <= dom.hi[j]
            /\ dom.lo[j] <= x[j] /\ x[j] <= dom.hi[j]
        BY <1>2, <1>5, <1>6, <3>1 DEF Spots, Doms, Inside
      <4>3. dom.hi[j] > dom.lo[j]
        BY <4>1, <4>2
      <4> QED BY <4>3 DEF FreeColumns
    <3>3. PICK p \in ToSet(pieces) : Meets(f.x, p)
      BY <1>2, <1>5, <1>6, <2>3, <3>1, PiecesCover DEF pieces
    <3>4. PICK node \in ToSet(rest) : node.chain = p
      BY <1>10
    <3>5. Covers(open \o rest, f)
      BY <1>11, <3>3, <3>4, CoversMembers
    <3>6. open' = open \o rest
      BY <1>7, <1>12, <3>2 DEF Filling
    <3> QED BY <3>5, <3>6
  <2> QED BY <1>12, <2>1, <2>2, <2>3 DEF Ahead
<1>13. Filling => \A f \in Feasible : Ahead(f) => Ahead(f)' \/ (f.x = e.x /\ e.obj <= f.obj)
  BY <1>12 DEF Ahead
<1> QED BY <1>1, <1>3, <1>13, OfferStays DEF e

\* A search that fails promises nothing.
LEMMA NodeFailedRanks == ASSUME RankInv, NodeFailed PROVE RankInv'
<1>1. UNCHANGED <<prob, opt, runs, pool, gapMet>> /\ answer'.status = "failed"
  BY DEF NodeFailed, NoAnswer
<1>2. PoolIsBest'
  BY <1>1, NoneBest
<1>3. ~Live'
  BY <1>1 DEF Live
<1> QED BY <1>1, <1>2, <1>3, RankStays DEF RankInv

\* Nor does one that is killed.
LEMMA CrashRanks == ASSUME RankInv, Crash PROVE RankInv'
<1>1. UNCHANGED <<prob, opt, runs>> /\ pool' = <<>> /\ gapMet' = FALSE /\ pc' = "dead"
  BY DEF Crash, FreshSearch, Goto
<1>2. PoolIsBest' /\ ~Live'
  BY <1>1, NoneBest DEF Live
<1>3. Ordered(pool') /\ Len(pool') = 0 /\ PoolSize \in Nat
  BY <1>1, EmptySeq, TreeAssumption DEF Ordered
<1> QED BY <1>1, <1>2, <1>3, RankStays

\* A resumed search is no first one.
LEMMA ResumeRanks == ASSUME RankInv, Resume PROVE RankInv'
<1>1. runs' = runs + 1 /\ runs \in Nat \ {0} /\ gapMet' = FALSE /\ pc' # "done"
  BY DEF Resume, FreshSearch, Restore, Goto, RankInv
<1>2. PoolIsBest' /\ ~Filling'
  BY <1>1, NoneBest DEF Filling
<1> QED BY <1>1, <1>2 DEF RankInv

\* With the list empty every assignment is in the pool or out of its reach, and what
\* finish() hands out of an ordered pool leaves out nothing better.
LEMMA ReportIsBest == ASSUME IInv, RankInv, Report PROVE PoolIsBest'
<1>1. /\ pc = "report" /\ pc' = "done" /\ ~InNode
      /\ UNCHANGED <<prob, opt, open, inc, pool, gapMet, runs>>
  BY DEF Report, searchVars, Goto, InNode
<1> DEFINE limit == GapLimit(inc)
           f == Finish(pool, inc, PoolSize, limit)
<1>2. /\ answer'.status = Status /\ answer'.x = inc
      /\ inc # NoInc => answer'.pool = f
  BY DEF Report, GapLimit
<1>3. PoolIsBest' <=>
        (Promised' /\ runs' = 1 =>
           \A e \in FeasiblePoints(prob') :
             ~ /\ \A g \in FeasiblePoints(prob') :
                    g.obj >= answer'.x.obj => e.obj < GapLimit(g) - Margin
               /\ ~ \E m \in ToSet(answer'.pool) : m.x = e.x /\ m.obj <= e.obj
               /\ Len(answer'.pool) < PoolSize \/ e.obj < Last(answer'.pool).obj - Margin)
  BY DEF PoolIsBest, Missing, GapLimit
<1>4. SUFFICES ASSUME Promised', runs = 1, NEW e \in Feasible,
                      \A g \in Feasible : g.obj >= inc.obj => e.obj < GapLimit(g) - Margin,
                      ~ \E m \in ToSet(answer'.pool) : m.x = e.x /\ m.obj <= e.obj,
                      Len(answer'.pool) < PoolSize \/ e.obj < Last(answer'.pool).obj - Margin
               PROVE  FALSE
  BY <1>1, <1>2, <1>3 DEF Feasible
<1>5. Filling /\ Status = "optimal" /\ PoolSize \in Nat \ {0}
  BY <1>1, <1>2, <1>4, TreeAssumption DEF Promised, Filling
<1>6. inc # NoInc /\ open = <<>>
  BY <1>5 DEF Status, Filling, RankInv
<1>7. Live
  BY <1>1 DEF Live, IInv, ControlInv, NoAnswer
<1>8. Listed(pool, e) \/ Beyond(e)
  <2>1. ~Covers(open, e)
    BY <1>6 DEF Covers
  <2> QED BY <1>1, <1>5, <1>7, <2>1 DEF RankInv, Placed
<1>9. /\ prob \in Problems /\ inc \in Feasible /\ pool \in Seq(Feasible)
      /\ \A k \in DOMAIN pool : inc.obj <= pool[k].obj
  BY <1>6 DEF IInv, TypeInv, PoolInv
<1>10. \A g \in Feasible : /\ g \in Entries /\ g.obj \in Int /\ g.obj \in 0 .. NoCutoff
                           /\ g.obj + Step + Margin <= NoCutoff
  <2>1. \A g \in Feasible : g \in Entries /\ g.obj \in 0 .. NoCutoff - 1
                                         /\ g.obj + Step + Margin <= NoCutoff
    BY <1>9, FeasibleType DEF Feasible
  <2>2. NoCutoff \in Nat
    BY TreeAssumption
  <2>3. \A v \in 0 .. NoCutoff - 1 : v \in Int /\ v \in 0 .. NoCutoff
    BY <2>2
  <2> QED BY <2>1, <2>3
<1>11. inc \in Entries /\ pool \in Seq(Entries)
  BY <1>9, <1>10, SeqMonotonic
<1>12. limit \in Int /\ Margin \in Nat /\ Step \in Nat \ {0} /\ NoCutoff \in Nat
  BY <1>9, GapLimitType, TreeAssumption DEF IInv
<1>13. Ordered(pool) /\ Len(pool) <= PoolSize
  BY <1>5 DEF RankInv
<1>14. /\ f \in Seq(Entries) /\ Len(f) \in 1 .. PoolSize /\ f[1] = inc
       /\ \A i \in 1 .. Len(pool) : pool[i].x # inc.x /\ pool[i].obj <= limit =>
            \/ \E m \in 1 .. Len(f) : f[m] = pool[i]
            \/ Len(f) = PoolSize /\ f[Len(f)].obj <= pool[i].obj
       /\ Len(pool) = PoolSize /\ (\A i \in 1 .. Len(pool) : pool[i].obj <= limit) =>
            Len(f) = PoolSize /\ f[Len(f)].obj <= pool[Len(pool)].obj
  <2> HIDE DEF limit
  <2> QED BY <1>5, <1>9, <1>11, <1>12, <1>13, FinishRanks
<1>15. answer'.pool = f
  BY <1>2, <1>6
<1> HIDE DEF f, limit
<1>16. /\ Len(pool) \in Nat /\ DOMAIN pool = 1 .. Len(pool)
       /\ \A i \in 1 .. Len(pool) : pool[i] \in Feasible /\ pool[i].obj \in Int
  <2>1. \A i \in 1 .. Len(pool) : pool[i] \in Feasible
    BY <1>9, ElementOfSeq
  <2> QED BY <1>9, <1>10, <2>1, LenProperties
<1>17. /\ Len(f) \in Nat /\ DOMAIN f = 1 .. Len(f) /\ ToSet(f) = {f[m] : m \in 1 .. Len(f)}
       /\ f[Len(f)].obj \in Int /\ Last(f) = f[Len(f)]
  <2>1. Len(f) \in Nat /\ DOMAIN f = 1 .. Len(f) /\ Len(f) \in 1 .. Len(f)
    BY <1>5, <1>14, LenProperties
  <2>2. f[Len(f)] \in Entries
    BY <1>14, <2>1, ElementOfSeq
  <2> QED BY <2>1, <2>2 DEF ToSet, Last, Entries
<1>18. e.obj \in Int /\ e.obj < limit - Margin /\ e.obj + Step + Margin <= NoCutoff
  <2>1. inc.obj >= inc.obj
    BY <1>9, <1>10
  <2> QED BY <1>4, <1>9, <1>10, <2>1 DEF limit
<1>19. ASSUME Len(f) = PoolSize, f[Len(f)].obj - Margin <= e.obj PROVE FALSE
  BY <1>4, <1>5, <1>12, <1>15, <1>17, <1>18, <1>19
<1>20. CASE Listed(pool, e)
  <2>1. PICK k \in 1 .. Len(pool) : pool[k].x = e.x /\ pool[k].obj <= e.obj
    BY <1>16, <1>20 DEF Listed
  <2>2. pool[k].obj \in Int /\ inc.obj \in Int /\ inc.obj <= pool[k].obj /\ pool[k].obj <= limit
    <3>1. pool[k].obj \in Int /\ inc.obj \in Int /\ inc.obj <= pool[k].obj
      BY <1>9, <1>10, <1>16
    <3> QED BY <1>12, <1>18, <2>1, <3>1
  <2>3. CASE e.x = inc.x
    <3>1. inc \in ToSet(f) /\ inc.obj <= e.obj
      <4>1. 1 \in 1 .. Len(f)
        BY <1>14, <1>17
      <4> QED BY <1>14, <1>17, <1>18, <2>1, <2>2, <4>1
    <3> QED BY <1>4, <1>15, <2>3, <3>1
  <2>4. ASSUME NEW m \in 1 .. Len(f), f[m] = pool[k] PROVE FALSE
    BY <1>4, <1>15, <1>17, <2>1, <2>4
  <2>5. CASE Len(f) = PoolSize /\ f[Len(f)].obj <= pool[k].obj
    BY <1>12, <1>17, <1>18, <1>19, <2>1, <2>2, <2>5
  <2> QED BY <1>14, <2>1, <2>2, <2>3, <2>4, <2>5
<1>21. CASE Beyond(e)
  <2> DEFINE full == Cutoff(pool, PoolSize, opt.diversity)
  <2>1. ~ \E g \in Feasible : g.obj >= inc.obj /\ e.obj >= GapLimit(g) - Margin
    <3>1. SUFFICES ASSUME NEW g \in Feasible, g.obj >= inc.obj, e.obj >= GapLimit(g) - Margin
                   PROVE  FALSE
      OBVIOUS
    <3>2. e.obj < GapLimit(g) - Margin /\ GapLimit(g) \in Int
      BY <1>4, <3>1, GapLimitType DEF IInv
    <3> QED BY <1>12, <1>18, <3>1, <3>2
  <2>2. full \in Int
    BY <1>11, CutoffType
  <2>3. full - Margin <= e.obj
    BY <1>12, <1>18, <1>21, <2>1, <2>2 DEF Beyond, PoolFull
  <2>4. ~(Len(pool) < PoolSize)
    <3>1. full # NoCutoff
      BY <1>12, <1>18, <2>2, <2>3
    <3> QED BY <3>1 DEF Cutoff
  <2>5. Len(pool) = PoolSize /\ Len(pool) \in 1 .. Len(pool)
    <3>1. Len(pool) \in Nat /\ PoolSize \in Nat /\ PoolSize > 0 /\ Len(pool) <= PoolSize
      BY <1>5, <1>13, <1>16
    <3> QED BY <2>4, <3>1
  <2>6. full = pool[Len(pool)].obj
    BY <1>5, <2>4 DEF Cutoff, Last, Filling
  <2> HIDE DEF full
  <2>7. \A i \in 1 .. Len(pool) : pool[i].obj <= limit
    <3>1. pool[Len(pool)].obj <= limit
      BY <1>12, <1>18, <2>2, <2>3, <2>6
    <3>2. SUFFICES ASSUME NEW i \in 1 .. Len(pool) PROVE pool[i].obj <= limit
      OBVIOUS
    <3>3. i = Len(pool) \/ i < Len(pool)
      <4>1. Len(pool) \in Nat
        BY <1>16
      <4> QED BY <4>1
    <3>4. i < Len(pool) => pool[i].obj <= pool[Len(pool)].obj
      BY <1>13, <1>16, <2>5 DEF Ordered
    <3> QED BY <1>12, <1>16, <2>5, <3>1, <3>3, <3>4
  <2>8. Len(f) = PoolSize /\ f[Len(f)].obj <= pool[Len(pool)].obj
    BY <1>14, <2>5, <2>7
  <2>9. f[Len(f)].obj - Margin <= e.obj
    <3>1. f[Len(f)].obj \in Int /\ f[Len(f)].obj <= full
      BY <1>17, <2>6, <2>8
    <3>2. full \in Int /\ full - Margin <= e.obj /\ e.obj \in Int /\ Margin \in Int
      BY <1>12, <1>18, <2>2, <2>3
    <3> QED BY <3>1, <3>2
  <2> QED BY <1>19, <2>8, <2>9
<1> QED BY <1>8, <1>20, <1>21

\* The report moves nothing else.
LEMMA ReportRanks == ASSUME IInv, RankInv, Report PROVE RankInv'
<1>1. /\ pc = "report" /\ pc' = "done" /\ UNCHANGED <<prob, opt, runs, open, inc, pool, gapMet>>
  BY DEF Report, searchVars, Goto
<1>2. Live
  BY <1>1 DEF Live, IInv, ControlInv, NoAnswer
<1>3. \A e \in Feasible : Ahead(e) => Ahead(e)'
  BY <1>1 DEF Ahead, Covers, InNode
<1> QED BY <1>1, <1>2, <1>3, ReportIsBest, AheadStays

\* The root is ahead of every assignment.
LEMMA InitRanks == Init => RankInv
<1> SUFFICES ASSUME Init PROVE RankInv
  OBVIOUS
<1>1. open = <<Root>> /\ pool = <<>> /\ runs = 1 /\ gapMet = FALSE /\ pc = "top"
  BY DEF Init
<1>2. PoolIsBest
  BY <1>1 DEF PoolIsBest, Promised
<1>3. Ordered(pool) /\ Len(pool) = 0 /\ PoolSize \in Nat
  BY <1>1, EmptySeq, TreeAssumption DEF Ordered
<1>4. \A e : Covers(open, e)
  <2>1. DOMAIN <<Root>> = {1} /\ <<Root>>[1] = Root
    BY RootType, OneAndTwo
  <2> QED BY <1>1, <2>1, RootType DEF Covers
<1> QED BY <1>1, <1>2, <1>3, <1>4 DEF RankInv, Placed

------------------------------------------------------------------------------
(* The theorem of the pool                                                 *)

\* Every step keeps the pool's invariant.
LEMMA NextRanks == IInv /\ RankInv /\ [Next]_vars => RankInv'
<1> SUFFICES ASSUME IInv, RankInv, [Next]_vars PROVE RankInv'
  OBVIOUS
<1>1. CASE Search
  BY <1>1, LoopRanks, PickNodeRanks, EmptyNodeRanks, GoOnRanks, LearnRanks, NodeSolvedRanks,
     NodeStoppedRanks, NodeFailedRanks, FindRanks, NodeIntegralRanks, BranchRanks, ReportRanks
  DEF Search
<1>2. CASE Environment
  BY <1>2, LoopRanks, CrashRanks, ResumeRanks DEF Environment
<1>3. CASE Over \/ UNCHANGED vars
  BY <1>3, LoopRanks DEF Over
<1> QED BY <1>1, <1>2, <1>3 DEF Next

\* A complete pool of one uninterrupted search holds the best assignments of the model,
\* each with its best objective: no feasible assignment inside pool_gap of the answer and
\* of every worse solution is left out for a worse one, or while there is room.  Nothing
\* is assumed of how the gap's limit moves as the incumbent improves.
THEOREM PoolHoldsTheBest == Spec => []PoolIsBest
<1>1. IInv /\ RankInv => PoolIsBest
  BY DEF RankInv
<1> QED BY <1>1, Invariance, InitRanks, NextRanks, PTL DEF Spec

==============================================================================
