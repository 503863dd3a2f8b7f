--------------------------- MODULE Simplex_proofs ---------------------------
(***************************************************************************)
(* What a simplex engine reports is a basis of the caller's model, for any *)
(* models, starting bases, perturbations and readings: every nonbasic      *)
(* variable is parked, on a bound of the model or on the relaxed one       *)
(* beside it, but for the boxed ones of the dual loop and what a push has  *)
(* yet to move.  And the deletion filter's report, for any model and any   *)
(* answers of the engine: the witness of every element tried and kept      *)
(* satisfies the rest of what is left, which only shrinks and stays        *)
(* infeasible.                                                             *)
(***************************************************************************)
EXTENDS Simplex, DeletionFilter, FiniteSetTheorems, TLAPS

-----------------------------------------------------------------------------
\* The inductive invariant

Statuses == {"basic", "lower", "upper", "free", "fixed"}

\* The label the loops are at, or return to when the factors are built.
Label == IF pc = "factorize" THEN resume ELSE pc

Labels ==
  {"begin", "start", "count", "price", "ratio", "recheck", "dual", "push", "pushed", "done"}

TypeInv ==
  /\ lp \in Lps
  /\ at \in [Vars -> Statuses] /\ val = [k \in Vars |-> val[k]]
  /\ bent \in BOOLEAN
  /\ boxed = [lower |-> boxed.lower, upper |-> boxed.upper]
  /\ pick = [k |-> pick.k, dir |-> pick.dir, pos |-> pick.pos, phaseOne |-> pick.phaseOne,
             fresh |-> pick.fresh]

\* Which loop is at which label, and what it may have done to the bounds: only the primal
\* loop relaxes them, only the dual loop boxes.
ControlInv ==
  /\ loop \in {"primal", "dual", "push"} /\ Label \in Labels
  /\ pc = "factorize" => resume # "done"
  /\ loop = "push" => engine = "push"
  /\ Label = "begin" => loop = engine
  /\ Label \in {"start", "count"} => loop # "push"
  /\ Label \in {"price", "ratio", "recheck"} => loop = "primal"
  /\ Label = "dual" => loop = "dual"
  /\ Label \in {"push", "pushed"} => loop = "push"
  /\ bent => loop = "primal" /\ Label # "begin"
  /\ boxed # NoBox => loop = "dual" /\ Label # "begin"
  /\ loop = "push" /\ pc = "done" => ans.status \in {"numerical_error", "not_solved"}
  /\ pc = "factorize" /\ resume = "ratio" => drift
  /\ misnamed # {} => drift /\ loop = "primal" /\ Label # "begin"

\* The column in hand is the one that was priced, unless a repair has made it basic: then it
\* is a logical, and the ratio test sees it through the factors of the repair.
Chosen == pick.k \in Nonbasic /\ at[pick.k] # "fixed"

MadeBasic ==
  /\ pick.k \in Basis \cap Rows(lp)
  /\ \/ pc = "recheck"
     \/ pc = "ratio" /\ drift /\ lu = "fresh" /\ xs = "fresh" /\ Basis \in DOMAIN tab

PickInv == Label \in {"ratio", "recheck"} => pick.dir \in {1, -1} /\ (Chosen \/ MadeBasic)

\* The factors of a basis are those of as many columns as there are rows, and carry a basic
\* column to itself.
TableauInv ==
  \A B \in DOMAIN tab :
    /\ B \subseteq Vars /\ Cardinality(B) = Cardinality(Rows(lp))
    /\ \A k, b \in B : b # k => tab[B][k][b] = 0

\* There is one basic variable to a row, and only a logical is basic under another name.
BasisInv ==
  TableauInv /\ Cardinality(Basis) = Cardinality(Rows(lp)) /\ misnamed \subseteq Basis \cap Rows(lp)

\* What the push may still have to move.
Loose == IF loop = "push" /\ Label \in {"begin", "push"} THEN Pending ELSE {}

\* On a true bound, or on the relaxed one beside it.
Parked(k) ==
  /\ at[k] \in Parkings(TrueLo(k), TrueUp(k))
  /\ val[k] = ParkValue(at[k], TrueLo(k), TrueUp(k)) \/ (bent /\ at[k] \in {"lower", "upper"})

\* Every nonbasic variable is parked, except a boxed one and one the push is about to move.
ParkInv == pc # "done" => \A k \in Nonbasic \ (Boxed \cup Loose) : Parked(k)

IInv == TypeInv /\ ControlInv /\ PickInv /\ BasisInv /\ ParkInv /\ ReportIsOfTheModel

-----------------------------------------------------------------------------
\* Bounds

\* The bounds of the model are the model's.
LEMMA ModelKept ==
  ASSUME UNCHANGED lp
  PROVE  Vars' = Vars /\ \A k : TrueLo(k)' = TrueLo(k) /\ TrueUp(k)' = TrueUp(k)
BY DEF Vars, TrueLo, TrueUp, Cols, Rows

\* No variable has bounds that cross.
LEMMA TrueBoundsSane ==
  ASSUME lp \in Lps, NEW k \in Vars
  PROVE  SaneBounds(TrueLo(k), TrueUp(k))
BY SimplexAssumption DEF Vars, TrueLo, TrueUp

\* Without a box, relaxing moves finite bounds apart and leaves everything else.
LEMMA WorkingBounds ==
  ASSUME lp \in Lps, NEW k \in Vars \ Boxed
  PROVE  /\ Finite(Lo(k)) <=> Finite(TrueLo(k))
         /\ Finite(Up(k)) <=> Finite(TrueUp(k))
         /\ Lo(k) = Up(k) <=> TrueLo(k) = TrueUp(k)
         /\ ~bent \/ TrueLo(k) = TrueUp(k) \/ ~Finite(TrueLo(k)) => Lo(k) = TrueLo(k)
         /\ ~bent \/ TrueLo(k) = TrueUp(k) \/ ~Finite(TrueUp(k)) => Up(k) = TrueUp(k)
<1>1. k \notin boxed.lower /\ k \notin boxed.upper
  BY DEF Boxed
<1>2. /\ Lo(k) = IF Bends(k) /\ Finite(TrueLo(k)) THEN TrueLo(k) - Shift ELSE TrueLo(k)
      /\ Up(k) = IF Bends(k) /\ Finite(TrueUp(k)) THEN TrueUp(k) + Shift ELSE TrueUp(k)
  BY <1>1 DEF Lo, Up
<1>3. SaneBounds(TrueLo(k), TrueUp(k))
  BY TrueBoundsSane
<1>4. Shift \in Nat /\ Inf \in Nat
  BY SimplexAssumption, LinearAssumption
<1> QED BY <1>2, <1>3, <1>4 DEF Bends, SaneBounds, Finite

\* Relaxing the bounds offers a nonbasic variable the same places.
LEMMA SameParkings ==
  ASSUME lp \in Lps, NEW k \in Vars \ Boxed
  PROVE  Parkings(Lo(k), Up(k)) = Parkings(TrueLo(k), TrueUp(k))
BY WorkingBounds DEF Parkings

\* What a variable is that stops at one of its working bounds.
Stopped(k, status, value) ==
  /\ status \in Parkings(TrueLo(k), TrueUp(k))
  /\ value = ParkValue(status, TrueLo(k), TrueUp(k)) \/ (bent /\ status \in {"lower", "upper"})

\* A variable that leaves the basis stops at a bound it has.
LEMMA StoppedAtBound ==
  ASSUME lp \in Lps, NEW k \in Vars \ Boxed, NEW side \in {"lower", "upper"},
         Finite(Bound(k, side))
  PROVE  Stopped(k, IF Lo(k) = Up(k) THEN "fixed" ELSE side, Bound(k, side))
BY WorkingBounds DEF Stopped, Bound, Parkings, ParkValue

\* What a variable is that a repair takes out.
LEMMA StoppedAnywhere ==
  ASSUME lp \in Lps, NEW k \in Vars \ Boxed, NEW s \in Parkings(Lo(k), Up(k))
  PROVE  Stopped(k, s, ParkValue(s, Lo(k), Up(k)))
BY WorkingBounds DEF Stopped, Parkings, ParkValue

\* There is always a place to go, and it is not the basis.
LEMMA ParkingsAreStatuses ==
  ASSUME NEW lo, NEW up
  PROVE  Parkings(lo, up) \subseteq Statuses \ {"basic"} /\ Parkings(lo, up) # {}
BY DEF Parkings, Statuses

-----------------------------------------------------------------------------
\* Steps

\* The variables of a model are finitely many.
LEMMA FinitelyMany ==
  ASSUME lp \in Lps
  PROVE  IsFiniteSet(Vars) /\ IsFiniteSet(Basis) /\ IsFiniteSet(Rows(lp))
<1>1. IsFiniteSet(Cols(lp)) /\ IsFiniteSet(Rows(lp))
  BY SimplexAssumption
<1>2. IsFiniteSet(Vars)
  BY <1>1, FS_Union DEF Vars
<1>3. Basis \in SUBSET Vars
  BY DEF Basis
<1> QED BY <1>1, <1>2, <1>3, FS_Subset

\* The factors a model has do not change.
LEMMA TableauKept ==
  ASSUME TableauInv, UNCHANGED <<lp, tab>>
  PROVE  TableauInv'
BY ModelKept DEF TableauInv

\* A step that leaves the basis alone.
LEMMA BasisKept ==
  ASSUME BasisInv, UNCHANGED <<lp, tab>>, Basis' = Basis, misnamed' \subseteq Basis \cap Rows(lp)
  PROVE  BasisInv'
BY TableauKept DEF BasisInv

\* Statuses that stay as they are leave the basis alone.
LEMMA SameBasis ==
  ASSUME UNCHANGED <<lp, at>>
  PROVE  Vars' = Vars /\ Basis' = Basis /\ Nonbasic' = Nonbasic
BY ModelKept DEF Nonbasic, Basis

\* An exchange: one variable leaves the basis and one enters.
LEMMA BasisExchanged ==
  ASSUME TypeInv, BasisInv, UNCHANGED <<lp, tab>>, NEW b \in Basis, NEW k \in Nonbasic,
         Basis' = (Basis \ {b}) \cup {k}, misnamed' \subseteq misnamed \ {b}
  PROVE  BasisInv'
<1>1. IsFiniteSet(Basis) /\ IsFiniteSet(Rows(lp)) /\ Cardinality(Basis) = Cardinality(Rows(lp))
  BY FinitelyMany DEF TypeInv, BasisInv
<1>2. IsFiniteSet(Basis \ {b}) /\ Cardinality(Basis \ {b}) = Cardinality(Basis) - 1
  BY <1>1, FS_RemoveElement
<1>3. k \notin Basis \ {b}
  BY DEF Nonbasic
<1>4. Cardinality(Basis') = Cardinality(Basis \ {b}) + 1
  BY <1>2, <1>3, FS_AddElement
<1>5. Cardinality(Basis) \in Nat
  BY <1>1, FS_CardinalityType
<1>6. Cardinality(Basis') = Cardinality(Rows(lp))
  BY <1>1, <1>2, <1>4, <1>5
<1>7. misnamed' \subseteq Basis' \cap Rows(lp)
  BY DEF BasisInv
<1> QED BY <1>6, <1>7, TableauKept DEF BasisInv

\* What a step does to a variable is enough to keep it parked.
LEMMA ParkedNext ==
  ASSUME UNCHANGED lp, NEW k, Stopped(k, at'[k], val'[k]), bent => bent'
  PROVE  Parked(k)'
BY ModelKept DEF Stopped, Parked

\* A parked variable that is left alone stays so.
LEMMA ParkedStopped ==
  ASSUME NEW k, Parked(k)
  PROVE  Stopped(k, at[k], val[k])
BY DEF Parked, Stopped

\* A step that moves no variable, and lets none loose that was not.
LEMMA QuietStep ==
  ASSUME IInv, UNCHANGED <<lp, tab, at, val, misnamed, bent, boxed>>, Loose \subseteq Loose',
         pc # "done", pc' # "done", TypeInv', ControlInv', PickInv'
  PROVE  IInv'
<1>1. Vars' = Vars /\ Nonbasic' = Nonbasic /\ Boxed' = Boxed
  BY SameBasis DEF Boxed
<1>0. BasisInv'
  BY SameBasis, BasisKept DEF IInv, BasisInv
<1>2. ParkInv'
  <2> SUFFICES ASSUME NEW k \in Nonbasic' \ (Boxed' \cup Loose') PROVE Parked(k)'
    BY DEF ParkInv
  <2>1. Parked(k)
    BY <1>1 DEF IInv, ParkInv
  <2> QED BY <2>1, ParkedStopped, ParkedNext
<1>3. ReportIsOfTheModel'
  BY DEF ReportIsOfTheModel
<1> QED BY <1>0, <1>2, <1>3 DEF IInv

\* A step that leaves the point, the bounds and the pick alone keeps their types.
LEMMA TypeKept ==
  ASSUME TypeInv, UNCHANGED <<lp, at, val, bent, boxed, pick>>
  PROVE  TypeInv'
BY ModelKept DEF TypeInv

\* What the report says of the basis follows from what is basic and under which name.
LEMMA CountsReported ==
  ASSUME BasisInv', ControlInv'
  PROVE  (/\ Cardinality(Basis) = Cardinality(Rows(lp))
          /\ Basis \ ReportedBasic \subseteq Rows(lp)
          /\ ~drift => ReportedBasic = Basis)'
BY DEF BasisInv, ControlInv, ReportedBasic

\* finish(): the relaxed bounds are given up, whichever loop it was.
LEMMA FinishKeeps ==
  ASSUME IInv, pc # "done", NEW status, NEW bound, NEW sure, NEW proof,
         Finish(status, bound, sure, proof),
         loop = "push" => status \in {"numerical_error", "not_solved"}
  PROVE  IInv'
<1>1. /\ UNCHANGED <<lp, tab, drift, engine, resume, loop, at, misnamed, boxed, pick, todo>>
      /\ bent' = FALSE /\ val' = Unbent /\ pc' = "done" /\ ans'.status = status
  BY DEF Finish, model
<1>2. /\ Vars' = Vars /\ Basis' = Basis /\ Nonbasic' = Nonbasic /\ Boxed' = Boxed
      /\ Label' = "done"
  BY <1>1, SameBasis DEF Boxed, Label
<1>0. BasisInv'
  BY <1>1, <1>2, BasisKept DEF IInv, BasisInv
<1>3. TypeInv'
  <2>1. val' = [k \in Vars |-> val'[k]]
    BY <1>1 DEF Unbent
  <2> QED BY <1>1, <1>2, <2>1 DEF IInv, TypeInv
<1>4. ControlInv'
  <2>1. ControlInv
    BY DEF IInv
  <2> QED BY <1>1, <1>2, <2>1 DEF ControlInv, Labels, NoBox
<1>5. PickInv' /\ ParkInv'
  BY <1>1, <1>2 DEF PickInv, ParkInv
<1>6. ReportIsOfTheModel'
  <2> SUFFICES ASSUME status \in LimitExits \cup {"optimal", "unbounded"}, Boxed = {},
                      NEW k \in Nonbasic
               PROVE  OnTrueBounds(k)'
    <3>1. ControlInv'
      BY <1>4
    <3> QED BY <1>0, <1>1, <1>2, <3>1, CountsReported DEF ReportIsOfTheModel, LimitExits
  <2>1. Loose = {}
    BY DEF Loose, LimitExits
  <2>2. Parked(k)
    BY <2>1 DEF IInv, ParkInv
  <2>3. val'[k] = IF bent /\ at[k] \in {"lower", "upper"}
                  THEN ParkValue(at[k], TrueLo(k), TrueUp(k)) ELSE val[k]
    BY <1>1 DEF Unbent, Nonbasic
  <2>4. at[k] \in Parkings(TrueLo(k), TrueUp(k)) /\ val'[k] = ParkValue(at[k], TrueLo(k), TrueUp(k))
    BY <2>2, <2>3 DEF Parked
  <2> QED BY <1>1, <2>4, ModelKept DEF OnTrueBounds
<1> QED BY <1>0, <1>3, <1>4, <1>5, <1>6 DEF IInv

\* The boxes are taken away: a boxed variable goes where the model lets it be.
LEMMA RestoredParks ==
  ASSUME IInv, pc # "done", loop = "dual", RestoreProblem, UNCHANGED lp, NEW k \in Nonbasic'
  PROVE  k \in Nonbasic /\ OnTrueBounds(k)'
<1>1. at' = Unboxed /\ val' = UnboxedValue
  BY DEF RestoreProblem
<1>2. k \in Vars
  BY ModelKept DEF Nonbasic
<1>3. /\ at'[k] = Unboxed[k] /\ val'[k] = UnboxedValue[k]
      /\ Unboxed[k] = IF k \in Nonbasic \cap Boxed
                      THEN CHOOSE s \in Parkings(TrueLo(k), TrueUp(k)) : TRUE ELSE at[k]
      /\ UnboxedValue[k] = IF k \in Nonbasic \cap Boxed
                           THEN ParkValue(Unboxed[k], TrueLo(k), TrueUp(k)) ELSE val[k]
  BY <1>1, <1>2 DEF Unboxed, UnboxedValue
<1>4. k \in Nonbasic
  <2>1. at'[k] # "basic"
    BY <1>2, ModelKept DEF Nonbasic, Basis
  <2> QED BY <1>2, <1>3, <2>1 DEF Nonbasic, Basis
<1>5. ~bent /\ Loose = {}
  BY DEF IInv, ControlInv, Loose
<1>6. Stopped(k, at'[k], val'[k])
  <2>1. CASE k \in Boxed
    <3>1. at'[k] \in Parkings(TrueLo(k), TrueUp(k))
      BY <1>3, <1>4, <2>1, ParkingsAreStatuses
    <3> QED BY <1>3, <1>4, <2>1, <3>1 DEF Stopped
  <2>2. CASE k \notin Boxed
    BY <1>3, <1>4, <1>5, <2>2, ParkedStopped DEF IInv, ParkInv
  <2> QED BY <2>1, <2>2
<1> QED BY <1>4, <1>5, <1>6, ModelKept DEF Stopped, OnTrueBounds

\* Taking the boxes away leaves none, and the basis as it is.
LEMMA RestoredTypes ==
  ASSUME TypeInv, BasisInv, RestoreProblem, UNCHANGED <<lp, tab, bent, pick>>
  PROVE  TypeInv' /\ BasisInv' /\ boxed' = NoBox /\ Boxed' = {}
<1>1. Vars' = Vars /\ at' = Unboxed /\ val' = UnboxedValue /\ boxed' = NoBox
  BY ModelKept DEF RestoreProblem
<1>2. at' \in [Vars -> Statuses]
  <2> SUFFICES ASSUME NEW k \in Vars
               PROVE  Unboxed[k] \in Statuses
    BY <1>1 DEF Unboxed
  <2>1. Unboxed[k] = IF k \in Nonbasic \cap Boxed
                      THEN CHOOSE s \in Parkings(TrueLo(k), TrueUp(k)) : TRUE ELSE at[k]
    BY DEF Unboxed
  <2>2. at[k] \in Statuses
    BY DEF TypeInv
  <2>3. (CHOOSE s \in Parkings(TrueLo(k), TrueUp(k)) : TRUE) \in Parkings(TrueLo(k), TrueUp(k))
    BY ParkingsAreStatuses
  <2> QED BY <2>1, <2>2, <2>3, ParkingsAreStatuses
<1>3. val' = [k \in Vars |-> val'[k]]
  BY <1>1 DEF UnboxedValue
<1>4. boxed' = NoBox /\ Boxed' = {} /\ boxed' = [lower |-> boxed'.lower, upper |-> boxed'.upper]
  BY <1>1 DEF NoBox, Boxed
<1>5. TypeInv'
  BY <1>1, <1>2, <1>3, <1>4 DEF TypeInv
<1>6. Basis' = Basis
  <2> SUFFICES ASSUME NEW k \in Vars
               PROVE  Unboxed[k] = "basic" <=> at[k] = "basic"
    BY <1>1 DEF Basis
  <2>1. Unboxed[k] = IF k \in Nonbasic \cap Boxed
                      THEN CHOOSE s \in Parkings(TrueLo(k), TrueUp(k)) : TRUE ELSE at[k]
    BY DEF Unboxed
  <2>2. (CHOOSE s \in Parkings(TrueLo(k), TrueUp(k)) : TRUE) \in Parkings(TrueLo(k), TrueUp(k))
    BY ParkingsAreStatuses
  <2>3. (CHOOSE s \in Parkings(TrueLo(k), TrueUp(k)) : TRUE) # "basic"
    BY <2>2, ParkingsAreStatuses
  <2> QED BY <2>1, <2>3 DEF Nonbasic, Basis
<1>7. BasisInv'
  BY <1>6, BasisKept DEF RestoreProblem, BasisInv
<1> QED BY <1>4, <1>5, <1>7

\* An exit of the dual loop gives up its boxes.
LEMMA FinishRestoredKeeps ==
  ASSUME IInv, pc # "done", loop = "dual", NEW status, NEW bound, NEW sure, NEW proof,
         FinishRestored(status, bound, sure, proof)
  PROVE  IInv'
<1>1. /\ UNCHANGED <<lp, tab, drift, engine, resume, loop, misnamed, bent, pick, todo>>
      /\ RestoreProblem /\ pc' = "done" /\ ans'.status = status
  BY DEF FinishRestored, RestoreProblem, model
<1>2. TypeInv' /\ BasisInv' /\ boxed' = NoBox /\ Label' = "done"
  BY <1>1, RestoredTypes DEF IInv, Label
<1>3. ControlInv'
  <2>1. ControlInv
    BY DEF IInv
  <2> QED BY <1>1, <1>2, <2>1 DEF ControlInv, Labels
<1>4. PickInv' /\ ParkInv'
  BY <1>1, <1>2 DEF PickInv, ParkInv
<1>5. ReportIsOfTheModel'
  BY <1>1, <1>2, <1>3, RestoredParks, CountsReported DEF ReportIsOfTheModel
<1> QED BY <1>2, <1>3, <1>4, <1>5 DEF IInv

\* So does a hand-over: the primal loop starts on the model's bounds.
LEMMA HandOverKeeps ==
  ASSUME IInv, pc # "done", loop = "dual", HandOver
  PROVE  IInv'
<1>1. /\ UNCHANGED <<lp, tab, drift, engine, resume, misnamed, bent, pick, todo>>
      /\ RestoreProblem /\ pc' = "start" /\ loop' = "primal"
  BY DEF HandOver, RestoreProblem, model
<1>2. TypeInv' /\ BasisInv' /\ boxed' = NoBox /\ Boxed' = {} /\ Label' = "start"
  BY <1>1, RestoredTypes DEF IInv, Label
<1>3. ControlInv'
  <2>1. ControlInv
    BY DEF IInv
  <2> QED BY <1>1, <1>2, <2>1 DEF ControlInv, Labels
<1>4. PickInv' /\ ReportIsOfTheModel'
  BY <1>1, <1>2 DEF PickInv, ReportIsOfTheModel
<1>5. ParkInv'
  BY <1>1, RestoredParks DEF ParkInv, OnTrueBounds, Parked
<1> QED BY <1>2, <1>3, <1>4, <1>5 DEF IInv

\* A step that parks every nonbasic variable it moves.
LEMMA MovingStep ==
  ASSUME IInv, UNCHANGED <<lp, boxed>>, bent => bent', pc # "done", pc' # "done",
         TypeInv', ControlInv', PickInv', BasisInv',
         \A k \in Nonbasic' \ (Boxed \cup Loose') :
           \/ k \in Nonbasic \ Loose /\ at'[k] = at[k] /\ val'[k] = val[k]
           \/ Stopped(k, at'[k], val'[k])
  PROVE  IInv'
<1>1. Boxed' = Boxed
  BY DEF Boxed
<1>2. ParkInv'
  <2> SUFFICES ASSUME NEW k \in Nonbasic' \ (Boxed' \cup Loose') PROVE Parked(k)'
    BY DEF ParkInv
  <2>1. Stopped(k, at'[k], val'[k])
    <3>1. CASE k \in Nonbasic \ Loose /\ at'[k] = at[k] /\ val'[k] = val[k]
      <4>1. Parked(k)
        BY <1>1, <3>1 DEF IInv, ParkInv
      <4> QED BY <3>1, <4>1, ParkedStopped
    <3> QED BY <1>1, <3>1
  <2> QED BY <2>1, ParkedNext
<1>3. ReportIsOfTheModel'
  BY DEF ReportIsOfTheModel
<1> QED BY <1>2, <1>3 DEF IInv

\* The parts of a step that moves statuses and values as functions of the variables.
LEMMA TypeMoved ==
  ASSUME TypeInv, UNCHANGED <<lp, boxed>>, bent' \in BOOLEAN, pick' = pick \/ pick' = NoPick,
         at' \in [Vars -> Statuses], val' = [k \in Vars |-> val'[k]]
  PROVE  TypeInv'
BY ModelKept DEF TypeInv, NoPick

-----------------------------------------------------------------------------
\* Between iterations

\* Building the factors moves nothing.
LEMMA FactorizedKeeps ==
  ASSUME IInv, Factorized
  PROVE  IInv'
<1>1. /\ UNCHANGED <<lp, tab, drift, engine, resume, loop>>
      /\ UNCHANGED <<at, val, misnamed, bent, boxed, pick, todo>>
      /\ pc = "factorize" /\ pc' = resume
  BY DEF Factorized, model, point, relax
<1>2. Vars' = Vars /\ Basis' = Basis /\ Nonbasic' = Nonbasic /\ Pending' = Pending
  BY <1>1, SameBasis DEF Pending
<1>3. CASE resume = "factorize"
  BY <1>1, <1>3 DEF IInv, ControlInv, Label, Labels
<1>4. CASE resume # "factorize"
  <2>1. Label' = Label
    BY <1>1, <1>4 DEF Label
  <2>2. TypeInv'
    BY <1>1, TypeKept DEF IInv
  <2>3. ControlInv' /\ PickInv'
    <3>1. Label # "done" /\ pc' # "done" /\ NoBox' = NoBox
      BY <1>1, <1>4 DEF IInv, ControlInv, Label, NoBox
    <3>2. ControlInv'
      BY <1>1, <1>4, <2>1, <3>1 DEF IInv, ControlInv
    <3>3. PickInv'
      BY <1>1, <1>2, <2>1 DEF IInv, PickInv, Chosen, MadeBasic
    <3> QED BY <3>2, <3>3
  <2>4. ParkInv'
    <3> SUFFICES ASSUME NEW k \in Nonbasic' \ (Boxed' \cup Loose') PROVE Parked(k)'
      BY DEF ParkInv
    <3>1. Boxed' = Boxed /\ Loose' = Loose
      BY <1>1, <1>2, <2>1 DEF Boxed, Loose
    <3>2. Parked(k)
      BY <1>1, <1>2, <3>1 DEF IInv, ParkInv
    <3> QED BY <1>1, <3>2, ParkedStopped, ParkedNext
  <2>5. ReportIsOfTheModel'
    BY <1>1 DEF ReportIsOfTheModel, IInv, ControlInv
  <2>6. BasisInv'
    BY <1>1, <1>2, BasisKept DEF IInv, BasisInv
  <2> QED BY <2>2, <2>3, <2>4, <2>5, <2>6 DEF IInv
<1> QED BY <1>3, <1>4

\* A quiet step of the primal or the dual loop to a label of that loop.
LEMMA QuietLoop ==
  ASSUME IInv, UNCHANGED <<lp, tab, drift, engine, loop, at, val, misnamed, bent, boxed>>,
         loop # "push", pc \notin {"factorize", "begin", "done"}, pc' # "done", TypeInv',
         pc' = "factorize" => resume' # "done" /\ (resume' = "ratio" => drift),
         Label' \in (IF loop = "dual" THEN {"dual"} ELSE {"price", "ratio", "recheck"}),
         Label' \in {"ratio", "recheck"} =>
           pick'.dir \in {1, -1} /\ pick'.k \in Nonbasic /\ at[pick'.k] # "fixed"
  PROVE  IInv'
<1>1. Vars' = Vars /\ Nonbasic' = Nonbasic
  BY SameBasis
<1>2. ControlInv'
  <2>1. ControlInv /\ Label = pc
    BY DEF IInv, Label
  <2> QED BY <2>1 DEF ControlInv, Labels, NoBox
<1>3. PickInv'
  BY <1>1 DEF PickInv, Chosen
<1>4. Loose = {}
  BY DEF Loose
<1> QED BY <1>2, <1>3, <1>4, QuietStep

\* Going around.
LEMMA IterateKeeps ==
  ASSUME IInv, Iterate
  PROVE  IInv'
<1>1. /\ UNCHANGED <<lp, tab, drift, engine, resume, loop, at, val, misnamed, bent, boxed, todo>>
      /\ pc \in {"start", "count"} /\ pick' = NoPick
      /\ pc' = IF loop = "dual" THEN "dual" ELSE "price"
  BY DEF Iterate, model, point, relax, Goto
<1>2. loop # "push" /\ TypeInv
  BY <1>1 DEF IInv, ControlInv, Label
<1>3. TypeInv'
  BY <1>1, <1>2, TypeMoved DEF TypeInv
<1> QED BY <1>1, <1>2, <1>3, QuietLoop DEF Label

\* Fresh factors, to price once more.
LEMMA PriceAgainKeeps ==
  ASSUME IInv, PriceAgain
  PROVE  IInv'
<1>1. /\ UNCHANGED <<lp, tab, drift, engine, loop, at, val, misnamed, bent, boxed, todo>>
      /\ pc = "price" /\ pick' = NoPick /\ pc' = "factorize" /\ resume' = "price"
  BY DEF PriceAgain, model, point, relax, Refactorize
<1>2. loop = "primal" /\ TypeInv
  BY <1>1 DEF IInv, ControlInv, Label
<1>3. TypeInv'
  BY <1>1, <1>2, TypeMoved DEF TypeInv
<1> QED BY <1>1, <1>2, <1>3, QuietLoop DEF Label

\* A column that prices is nonbasic, and is not fixed.
LEMMA ChooseEnteringKeeps ==
  ASSUME IInv, ChooseEntering
  PROVE  IInv'
<1>1. /\ UNCHANGED <<lp, tab, drift, engine, loop, at, val, misnamed, bent, boxed, todo>>
      /\ pc = "price"
      /\ pc' = "ratio" \/ (pc' = "factorize" /\ resume' = "ratio" /\ drift)
  BY DEF ChooseEntering, model, point, relax, Refactorize, Goto
<1>2. loop = "primal" /\ TypeInv
  BY <1>1 DEF IInv, ControlInv, Label
<1>3. PICK pos, e : /\ e \in Eligible(pos)
                   /\ pick' = [k |-> e.k, dir |-> e.dir, pos |-> pos, phaseOne |-> PhaseOne(pos),
                               fresh |-> lu = "fresh"]
  BY DEF ChooseEntering
<1>4. e.k \in Nonbasic /\ e.dir \in Directions(e.k) /\ e.dir \in {1, -1}
  <2>1. e \in [k : Nonbasic \ aside, dir : {1, -1}] /\ e.dir \in Directions(e.k)
    BY <1>3, Zenon DEF Eligible
  <2> QED BY <2>1
<1>5. at[e.k] # "fixed"
  BY <1>4 DEF Directions
<1>6. /\ pick' = [k |-> pick'.k, dir |-> pick'.dir, pos |-> pick'.pos,
                  phaseOne |-> pick'.phaseOne, fresh |-> pick'.fresh]
      /\ pick'.k = e.k /\ pick'.dir = e.dir
  BY <1>3
<1>7. TypeInv'
  BY <1>1, <1>2, <1>6, ModelKept DEF TypeInv
<1> QED BY <1>1, <1>2, <1>4, <1>5, <1>6, <1>7, QuietLoop DEF Label

\* The column in hand is kept across the factorization a ray asks for: read through updated
\* factors, it is none that a repair has made basic.
LEMMA RecheckRayKeeps ==
  ASSUME IInv, RecheckRay
  PROVE  IInv'
<1>1. /\ UNCHANGED <<lp, tab, drift, engine, loop, at, val, misnamed, bent, boxed, pick, todo>>
      /\ pc = "ratio" /\ pc' = "factorize" /\ resume' = "recheck" /\ lu = "etas"
  BY DEF RecheckRay, NoBlocker, model, point, relax, Refactorize
<1>2. /\ loop = "primal" /\ TypeInv
      /\ pick.dir \in {1, -1} /\ pick.k \in Nonbasic /\ at[pick.k] # "fixed"
  BY <1>1 DEF IInv, ControlInv, PickInv, Chosen, MadeBasic, Label
<1>3. TypeInv'
  BY <1>1, <1>2, TypeKept
<1> QED BY <1>1, <1>2, <1>3, QuietLoop DEF Label

\* Looking again keeps the column or lets it go.
LEMMA RecheckKeeps ==
  ASSUME IInv, Recheck
  PROVE  IInv'
<1>1. /\ UNCHANGED <<lp, tab, drift, engine, resume, loop, at, val, misnamed, bent, boxed, todo>>
      /\ pc = "recheck"
      /\ \/ /\ \E q : pick' = [pick EXCEPT !.pos = q, !.fresh = TRUE] /\ pc' = "ratio"
            /\ pick.k \in Nonbasic
         \/ pick' = NoPick /\ pc' = "price"
  BY DEF Recheck, model, point, relax, Goto
<1>2. /\ loop = "primal" /\ TypeInv /\ pick.dir \in {1, -1}
      /\ pick.k \in Nonbasic => at[pick.k] # "fixed"
  BY <1>1 DEF IInv, ControlInv, PickInv, Chosen, MadeBasic, Nonbasic, Label
<1>3. CASE pick' = NoPick /\ pc' = "price"
  <2>1. TypeInv'
    BY <1>1, <1>2, <1>3, TypeMoved DEF TypeInv
  <2> QED BY <1>1, <1>2, <1>3, <2>1, QuietLoop DEF Label
<1>4. ASSUME NEW q, pick' = [pick EXCEPT !.pos = q, !.fresh = TRUE], pc' = "ratio",
             pick.k \in Nonbasic
      PROVE  IInv'
  <2>1. /\ pick' = [k |-> pick'.k, dir |-> pick'.dir, pos |-> pick'.pos,
                    phaseOne |-> pick'.phaseOne, fresh |-> pick'.fresh]
        /\ pick'.k = pick.k /\ pick'.dir = pick.dir
    BY <1>2, <1>4 DEF TypeInv
  <2>2. TypeInv'
    BY <1>1, <1>2, <2>1, ModelKept DEF TypeInv
  <2> QED BY <1>1, <1>2, <1>4, <2>1, <2>2, QuietLoop DEF Label
<1> QED BY <1>1, <1>3, <1>4

\* A column set aside stays where it is.
LEMMA SetAsideKeeps ==
  ASSUME IInv, SetAside
  PROVE  IInv'
<1>1. /\ UNCHANGED <<lp, tab, drift, engine, resume, loop>>
      /\ UNCHANGED <<at, val, misnamed, bent, boxed, pick, todo>>
      /\ pc = "ratio" /\ pc' = "price"
  BY DEF SetAside, NoBlocker, model, point, relax, Goto
<1>2. loop = "primal" /\ TypeInv
  BY <1>1 DEF IInv, ControlInv, Label
<1>3. TypeInv'
  BY <1>1, <1>2, TypeKept
<1> QED BY <1>1, <1>2, <1>3, QuietLoop DEF Label

\* Fresh factors, to look for a row once more.
LEMMA DualRefreshKeeps ==
  ASSUME IInv, DualRefresh
  PROVE  IInv'
<1>1. /\ UNCHANGED <<lp, tab, drift, engine, loop, at, val, misnamed, bent, boxed, pick, todo>>
      /\ pc = "dual" /\ pc' = "factorize" /\ resume' = "dual"
  BY DEF DualRefresh, NoRowLeaves, model, point, relax, Refactorize
<1>2. loop = "dual" /\ TypeInv
  BY <1>1 DEF IInv, ControlInv, Label
<1>3. TypeInv'
  BY <1>1, <1>2, TypeKept
<1> QED BY <1>1, <1>2, <1>3, QuietLoop DEF Label

\* The exits of the primal loop, and what both loops share.
LEMMA NothingAllowedKeeps ==
  ASSUME IInv, NothingAllowed
  PROVE  IInv'
<1>1. pc = "start" /\ loop # "push"
  BY DEF NothingAllowed, IInv, ControlInv, Label
<1>2. PICK status \in LimitExits : Finish(status, -Inf, FALSE, NoProof)
  BY DEF NothingAllowed
<1> QED BY <1>1, <1>2, FinishKeeps

\* A limit, in either loop.
LEMMA StopAtLimitKeeps ==
  ASSUME IInv, StopAtLimit
  PROVE  IInv'
<1>1. pc = "count" /\ loop # "push"
  BY DEF StopAtLimit, IInv, ControlInv, Label
<1>2. PICK status, bound, sure :
        IF loop # "dual" THEN Finish(status, -Inf, FALSE, NoProof)
        ELSE FinishRestored(status, bound, sure, NoProof)
  BY Zenon DEF StopAtLimit
<1>3. CASE loop # "dual"
  BY <1>1, <1>2, <1>3, FinishKeeps
<1>4. CASE loop = "dual"
  BY <1>1, <1>2, <1>4, FinishRestoredKeeps
<1> QED BY <1>3, <1>4

\* The end of phase 1.
LEMMA PhaseOneStallsKeeps ==
  ASSUME IInv, PhaseOneStalls
  PROVE  IInv'
<1>1. pc = "price" /\ loop # "push"
  BY DEF PhaseOneStalls, IInv, ControlInv, Label
<1>2. PICK status, sure, proof : Finish(status, -Inf, sure, proof)
  BY Zenon DEF PhaseOneStalls
<1> QED BY <1>1, <1>2, FinishKeeps

\* Every other exit of the primal loop.
LEMMA PrimalExitsKeep ==
  ASSUME IInv, Diverged \/ PrimalOptimal \/ PhaseOneBroken \/ Unbounded \/ Stalled
  PROVE  IInv'
<1>1. pc \in {"price", "ratio"} /\ loop # "push"
  BY DEF Diverged, PrimalOptimal, PhaseOneBroken, Unbounded, Stalled, NoBlocker,
         IInv, ControlInv, Label
<1>2. PICK status, sure, proof : Finish(status, -Inf, sure, proof)
  BY Zenon DEF Diverged, PrimalOptimal, PhaseOneBroken, Unbounded, Stalled
<1> QED BY <1>1, <1>2, FinishKeeps

\* A basis that cannot be repaired ends either loop.
LEMMA SingularKeeps ==
  ASSUME IInv, Singular
  PROVE  IInv'
<1>1. /\ pc = "factorize"
      /\ IF loop = "dual" THEN FinishRestored("numerical_error", -Inf, FALSE, NoProof)
         ELSE Finish("numerical_error", -Inf, FALSE, NoProof)
  BY DEF Singular
<1>2. CASE loop # "dual"
  BY <1>1, <1>2, FinishKeeps
<1>3. CASE loop = "dual"
  BY <1>1, <1>3, FinishRestoredKeeps
<1> QED BY <1>2, <1>3

\* A deadline inside a factorization ends either loop, and no push.
LEMMA FactorizationAbandonedKeeps ==
  ASSUME IInv, FactorizationAbandoned
  PROVE  IInv'
<1>1. /\ pc = "factorize" /\ engine # "push"
      /\ IF loop = "dual" THEN FinishRestored("time_limit", -Inf, FALSE, NoProof)
         ELSE Finish("time_limit", -Inf, FALSE, NoProof)
  BY DEF FactorizationAbandoned
<1>2. loop # "push"
  BY <1>1 DEF IInv, ControlInv
<1>3. CASE loop # "dual"
  BY <1>1, <1>2, <1>3, FinishKeeps
<1>4. CASE loop = "dual"
  BY <1>1, <1>4, FinishRestoredKeeps
<1> QED BY <1>3, <1>4

\* The exits of the dual loop, and its hand-overs.
LEMMA DualOptimalKeeps ==
  ASSUME IInv, DualOptimal
  PROVE  IInv'
<1>1. pc = "dual" /\ loop = "dual"
  BY DEF DualOptimal, NoRowLeaves, IInv, ControlInv, Label
<1>2. HandOver \/ \E sure : FinishRestored("optimal", -Inf, sure, NoProof)
  BY Zenon DEF DualOptimal
<1> QED BY <1>1, <1>2, HandOverKeeps, FinishRestoredKeeps

\* A row without candidates asks for fresh factors, hands over or ends.
LEMMA DualInfeasibleKeeps ==
  ASSUME IInv, DualInfeasible
  PROVE  IInv'
<1>1. pc = "dual" /\ loop = "dual"
  BY DEF DualInfeasible, IInv, ControlInv, Label
<1>2. \/ /\ Refactorize("dual")
           /\ UNCHANGED <<model, loop, point, relax, lu, xs, aside, pick, todo, ans>>
      \/ HandOver
      \/ \E proof : FinishRestored("infeasible", -Inf, TRUE, proof)
  BY Zenon DEF DualInfeasible
<1>3. CASE /\ Refactorize("dual")
           /\ UNCHANGED <<model, loop, point, relax, lu, xs, aside, pick, todo, ans>>
  <2>1. /\ UNCHANGED <<lp, tab, drift, engine, loop, at, val, misnamed, bent, boxed, pick, todo>>
        /\ pc' = "factorize" /\ resume' = "dual"
    BY <1>3 DEF model, point, relax, Refactorize
  <2>2. TypeInv'
    BY <2>1, TypeKept DEF IInv
  <2> QED BY <1>1, <2>1, <2>2, QuietLoop DEF Label
<1> QED BY <1>1, <1>2, <1>3, HandOverKeeps, FinishRestoredKeeps

\* A dual loop that makes no progress hands over.
LEMMA DualStallsKeeps ==
  ASSUME IInv, DualStalls
  PROVE  IInv'
<1>1. pc = "dual" /\ loop = "dual" /\ HandOver
  BY DEF DualStalls, IInv, ControlInv, Label
<1> QED BY <1>1, HandOverKeeps

\* A push that ends too far outside gives up; another goes on as the primal loop.
LEMMA PushedKeeps ==
  ASSUME IInv, Pushed
  PROVE  IInv'
<1>1. /\ pc = "pushed" /\ loop = "push"
      /\ \/ Finish("not_solved", -Inf, FALSE, NoProof)
         \/ /\ loop' = "primal" /\ pc' = "start"
            /\ UNCHANGED <<lp, tab, drift, engine, resume>>
            /\ UNCHANGED <<at, val, misnamed, bent, boxed, pick, todo>>
  BY DEF Pushed, IInv, ControlInv, Label, Goto, model, point, relax
<1>2. ASSUME loop' = "primal", pc' = "start",
             UNCHANGED <<lp, tab, drift, engine, resume>>,
             UNCHANGED <<at, val, misnamed, bent, boxed, pick, todo>>
      PROVE  IInv'
  <2>1. TypeInv'
    BY <1>2, TypeKept DEF IInv
  <2>2. ControlInv'
    BY <1>1, <1>2 DEF IInv, ControlInv, Label, Labels, NoBox
  <2>3. PickInv' /\ Loose = {}
    BY <1>1, <1>2 DEF PickInv, Label, Loose
  <2> QED BY <1>1, <1>2, <2>1, <2>2, <2>3, QuietStep
<1> QED BY <1>1, <1>2, FinishKeeps

-----------------------------------------------------------------------------
\* Steps that move variables

\* Relaxing the bounds leaves every variable parked: on a bound, or on the one beside it.
LEMMA PerturbBoundsKeeps ==
  ASSUME IInv, PerturbBounds
  PROVE  IInv'
<1>1. /\ UNCHANGED <<lp, tab, drift, engine, resume, loop, at, val, misnamed, boxed, todo>>
      /\ pc = "ratio" /\ pc' = "price" /\ pick' = NoPick /\ bent' = TRUE
  BY DEF PerturbBounds, model, point, Goto
<1>2. loop = "primal" /\ TypeInv /\ Loose = {}
  BY <1>1 DEF IInv, ControlInv, Label, Loose
<1>3. TypeInv'
  BY <1>1, <1>2, TypeMoved DEF TypeInv
<1>4. ControlInv' /\ PickInv'
  BY <1>1, <1>2 DEF IInv, ControlInv, PickInv, Label, Labels, NoBox
<1>5. Nonbasic' = Nonbasic /\ BasisInv'
  BY <1>1, SameBasis, BasisKept DEF IInv, BasisInv
<1> QED BY <1>1, <1>2, <1>3, <1>4, <1>5, MovingStep

\* Giving the relaxed bounds up puts every variable back on a true one.
LEMMA RestoreBoundsKeeps ==
  ASSUME IInv, RestoreBounds
  PROVE  IInv'
<1>1. /\ UNCHANGED <<lp, tab, drift, engine, resume, loop, at, misnamed, boxed, todo>>
      /\ pc = "price" /\ pc' = "price" /\ pick' = NoPick /\ bent' = FALSE /\ val' = Unbent /\ bent
  BY DEF RestoreBounds, model
<1>2. loop = "primal" /\ TypeInv /\ Loose = {}
  BY <1>1 DEF IInv, ControlInv, Label, Loose
<1>3. Vars' = Vars /\ Nonbasic' = Nonbasic /\ Boxed' = Boxed /\ Loose' = {}
  BY <1>1, <1>2, SameBasis DEF Boxed, Loose, Label
<1>4. TypeInv'
  <2>1. val' = [k \in Vars |-> val'[k]]
    BY <1>1 DEF Unbent
  <2> QED BY <1>1, <1>2, <2>1, TypeMoved DEF TypeInv
<1>5. ControlInv' /\ PickInv'
  BY <1>1, <1>2 DEF IInv, ControlInv, PickInv, Label, Labels, NoBox
<1>6. ParkInv'
  <2> SUFFICES ASSUME NEW k \in Nonbasic \ Boxed PROVE Parked(k)'
    BY <1>3 DEF ParkInv
  <2>1. Parked(k)
    BY <1>1, <1>2 DEF IInv, ParkInv
  <2>2. val'[k] = IF at[k] \in {"lower", "upper"}
                  THEN ParkValue(at[k], TrueLo(k), TrueUp(k)) ELSE val[k]
    BY <1>1 DEF Unbent, Nonbasic
  <2>3. /\ at[k] \in Parkings(TrueLo(k), TrueUp(k))
        /\ val'[k] = ParkValue(at[k], TrueLo(k), TrueUp(k))
    BY <2>1, <2>2 DEF Parked
  <2> QED BY <1>1, <2>3, ModelKept DEF Parked
<1>7. ReportIsOfTheModel'
  BY <1>1 DEF ReportIsOfTheModel
<1>8. BasisInv'
  BY <1>1, SameBasis, BasisKept DEF IInv, BasisInv
<1> QED BY <1>4, <1>5, <1>6, <1>7, <1>8 DEF IInv

\* A finite width is the distance of two finite bounds.
LEMMA FiniteWidth ==
  ASSUME lp \in Lps, NEW k \in Vars \ Boxed, Width(k) # Inf
  PROVE  Finite(TrueLo(k)) /\ Finite(TrueUp(k))
BY WorkingBounds DEF Width

\* A variable goes from the one bound to the other, when it has two.
LEMMA StoppedAcross ==
  ASSUME lp \in Lps, NEW k \in Vars \ Boxed, NEW side \in {"lower", "upper"},
         Width(k) # Inf, at[k] # "fixed", Parked(k)
  PROVE  Stopped(k, side, Bound(k, side))
<1>1. TrueLo(k) # TrueUp(k)
  BY DEF Parked, Parkings
<1> QED BY <1>1, WorkingBounds, FiniteWidth DEF Stopped, Bound, Parkings, ParkValue

\* A move is at a bound of a basic variable, or across a finite width.
LEMMA MovesAre ==
  ASSUME NEW move \in Moves
  PROVE  \/ move.b \in Basis /\ move.side \in {"lower", "upper"}
         \/ move.side = "flip" /\ Width(pick.k) # Inf
<1>1. \A b : Stops(b) \subseteq {"lower", "upper"}
  BY DEF Stops
<1>2. \A block \in Blocks : block.b \in Basis /\ block.side \in {"lower", "upper"}
  BY <1>1 DEF Blocks
<1> DEFINE shortest == Min({Width(pick.k)} \cup {Step(block) : block \in Blocks})
           tight == {[b |-> block.b, side |-> block.side, zero |-> shortest = 0] :
                       block \in {c \in Blocks : Step(c) = shortest}}
           blocked == {[b |-> block.b, side |-> block.side, zero |-> zero] :
                         block \in Blocks, zero \in BOOLEAN}
           loose == {m \in [b : Basis, side : {"lower", "upper"}, zero : BOOLEAN] :
                       Finite(Bound(m.b, m.side))}
           inside == \A block \in Blocks : Step(block) > Width(pick.k)
<1>3. ASSUME Exact(lu), Exact(xs)
      PROVE  Moves = tight \cup (IF Width(pick.k) # Inf /\ inside
                                THEN {Flip(Width(pick.k) = 0)} ELSE {})
  BY <1>3, SMT DEF Moves
<1>4. ASSUME Exact(lu), ~Exact(xs)
      PROVE  Moves = blocked \cup (IF Width(pick.k) # Inf THEN {Flip(FALSE)} ELSE {})
  BY <1>4, SMT DEF Moves
<1>5. ASSUME ~Exact(lu)
      PROVE  Moves = loose \cup (IF Width(pick.k) # Inf THEN {Flip(FALSE)} ELSE {})
  BY <1>5, SMT DEF Moves
<1>6. \A m \in tight \cup blocked \cup loose : m.b \in Basis /\ m.side \in {"lower", "upper"}
  <2> HIDE DEF shortest
  <2> QED BY <1>2
<1>7. Flip(Width(pick.k) = 0).side = "flip" /\ Flip(FALSE).side = "flip"
  BY DEF Flip
<1> HIDE DEF shortest, tight, blocked, loose, inside
<1> QED BY <1>3, <1>4, <1>5, <1>6, <1>7

\* The entering column crosses to its other bound.  One that a repair has made basic stays
\* basic, with the status of the bound.
LEMMA BoundFlipKeeps ==
  ASSUME IInv, BoundFlip
  PROVE  IInv'
<1> DEFINE side == IF pick.dir > 0 THEN "upper" ELSE "lower"
<1>1. /\ UNCHANGED <<lp, tab, drift, engine, resume, loop, bent, boxed, pick, todo>>
      /\ pc = "ratio" /\ pc' = "count"
  BY DEF BoundFlip, model, relax, Goto
<1>2. Width(pick.k) # Inf
  BY MovesAre DEF BoundFlip
<1>3. side \in {"lower", "upper"}
  OBVIOUS
<1>4. /\ loop = "primal" /\ TypeInv /\ BasisInv /\ Loose = {} /\ Boxed = {} /\ lp \in Lps
      /\ Chosen \/ MadeBasic
  BY <1>1 DEF IInv, ControlInv, PickInv, TypeInv, Label, Loose, Boxed, NoBox
<1>5. CASE pick.k \in Basis
  <2>1. misnamed' = misnamed \cup {pick.k} /\ UNCHANGED <<at, val>>
    BY <1>5, Zenon DEF BoundFlip
  <2>2. MadeBasic /\ drift /\ pick.k \in Rows(lp)
    BY <1>1, <1>4, <1>5 DEF Chosen, MadeBasic, Nonbasic
  <2>3. Basis' = Basis /\ Nonbasic' = Nonbasic
    BY <1>1, <2>1, SameBasis
  <2>4. BasisInv'
    BY <1>1, <1>4, <1>5, <2>1, <2>2, <2>3, BasisKept DEF BasisInv
  <2>5. TypeInv'
    BY <1>1, <1>4, <2>1, TypeKept
  <2>6. ControlInv' /\ PickInv'
    BY <1>1, <1>4, <2>2 DEF IInv, ControlInv, PickInv, Label, Labels, NoBox
  <2> QED BY <1>1, <1>4, <2>1, <2>3, <2>4, <2>5, <2>6, MovingStep
<1>6. CASE pick.k \notin Basis
  <2>1. /\ at' = [at EXCEPT ![pick.k] = side]
        /\ val' = [val EXCEPT ![pick.k] = Bound(pick.k, side)] /\ misnamed' = misnamed
    BY <1>6 DEF BoundFlip, Bound
  <2> HIDE DEF side
  <2>2. pick.k \in Nonbasic /\ at[pick.k] # "fixed"
    BY <1>4, <1>6 DEF Chosen, MadeBasic
  <2>3. Parked(pick.k) /\ pick.k \in Vars
    BY <1>1, <1>4, <2>2 DEF IInv, ParkInv, Nonbasic
  <2>4. Stopped(pick.k, side, Bound(pick.k, side))
    BY <1>2, <1>3, <1>4, <2>2, <2>3, StoppedAcross
  <2>5. at' \in [Vars -> Statuses] /\ val' = [k \in Vars |-> val'[k]]
    BY <1>3, <1>4, <2>1, <2>3 DEF TypeInv, Statuses
  <2>6. TypeInv'
    BY <1>1, <1>4, <2>5, TypeMoved DEF TypeInv
  <2>7. ControlInv' /\ PickInv'
    BY <1>1, <1>4, <2>1 DEF IInv, ControlInv, PickInv, Label, Labels, NoBox
  <2>8. Basis' = Basis
    BY <1>1, <1>3, <1>4, <1>6, <2>1, <2>3, ModelKept DEF Basis, TypeInv
  <2>9. BasisInv'
    BY <1>1, <1>4, <2>1, <2>8, BasisKept DEF BasisInv
  <2>10. ASSUME NEW k \in Nonbasic'
         PROVE  \/ k \in Nonbasic \ Loose /\ at'[k] = at[k] /\ val'[k] = val[k]
                \/ Stopped(k, at'[k], val'[k])
    <3>1. k \in Vars /\ at'[k] # "basic"
      BY <1>1, ModelKept DEF Nonbasic, Basis
    <3>2. CASE k = pick.k
      BY <1>4, <2>1, <2>4, <3>1, <3>2 DEF TypeInv
    <3>3. CASE k # pick.k
      BY <1>4, <2>1, <3>1, <3>3 DEF TypeInv, Nonbasic, Basis
    <3> QED BY <3>2, <3>3
  <2> QED BY <1>1, <2>6, <2>7, <2>9, <2>10, MovingStep
<1> QED BY <1>5, <1>6

\* A basic variable leaves for a bound it has: it stops there.
LEMMA LeavesParked ==
  ASSUME TypeInv, UNCHANGED lp, NEW k \in Nonbasic, NEW b \in Basis,
         NEW side \in {"lower", "upper"}, Finite(Bound(b, side)), Swap(k, b, side)
  PROVE  /\ at' \in [Vars -> Statuses] /\ val' = [j \in Vars |-> val'[j]]
         /\ \A j \in Nonbasic' \ Boxed :
              \/ j \in Nonbasic \ {k} /\ at'[j] = at[j] /\ val'[j] = val[j]
              \/ Stopped(j, at'[j], val'[j])
         /\ Basis' = (Basis \ {b}) \cup {k} /\ misnamed' \subseteq misnamed \ {b}
<1> DEFINE status == IF Lo(b) = Up(b) THEN "fixed" ELSE side
<1>1. /\ at' = [at EXCEPT ![b] = status, ![k] = "basic"]
      /\ val' = [val EXCEPT ![b] = Bound(b, side), ![k] = 0]
  BY DEF Swap
<1>2. status \in Statuses /\ k \in Vars /\ b \in Vars /\ at \in [Vars -> Statuses] /\ lp \in Lps
  BY DEF Statuses, Nonbasic, Basis, TypeInv
<1>3. b \notin Boxed => Stopped(b, status, Bound(b, side))
  BY <1>2, StoppedAtBound
<1> HIDE DEF status
<1>4. at' \in [Vars -> Statuses]
  BY <1>1, <1>2 DEF Statuses
<1>5. val' = [j \in Vars |-> val'[j]]
  <2>1. val = [j \in Vars |-> val[j]]
    BY DEF TypeInv
  <2> QED BY <1>1, <2>1
<1>6. ASSUME NEW j \in Nonbasic' \ Boxed
      PROVE  \/ j \in Nonbasic \ {k} /\ at'[j] = at[j] /\ val'[j] = val[j]
             \/ Stopped(j, at'[j], val'[j])
  <2>1. j \in Vars /\ at'[j] # "basic"
    BY <1>6, ModelKept DEF Nonbasic, Basis
  <2>2. j # k
    BY <1>1, <1>2, <2>1
  <2>3. CASE j = b
    <3>1. at'[j] = status /\ val'[j] = Bound(b, side)
      BY <1>1, <1>2, <2>2, <2>3 DEF TypeInv
    <3> QED BY <1>3, <1>6, <2>3, <3>1
  <2>4. CASE j # b
    <3>1. at'[j] = at[j] /\ val'[j] = val[j]
      BY <1>1, <1>2, <2>1, <2>2, <2>4 DEF TypeInv
    <3> QED BY <2>1, <2>2, <3>1 DEF Nonbasic, Basis
  <2> QED BY <2>3, <2>4
<1>7. status # "basic"
  BY DEF status
<1>8. Basis' = (Basis \ {b}) \cup {k}
  <2> SUFFICES ASSUME NEW j \in Vars
               PROVE  at'[j] = "basic" <=> (at[j] = "basic" /\ j # b) \/ j = k
    BY <1>2, ModelKept DEF Basis
  <2> QED BY <1>1, <1>2, <1>7
<1>9. misnamed' \subseteq misnamed \ {b}
  BY DEF Swap
<1> QED BY <1>4, <1>5, <1>6, <1>8, <1>9

\* A basic variable does not stop itself from moving but at its own bound: the others do not
\* move with it.
LEMMA StoppedByItself ==
  ASSUME IInv, pc = "ratio", NEW move \in Moves, move.side # "flip", pick.k \in Basis
  PROVE  move.b = pick.k
<1>1. MadeBasic /\ pick.dir \in {1, -1} /\ TableauInv
  BY DEF IInv, PickInv, BasisInv, Label, Chosen, Nonbasic
<1>2. lu = "fresh" /\ xs = "fresh" /\ Basis \in DOMAIN tab
  BY <1>1 DEF MadeBasic
<1>3. \A b \in Basis : b # pick.k => Rate(b) = 0
  <2> SUFFICES ASSUME NEW b \in Basis, b # pick.k PROVE Rate(b) = 0
    OBVIOUS
  <2>1. tab[Basis][pick.k][b] = 0
    BY <1>1, <1>2 DEF TableauInv
  <2> QED BY <1>1, <2>1 DEF Rate
<1>4. \A b \in Basis : b # pick.k => Stops(b) = {}
  BY <1>3 DEF Stops
<1>5. \A block \in Blocks : block.b = pick.k
  BY <1>4 DEF Blocks
<1> DEFINE shortest == Min({Width(pick.k)} \cup {Step(block) : block \in Blocks})
           tight == {[b |-> block.b, side |-> block.side, zero |-> shortest = 0] :
                       block \in {c \in Blocks : Step(c) = shortest}}
           inside == \A block \in Blocks : Step(block) > Width(pick.k)
<1>6. Exact(lu) /\ Exact(xs)
  BY <1>2 DEF Exact
<1>7. Moves = tight \cup (IF Width(pick.k) # Inf /\ inside
                          THEN {Flip(Width(pick.k) = 0)} ELSE {})
  BY <1>6, SMT DEF Moves
<1>8. \A m \in tight : m.b = pick.k
  <2> HIDE DEF shortest
  <2> QED BY <1>5
<1>9. Flip(Width(pick.k) = 0).side = "flip"
  BY DEF Flip
<1> HIDE DEF shortest, tight, inside
<1> QED BY <1>7, <1>8, <1>9

\* The entering column takes the place of the one that stopped it.
LEMMA PivotKeeps ==
  ASSUME IInv, Pivot
  PROVE  IInv'
<1>1. /\ UNCHANGED <<lp, tab, drift, engine, loop, bent, boxed, todo>>
      /\ pc = "ratio" /\ pick' = NoPick
      /\ pc' = "count" \/ (pc' = "factorize" /\ resume' = "count")
  BY DEF Pivot, AfterPivot, Refactorize, Goto, model, relax
<1>2. PICK move \in Moves : /\ move.side # "flip" /\ Finite(Bound(move.b, move.side))
                            /\ Swap(pick.k, move.b, move.side)
  BY DEF Pivot
<1>3. move.b \in Basis /\ move.side \in {"lower", "upper"}
  BY <1>2, MovesAre
<1>4. /\ loop = "primal" /\ TypeInv /\ BasisInv /\ Loose = {} /\ Label' = "count"
      /\ pick.k \in Nonbasic \/ pick.k \in Basis
  BY <1>1 DEF IInv, ControlInv, PickInv, Chosen, MadeBasic, Label, Loose
<1>5. /\ at' \in [Vars -> Statuses] /\ val' = [j \in Vars |-> val'[j]] /\ BasisInv'
      /\ \A j \in Nonbasic' \ Boxed :
           \/ j \in Nonbasic /\ at'[j] = at[j] /\ val'[j] = val[j]
           \/ Stopped(j, at'[j], val'[j])
  <2>1. CASE pick.k \in Nonbasic
    BY <1>1, <1>2, <1>3, <1>4, <2>1, LeavesParked, BasisExchanged
  <2>2. CASE pick.k \in Basis
    <3>1. move.b = pick.k
      BY <1>1, <1>2, <2>2, StoppedByItself
    <3> DEFINE status == IF Lo(move.b) = Up(move.b) THEN "fixed" ELSE move.side
               value == Bound(move.b, move.side)
    <3>2. /\ at' = [at EXCEPT ![pick.k] = status, ![pick.k] = "basic"]
          /\ val' = [val EXCEPT ![pick.k] = value, ![pick.k] = 0]
          /\ misnamed' = misnamed \ {pick.k}
      BY <1>2, <3>1 DEF Swap
    <3> HIDE DEF status, value
    <3>3. pick.k \in Vars /\ at[pick.k] = "basic" /\ at \in [Vars -> Statuses]
      BY <1>4, <2>2 DEF Basis, TypeInv
    <3>4. at' = at
      BY <3>2, <3>3
    <3>5. val = [j \in Vars |-> val[j]]
      BY <1>4 DEF TypeInv
    <3>6. val' = [j \in Vars |-> val'[j]] /\ \A j \in Vars : j # pick.k => val'[j] = val[j]
      BY <3>2, <3>5
    <3>7. Basis' = Basis /\ Nonbasic' = Nonbasic
      BY <1>1, <3>4, SameBasis
    <3>8. BasisInv'
      BY <1>1, <1>4, <3>2, <3>7, BasisKept DEF BasisInv
    <3>9. \A j \in Nonbasic : j \in Vars /\ j # pick.k
      BY <2>2 DEF Nonbasic
    <3> QED BY <3>3, <3>4, <3>6, <3>7, <3>8, <3>9
  <2> QED BY <1>4, <2>1, <2>2
<1>6. TypeInv'
  BY <1>1, <1>4, <1>5, TypeMoved DEF TypeInv
<1>7. misnamed' \subseteq misnamed
  BY <1>2 DEF Swap
<1>8. ControlInv' /\ PickInv'
  BY <1>1, <1>4, <1>7 DEF IInv, ControlInv, PickInv, Labels, NoBox
<1> QED BY <1>1, <1>4, <1>5, <1>6, <1>8, MovingStep

-----------------------------------------------------------------------------
\* The dual loop

\* The row that leaves has the bound it is said to violate.
LEMMA LeavesAtBound ==
  ASSUME NEW row \in Leaving
  PROVE  row.b \in Basis /\ row.side \in {"lower", "upper"} /\ Finite(Bound(row.b, row.side))
<1>1. /\ row \in [b : Basis, side : {"lower", "upper"}]
      /\ IF Exact(lu) THEN Where(row.b) = (IF row.side = "upper" THEN "above" ELSE "below")
         ELSE Finite(Bound(row.b, row.side))
  BY Zenon DEF Leaving
<1>2. /\ Where(row.b) = "above" => Finite(Up(row.b))
      /\ Where(row.b) = "below" => Finite(Lo(row.b))
  BY DEF Where
<1> QED BY <1>1, <1>2 DEF Bound

\* What the ratio test flips has two bounds; what it lets in is nonbasic.
LEMMA DualStepsAre ==
  ASSUME NEW row \in Leaving, NEW step \in DualSteps(row)
  PROVE  /\ step.k \in Nonbasic /\ step.flips \subseteq Nonbasic
         /\ \A k \in step.flips : Width(k) # Inf /\ at[k] \in {"lower", "upper", "free"}
<1>1. CASE Exact(lu)
  <2>1. PICK flips, k :
          /\ step = [flips |-> flips, k |-> k] /\ k \in Candidates(row)
          /\ flips \in SUBSET Candidates(row) /\ \A j \in flips : Width(j) # Inf
    BY <1>1, Zenon DEF DualSteps
  <2>2. \A j \in Candidates(row) : j \in Nonbasic /\ at[j] \in {"lower", "upper", "free"}
    BY DEF Candidates
  <2> QED BY <2>1, <2>2
<1>2. CASE ~Exact(lu)
  <2>1. PICK flips, k :
          /\ step = [flips |-> flips, k |-> k] /\ k \in Nonbasic
          /\ flips \in SUBSET Nonbasic
          /\ \A j \in flips : Width(j) # Inf /\ at[j] \in {"lower", "upper"}
    BY <1>2, Zenon DEF DualSteps
  <2> QED BY <2>1
<1> QED BY <1>1, <1>2

\* The boxed flips aside, what is flipped arrives at a bound of the model.
LEMMA FlippedParks ==
  ASSUME IInv, pc # "done", loop = "dual", NEW ks \in SUBSET Nonbasic,
         \A k \in ks : Width(k) # Inf /\ at[k] \in {"lower", "upper", "free"}
  PROVE  /\ Flipped(ks, at) \in [Vars -> Statuses]
         /\ FlippedValue(ks) = [k \in Vars |-> FlippedValue(ks)[k]]
         /\ \A k \in Nonbasic : Flipped(ks, at)[k] # "basic"
         /\ \A k \in Basis : Flipped(ks, at)[k] = "basic"
         /\ \A k \in Nonbasic \ Boxed : Stopped(k, Flipped(ks, at)[k], FlippedValue(ks)[k])
<1>1. lp \in Lps /\ at \in [Vars -> Statuses] /\ Loose = {}
  BY DEF IInv, TypeInv, Loose
<1>2. \A k \in Vars :
        /\ Flipped(ks, at)[k] = IF k \notin ks THEN at[k]
                                ELSE IF at[k] = "lower" THEN "upper" ELSE "lower"
        /\ FlippedValue(ks)[k] = IF k \notin ks THEN val[k]
                                 ELSE IF at[k] = "lower" THEN Up(k) ELSE Lo(k)
  BY DEF Flipped, FlippedValue
<1>3. Flipped(ks, at) \in [Vars -> Statuses]
  BY <1>1 DEF Flipped, Statuses
<1>4. FlippedValue(ks) = [k \in Vars |-> FlippedValue(ks)[k]]
  BY DEF FlippedValue
<1>5. \A k \in Nonbasic : Flipped(ks, at)[k] # "basic"
  BY <1>2 DEF Nonbasic, Basis
<1>6. \A k \in Basis : Flipped(ks, at)[k] = "basic"
  BY <1>2 DEF Nonbasic, Basis
<1>7. ASSUME NEW k \in Nonbasic \ Boxed
      PROVE  Stopped(k, Flipped(ks, at)[k], FlippedValue(ks)[k])
  <2>1. k \in Vars /\ Parked(k)
    BY <1>1 DEF IInv, ParkInv, Nonbasic
  <2>2. CASE k \notin ks
    BY <1>2, <2>1, <2>2, ParkedStopped
  <2>3. CASE k \in ks
    <3> DEFINE side == IF at[k] = "lower" THEN "upper" ELSE "lower"
    <3>1. Stopped(k, side, Bound(k, side))
      BY <1>1, <1>7, <2>1, <2>3, StoppedAcross
    <3>2. Flipped(ks, at)[k] = side /\ FlippedValue(ks)[k] = Bound(k, side)
      BY <1>2, <2>1, <2>3 DEF Bound
    <3> QED BY <3>1, <3>2
  <2> QED BY <2>2, <2>3
<1> QED BY <1>3, <1>4, <1>5, <1>6, <1>7

\* The flips alone, made before the pivot was looked at.
LEMMA FlipsKeep ==
  ASSUME IInv, pc = "dual", NEW row \in Leaving, NEW step \in DualSteps(row),
         at' = Flipped(step.flips, at), val' = FlippedValue(step.flips),
         UNCHANGED <<lp, tab, drift, engine, loop, misnamed, bent, boxed, pick, todo>>,
         pc' \in {"count", "dual"} \/ (pc' = "factorize" /\ resume' = "dual")
  PROVE  IInv'
<1>1. loop = "dual" /\ TypeInv /\ Label' \in {"count", "dual"}
  BY DEF IInv, ControlInv, Label
<1>2. step.flips \in SUBSET Nonbasic
  BY DualStepsAre
<1>3. \A k \in step.flips : Width(k) # Inf /\ at[k] \in {"lower", "upper", "free"}
  BY DualStepsAre
<1>4. /\ at' \in [Vars -> Statuses] /\ val' = [k \in Vars |-> val'[k]]
      /\ \A k \in Nonbasic \ Boxed : Stopped(k, at'[k], val'[k])
      /\ \A k \in Basis : at'[k] = "basic"
      /\ \A k \in Nonbasic : at'[k] # "basic"
  BY <1>1, <1>2, <1>3, FlippedParks
<1>5. TypeInv'
  BY <1>1, <1>4, TypeMoved DEF TypeInv
<1>6. ControlInv' /\ PickInv'
  BY <1>1 DEF IInv, ControlInv, PickInv, Labels, NoBox, Label
<1>7. Basis' = Basis
  BY <1>4, ModelKept DEF Nonbasic, Basis
<1>8. \A k \in Nonbasic' : k \in Nonbasic
  BY <1>7, ModelKept DEF Nonbasic
<1>9. BasisInv'
  BY <1>7, BasisKept DEF IInv, BasisInv
<1> QED BY <1>1, <1>4, <1>5, <1>6, <1>8, <1>9, MovingStep

\* The flips of a pivot that is not made.
LEMMA FlipsOnlyKeeps ==
  ASSUME IInv, FlipsOnly
  PROVE  IInv'
<1>1. /\ UNCHANGED <<lp, tab, drift, engine, loop, misnamed, bent, boxed, pick, todo>>
      /\ pc = "dual"
      /\ pc' = "count" \/ (pc' = "factorize" /\ resume' = "dual")
  BY DEF FlipsOnly, model, relax, Goto, Refactorize
<1>2. PICK row \in Leaving : \E step \in DualSteps(row) :
        at' = Flipped(step.flips, at) /\ val' = FlippedValue(step.flips)
  BY DEF FlipsOnly
<1> QED BY <1>1, <1>2, FlipsKeep

\* The flips of a step of zero.
LEMMA PerturbCostsKeeps ==
  ASSUME IInv, PerturbCosts
  PROVE  IInv'
<1>1. /\ UNCHANGED <<lp, tab, drift, engine, loop, misnamed, bent, boxed, pick, todo>>
      /\ pc = "dual" /\ pc' = "dual"
  BY DEF PerturbCosts, model, Goto
<1>2. PICK row \in Leaving : \E step \in DualSteps(row) :
        at' = Flipped(step.flips, at) /\ val' = FlippedValue(step.flips)
  BY Zenon DEF PerturbCosts
<1> QED BY <1>1, <1>2, FlipsKeep

\* The flips, and then the pivot.
LEMMA DualPivotKeeps ==
  ASSUME IInv, DualPivot
  PROVE  IInv'
<1>1. /\ UNCHANGED <<lp, tab, drift, engine, loop, misnamed, bent, boxed, pick, todo>>
      /\ pc = "dual"
      /\ pc' = "count" \/ (pc' = "factorize" /\ resume' = "count")
  BY DEF DualPivot, AfterPivot, Refactorize, Goto, model, relax
<1>2. PICK row \in Leaving : \E step \in DualSteps(row) :
        /\ at' = [Flipped(step.flips, at) EXCEPT
                    ![row.b] = IF Lo(row.b) = Up(row.b) THEN "fixed" ELSE row.side,
                    ![step.k] = "basic"]
        /\ val' = [FlippedValue(step.flips) EXCEPT ![row.b] = Bound(row.b, row.side), ![step.k] = 0]
  BY Zenon DEF DualPivot
<1>3. PICK step \in DualSteps(row) :
        /\ at' = [Flipped(step.flips, at) EXCEPT
                    ![row.b] = IF Lo(row.b) = Up(row.b) THEN "fixed" ELSE row.side,
                    ![step.k] = "basic"]
        /\ val' = [FlippedValue(step.flips) EXCEPT ![row.b] = Bound(row.b, row.side), ![step.k] = 0]
  BY <1>2
<1> DEFINE status == IF Lo(row.b) = Up(row.b) THEN "fixed" ELSE row.side
           flipped == Flipped(step.flips, at)
           value == FlippedValue(step.flips)
<1>4. loop = "dual" /\ TypeInv /\ lp \in Lps /\ Label' = "count" /\ pc # "done"
  BY <1>1 DEF IInv, ControlInv, Label, TypeInv
<1>5. row.b \in Basis /\ row.side \in {"lower", "upper"} /\ Finite(Bound(row.b, row.side))
  BY LeavesAtBound
<1>6. /\ step.k \in Nonbasic /\ step.flips \in SUBSET Nonbasic
      /\ \A k \in step.flips : Width(k) # Inf /\ at[k] \in {"lower", "upper", "free"}
  BY DualStepsAre
<1>7. /\ flipped \in [Vars -> Statuses] /\ value = [k \in Vars |-> value[k]]
      /\ \A k \in Basis : flipped[k] = "basic"
      /\ \A k \in Nonbasic : flipped[k] # "basic"
      /\ \A k \in Nonbasic \ Boxed : Stopped(k, flipped[k], value[k])
  BY <1>4, <1>6, FlippedParks
<1>8. status \in Statuses \ {"basic"} /\ step.k \in Vars /\ row.b \in Vars /\ row.b # step.k
  BY <1>5, <1>6 DEF Statuses, Nonbasic, Basis
<1>9. row.b \notin Boxed => Stopped(row.b, status, Bound(row.b, row.side))
  BY <1>4, <1>5, <1>8, StoppedAtBound
<1>10. /\ at' = [flipped EXCEPT ![row.b] = status, ![step.k] = "basic"]
       /\ val' = [value EXCEPT ![row.b] = Bound(row.b, row.side), ![step.k] = 0]
  BY <1>3
<1> HIDE DEF status, flipped, value
<1>11. at' \in [Vars -> Statuses] /\ val' = [k \in Vars |-> val'[k]]
  BY <1>7, <1>8, <1>10 DEF Statuses
<1>12. ASSUME NEW k \in Nonbasic' \ Boxed
       PROVE  Stopped(k, at'[k], val'[k])
  <2>1. k \in Vars /\ at'[k] # "basic"
    BY <1>1, ModelKept DEF Nonbasic, Basis
  <2>2. k # step.k
    BY <1>7, <1>8, <1>10, <2>1
  <2>3. CASE k = row.b
    <3>1. at'[k] = status /\ val'[k] = Bound(k, row.side)
      BY <1>7, <1>8, <1>10, <2>3
    <3> QED BY <1>9, <2>3, <3>1
  <2>4. CASE k # row.b
    <3>1. at'[k] = flipped[k] /\ val'[k] = value[k]
      BY <1>7, <1>8, <1>10, <2>1, <2>2, <2>4
    <3>2. k \in Nonbasic
      BY <1>7, <2>1, <3>1 DEF Nonbasic
    <3> QED BY <1>7, <3>1, <3>2
  <2> QED BY <2>3, <2>4
<1>13. TypeInv'
  BY <1>1, <1>4, <1>11, TypeMoved DEF TypeInv
<1>14. ControlInv' /\ PickInv'
  BY <1>1, <1>4 DEF IInv, ControlInv, PickInv, Labels, NoBox
<1>15. Basis' = (Basis \ {row.b}) \cup {step.k}
  <2> SUFFICES ASSUME NEW k \in Vars
               PROVE  at'[k] = "basic" <=> (at[k] = "basic" /\ k # row.b) \/ k = step.k
    BY <1>1, <1>8, ModelKept DEF Basis
  <2>1. flipped[k] = "basic" <=> at[k] = "basic"
    BY <1>7 DEF Nonbasic, Basis
  <2> QED BY <1>7, <1>8, <1>10, <2>1
<1>16. BasisInv'
  <2>1. misnamed = {} /\ BasisInv
    BY <1>4 DEF IInv, ControlInv
  <2> QED BY <1>1, <1>4, <1>5, <1>6, <1>15, <2>1, BasisExchanged
<1> QED BY <1>1, <1>4, <1>12, <1>13, <1>14, <1>16, MovingStep

-----------------------------------------------------------------------------
\* The crossover's push

\* The push has nothing to move that has only one place to be.
TodoInv == todo \subseteq {k \in Vars : TrueLo(k) # TrueUp(k)}

\* A push aims at a bound the model has.
LEMMA TargetParks ==
  ASSUME lp \in Lps, NEW k \in Vars \ Boxed, TrueLo(k) # TrueUp(k)
  PROVE  Stopped(k, Target(k).to, Target(k).v)
BY WorkingBounds DEF Stopped, Target, Parkings, ParkValue

\* A step of the push that takes one column off its list.
LEMMA PushStep ==
  ASSUME IInv, pc = "push", NEW k \in Pending, todo' = todo \ {k},
         UNCHANGED <<lp, tab, drift, engine, loop, bent, boxed, pick>>,
         BasisInv', misnamed' \subseteq misnamed,
         pc' = "push" \/ (pc' = "factorize" /\ resume' = "push"),
         at' \in [Vars -> Statuses], val' = [j \in Vars |-> val'[j]],
         \A j \in Nonbasic' : \/ j \in Nonbasic \ {k} /\ at'[j] = at[j] /\ val'[j] = val[j]
                              \/ Stopped(j, at'[j], val'[j])
  PROVE  IInv'
<1>1. loop = "push" /\ TypeInv /\ Label' = "push" /\ Label = "push"
  BY DEF IInv, ControlInv, Label
<1>2. TypeInv'
  BY <1>1, TypeMoved DEF TypeInv
<1>3. ControlInv' /\ PickInv'
  BY <1>1 DEF IInv, ControlInv, PickInv, Labels, NoBox
<1>4. Loose = Pending /\ Loose' = Pending'
  BY <1>1 DEF Loose
<1>5. ASSUME NEW j \in Nonbasic' \ (Boxed \cup Loose')
      PROVE  \/ j \in Nonbasic \ Loose /\ at'[j] = at[j] /\ val'[j] = val[j]
             \/ Stopped(j, at'[j], val'[j])
  <2>1. j \notin todo'
    BY <1>4, <1>5 DEF Pending, Nonbasic, Basis
  <2> QED BY <1>4, <1>5, <2>1 DEF Pending
<1> QED BY <1>1, <1>2, <1>3, <1>5, MovingStep

\* A column pushed all the way.
LEMMA ArriveKeeps ==
  ASSUME IInv, TodoInv, Arrive
  PROVE  IInv'
<1>1. /\ UNCHANGED <<lp, tab, drift, engine, resume, loop, misnamed, bent, boxed, pick>>
      /\ pc = "push" /\ pc' = "push"
  BY DEF Arrive, model, relax
<1>2. PICK k \in Pending : /\ at' = [at EXCEPT ![k] = Target(k).to]
                           /\ val' = [val EXCEPT ![k] = Target(k).v]
                           /\ todo' = todo \ {k}
  BY DEF Arrive
<1>3. loop = "push" /\ TypeInv /\ lp \in Lps /\ Boxed = {}
  BY <1>1 DEF IInv, ControlInv, TypeInv, Label, Boxed, NoBox
<1>4. k \in Vars /\ TrueLo(k) # TrueUp(k)
  BY DEF Pending, TodoInv
<1>5. Stopped(k, Target(k).to, Target(k).v)
  BY <1>3, <1>4, TargetParks
<1>6. Target(k).to \in Statuses \ {"basic"}
  BY DEF Target, Statuses
<1>7. at' \in [Vars -> Statuses] /\ val' = [j \in Vars |-> val'[j]]
  BY <1>2, <1>3, <1>6 DEF TypeInv
<1>8. ASSUME NEW j \in Nonbasic'
      PROVE  \/ j \in Nonbasic \ {k} /\ at'[j] = at[j] /\ val'[j] = val[j]
             \/ Stopped(j, at'[j], val'[j])
  <2>1. j \in Vars /\ at'[j] # "basic"
    BY <1>1, ModelKept DEF Nonbasic, Basis
  <2>2. CASE j = k
    BY <1>2, <1>3, <1>4, <1>5, <2>2 DEF TypeInv
  <2>3. CASE j # k
    BY <1>2, <1>3, <2>1, <2>3 DEF TypeInv, Nonbasic, Basis
  <2> QED BY <2>2, <2>3
<1>9. Basis' = Basis
  BY <1>1, <1>2, <1>3, <1>4, <1>6, ModelKept DEF Basis, Pending, TypeInv
<1>10. BasisInv'
  BY <1>1, <1>9, BasisKept DEF IInv, BasisInv
<1> QED BY <1>1, <1>2, <1>7, <1>8, <1>10, PushStep

\* A column pushed until a basic variable stops it.
LEMMA PushPivotKeeps ==
  ASSUME IInv, TodoInv, PushPivot
  PROVE  IInv'
<1>1. /\ UNCHANGED <<lp, tab, drift, engine, loop, bent, boxed, pick>> /\ pc = "push"
      /\ pc' = "push" \/ (pc' = "factorize" /\ resume' = "push")
  BY DEF PushPivot, AfterPivot, Refactorize, Goto, model, relax
<1>2. PICK k \in Pending, b \in Basis :
        /\ todo' = todo \ {k}
        /\ \E side \in {s \in {"lower", "upper"} : Finite(Bound(b, s))} : Swap(k, b, side)
  BY Zenon DEF PushPivot
<1>3. PICK side \in {"lower", "upper"} : Finite(Bound(b, side)) /\ Swap(k, b, side)
  BY <1>2
<1>4. loop = "push" /\ TypeInv /\ BasisInv /\ Boxed = {}
  BY <1>1 DEF IInv, ControlInv, Label, Boxed, NoBox
<1>5. k \in Nonbasic
  BY DEF Pending, TodoInv, Nonbasic, Basis
<1>6. /\ at' \in [Vars -> Statuses] /\ val' = [j \in Vars |-> val'[j]]
      /\ \A j \in Nonbasic' \ Boxed :
           \/ j \in Nonbasic \ {k} /\ at'[j] = at[j] /\ val'[j] = val[j]
           \/ Stopped(j, at'[j], val'[j])
      /\ Basis' = (Basis \ {b}) \cup {k} /\ misnamed' \subseteq misnamed \ {b}
  BY <1>1, <1>3, <1>4, <1>5, LeavesParked
<1>7. BasisInv'
  BY <1>1, <1>4, <1>5, <1>6, BasisExchanged
<1> QED BY <1>1, <1>2, <1>4, <1>6, <1>7, PushStep

\* Nothing is left to push.
LEMMA PushDoneKeeps ==
  ASSUME IInv, PushDone
  PROVE  IInv'
<1>1. /\ UNCHANGED <<lp, tab, drift, engine, loop, at, val, misnamed, bent, boxed, pick, todo>>
      /\ pc = "push" /\ pc' = "factorize" /\ resume' = "pushed" /\ Pending = {}
  BY DEF PushDone, model, point, relax, Refactorize
<1>2. loop = "push" /\ TypeInv /\ Label' = "pushed" /\ Loose = {}
  BY <1>1 DEF IInv, ControlInv, Label, Loose
<1>3. TypeInv'
  BY <1>1, <1>2, TypeKept
<1>4. ControlInv' /\ PickInv'
  BY <1>1, <1>2 DEF IInv, ControlInv, PickInv, Labels, NoBox
<1> QED BY <1>1, <1>2, <1>3, <1>4, QuietStep

-----------------------------------------------------------------------------
\* Starting, and starting over

\* The slack basis: whatever is not a logical stops somewhere.
LEMMA ColdStartKeeps ==
  ASSUME IInv, ColdStart
  PROVE  IInv'
<1>1. /\ UNCHANGED <<lp, tab, drift, engine, pc, resume, loop, misnamed, bent, boxed, pick, todo>>
      /\ pc = "factorize" /\ resume = "begin"
      /\ val' = [k \in Vars |-> ParkValue(at'[k], Lo(k), Up(k))]
  BY DEF ColdStart, model, relax
<1>2. TypeInv /\ lp \in Lps /\ Boxed = {} /\ Label = "begin" /\ Label' = "begin"
  BY <1>1 DEF IInv, ControlInv, TypeInv, Label, Boxed, NoBox
<1>3. \A k \in Vars :
        \/ at'[k] = "basic"
        \/ at'[k] \in Parkings(Lo(k), Up(k))
  <2> SUFFICES ASSUME NEW k \in Vars, k \notin Rows(lp)
               PROVE  at'[k] \in Parkings(Lo(k), Up(k))
    BY DEF ColdStart
  <2>1. at'[k] = IF "lower" \in Parkings(Lo(k), Up(k)) THEN "lower"
                 ELSE CHOOSE s \in Parkings(Lo(k), Up(k)) : TRUE
    BY DEF ColdStart
  <2>2. (CHOOSE s \in Parkings(Lo(k), Up(k)) : TRUE) \in Parkings(Lo(k), Up(k))
    BY ParkingsAreStatuses
  <2> QED BY <2>1, <2>2
<1>4. at' \in [Vars -> Statuses]
  <2>1. at' = [k \in Vars |-> at'[k]]
    BY DEF ColdStart
  <2>2. \A k \in Vars : at'[k] \in Statuses
    BY <1>3, ParkingsAreStatuses DEF Statuses
  <2> QED BY <2>1, <2>2
<1>5. val' = [k \in Vars |-> val'[k]]
  BY <1>1
<1>6. TypeInv'
  BY <1>1, <1>2, <1>4, <1>5, TypeMoved DEF TypeInv
<1>7. ControlInv' /\ PickInv'
  BY <1>1, <1>2 DEF IInv, ControlInv, PickInv, Labels, NoBox
<1>8. BasisInv'
  <2>1. misnamed = {} /\ BasisInv
    BY <1>2 DEF IInv, ControlInv
  <2>2. \A k \in Vars : at'[k] = "basic" <=> k \in Rows(lp)
    <3> SUFFICES ASSUME NEW k \in Vars, k \notin Rows(lp) PROVE at'[k] # "basic"
      BY DEF ColdStart
    <3>1. at'[k] = IF "lower" \in Parkings(Lo(k), Up(k)) THEN "lower"
                   ELSE CHOOSE s \in Parkings(Lo(k), Up(k)) : TRUE
      BY DEF ColdStart
    <3>2. (CHOOSE s \in Parkings(Lo(k), Up(k)) : TRUE) \in Parkings(Lo(k), Up(k))
      BY ParkingsAreStatuses
    <3> QED BY <3>1, <3>2, ParkingsAreStatuses
  <2>3. Basis' = Rows(lp)
    BY <1>1, <2>2, ModelKept DEF Basis, Vars
  <2> QED BY <1>1, <2>1, <2>3, TableauKept DEF BasisInv
<1>9. ASSUME NEW k \in Nonbasic'
      PROVE  Stopped(k, at'[k], val'[k])
  <2>1. k \in Vars /\ at'[k] # "basic"
    BY <1>1, ModelKept DEF Nonbasic, Basis
  <2>2. at'[k] \in Parkings(Lo(k), Up(k)) /\ val'[k] = ParkValue(at'[k], Lo(k), Up(k))
    BY <1>1, <1>3, <2>1
  <2> QED BY <1>2, <2>1, <2>2, StoppedAnywhere
<1> QED BY <1>1, <1>6, <1>7, <1>9, <1>8, MovingStep

\* What a repair takes out stops somewhere; the column in hand stays where it was, or is one
\* of the logicals that come in.
LEMMA RepairBasisKeeps ==
  ASSUME IInv, RepairBasis
  PROVE  IInv'
<1>1. /\ UNCHANGED <<lp, tab, drift, engine, resume, loop, bent, boxed, todo>>
      /\ pc = "factorize" /\ pc' = resume /\ lu' = "fresh" /\ xs' = "fresh"
      /\ pick' = IF pick = NoPick THEN NoPick ELSE [pick EXCEPT !.pos = [b \in Basis |-> Where(b)]']
  BY Zenon DEF RepairBasis, model, relax
<1>2. PICK out \in SUBSET Basis, in \in SUBSET (Rows(lp) \ Basis) :
        /\ (Basis \ out) \cup in \in DOMAIN tab
        /\ misnamed' = misnamed \ out
        /\ \E s \in [out -> {"lower", "upper", "free", "fixed"}] :
          /\ \A k \in out : s[k] \in Parkings(Lo(k), Up(k))
          /\ at' = [k \in Vars |-> CASE k \in out -> s[k] [] k \in in -> "basic"
                                     [] OTHER -> at[k]]
          /\ val' = [k \in Vars |-> IF k \in out THEN ParkValue(s[k], Lo(k), Up(k)) ELSE val[k]]
  BY Zenon DEF RepairBasis
<1>3. PICK s \in [out -> {"lower", "upper", "free", "fixed"}] :
        /\ \A k \in out : s[k] \in Parkings(Lo(k), Up(k))
        /\ at' = [k \in Vars |-> CASE k \in out -> s[k] [] k \in in -> "basic"
                                   [] OTHER -> at[k]]
        /\ val' = [k \in Vars |-> IF k \in out THEN ParkValue(s[k], Lo(k), Up(k)) ELSE val[k]]
  BY <1>2
<1>4. TypeInv /\ lp \in Lps /\ at \in [Vars -> Statuses] /\ Label' = Label /\ pc' # "done"
  BY <1>1 DEF IInv, ControlInv, TypeInv, Label, Labels
<1>5. \A k \in Vars : /\ k \in out => at'[k] = s[k] /\ val'[k] = ParkValue(s[k], Lo(k), Up(k))
                      /\ k \notin out /\ k \in in => at'[k] = "basic"
                      /\ k \notin out /\ k \notin in => at'[k] = at[k] /\ val'[k] = val[k]
  BY <1>3
<1>6. at' \in [Vars -> Statuses]
  <2>1. at' = [k \in Vars |-> at'[k]]
    BY <1>3
  <2>2. \A k \in Vars : at'[k] \in Statuses
    BY <1>3, <1>4, <1>5 DEF Statuses
  <2> QED BY <2>1, <2>2
<1>7. val' = [k \in Vars |-> val'[k]]
  BY <1>3
<1>8. /\ pick'.k = pick.k /\ pick'.dir = pick.dir
      /\ pick' = [k |-> pick'.k, dir |-> pick'.dir, pos |-> pick'.pos,
                  phaseOne |-> pick'.phaseOne, fresh |-> pick'.fresh]
  <2>1. CASE pick = NoPick
    BY <1>1, <2>1 DEF NoPick
  <2>2. CASE pick # NoPick
    <3>1. PICK q : pick' = [pick EXCEPT !.pos = q]
      BY <1>1, <2>2
    <3> QED BY <1>4, <3>1 DEF TypeInv
  <2> QED BY <2>1, <2>2
<1>9. TypeInv'
  BY <1>1, <1>4, <1>6, <1>7, <1>8, ModelKept DEF TypeInv
<1>10. \A k \in Nonbasic' : k \in Vars /\ at'[k] # "basic"
  BY <1>1, ModelKept DEF Nonbasic, Basis
<1>11. Basis' = (Basis \ out) \cup in
  <2>1. in \subseteq Vars
    BY DEF Vars
  <2> SUFFICES ASSUME NEW k \in Vars
               PROVE  at'[k] = "basic" <=> (at[k] = "basic" /\ k \notin out) \/ k \in in
    BY <1>1, <2>1, ModelKept DEF Basis
  <2>2. k \in out => s[k] # "basic" /\ k \notin in
    BY <1>3
  <2> QED BY <1>5, <2>2
<1>12. BasisInv'
  <2>1. BasisInv
    BY DEF IInv
  <2>2. Cardinality(Basis') = Cardinality(Rows(lp))
    BY <1>2, <1>11, <2>1 DEF BasisInv, TableauInv
  <2>3. misnamed' \subseteq Basis' \cap Rows(lp)
    BY <1>2, <1>11, <2>1 DEF BasisInv
  <2> QED BY <1>1, <2>1, <2>2, <2>3, TableauKept DEF BasisInv
<1>13. PickInv'
  <2> SUFFICES ASSUME Label \in {"ratio", "recheck"}
               PROVE  pick.dir \in {1, -1} /\ (Chosen \/ MadeBasic)'
    BY <1>4, <1>8 DEF PickInv
  <2>1. pick.dir \in {1, -1} /\ pick.k \in Nonbasic /\ at[pick.k] # "fixed"
    BY <1>1 DEF IInv, PickInv, Chosen, MadeBasic
  <2>2. CASE pick.k \in in
    <3>1. pick.k \in Basis' \cap Rows(lp) /\ Basis' \in DOMAIN tab
      BY <1>2, <1>11, <2>2
    <3>2. pc' = "recheck" \/ (pc' = "ratio" /\ drift)
      BY <1>1 DEF IInv, ControlInv, Label
    <3> QED BY <1>1, <1>8, <2>1, <3>1, <3>2 DEF MadeBasic
  <2>3. CASE pick.k \notin in
    <3>1. at'[pick.k] = at[pick.k] /\ pick.k \in Vars
      BY <1>2, <1>5, <2>1, <2>3 DEF Nonbasic
    <3> QED BY <1>1, <1>8, <2>1, <3>1, ModelKept DEF Chosen, Nonbasic, Basis
  <2> QED BY <2>2, <2>3
<1>14. ControlInv'
  <2>1. ControlInv /\ NoBox' = NoBox /\ pc # "done"
    BY <1>1 DEF IInv, NoBox
  <2> QED BY <1>1, <1>2, <1>4, <2>1 DEF ControlInv
<1>15. ASSUME NEW k \in Nonbasic' \ (Boxed \cup Loose')
       PROVE  \/ k \in Nonbasic \ Loose /\ at'[k] = at[k] /\ val'[k] = val[k]
              \/ Stopped(k, at'[k], val'[k])
  <2>1. CASE k \in out
    BY <1>3, <1>4, <1>5, <1>10, <1>15, <2>1, StoppedAnywhere
  <2>2. CASE k \notin out
    <3>1. at'[k] = at[k] /\ val'[k] = val[k] /\ k \in Nonbasic
      BY <1>5, <1>10, <1>15, <2>2 DEF Nonbasic, Basis
    <3>2. k \notin Loose
      BY <1>1, <1>4, <1>10, <1>15 DEF Loose, Pending
    <3> QED BY <3>1, <3>2
  <2> QED BY <2>1, <2>2
<1> QED BY <1>1, <1>4, <1>9, <1>13, <1>14, <1>15, <1>12, MovingStep

\* What make_dual_feasible() moves and does not box goes from the one bound of the model to
\* the other.
LEMMA MadeDualFeasible ==
  ASSUME TypeInv, Boxed = {}, ~bent, UNCHANGED <<lp, bent>>, MakeDualFeasible,
         \A k \in Nonbasic : Parked(k)
  PROVE  /\ at' \in [Vars -> Statuses] /\ val' = [k \in Vars |-> val'[k]]
         /\ boxed' = [lower |-> boxed'.lower, upper |-> boxed'.upper]
         /\ \A k \in Nonbasic' \ Boxed' : Parked(k)'
         /\ Basis' = Basis
<1> DEFINE wrong == {k \in Nonbasic : WrongSign(k)}
           free(k) == at[k] = "free"
           goesUp(k) == IF free(k) THEN Price(k, <<>>, FALSE) < 0 ELSE at[k] = "lower"
<1>1. /\ boxed' = [lower |-> {k \in wrong : ~Finite(TrueLo(k)) /\ (free(k) \/ ~goesUp(k))},
                   upper |-> {k \in wrong : ~Finite(TrueUp(k)) /\ (free(k) \/ goesUp(k))}]
      /\ at' = [k \in Vars |-> IF k \notin wrong THEN at[k]
                               ELSE IF goesUp(k) THEN "upper" ELSE "lower"]
      /\ val' = [k \in Vars |->
           IF k \notin wrong THEN val[k]
           ELSE IF goesUp(k)
           THEN IF k \in boxed'.upper THEN (IF free(k) THEN 0 ELSE TrueLo(k)) + Box ELSE TrueUp(k)
           ELSE IF k \in boxed'.lower THEN (IF free(k) THEN 0 ELSE TrueUp(k)) - Box ELSE TrueLo(k)]
  BY Zenon DEF MakeDualFeasible
<1>2. \A k \in wrong : k \in Nonbasic /\ at[k] \in {"lower", "upper", "free"}
  BY DEF WrongSign
<1>3. /\ \A k : ~free(k) => goesUp(k) = (at[k] = "lower")
      /\ \A k : free(k) = (at[k] = "free")
  OBVIOUS
<1> HIDE DEF wrong, free, goesUp
<1>4. at \in [Vars -> Statuses] /\ lp \in Lps
  BY DEF TypeInv
<1>5. at' \in [Vars -> Statuses]
  BY <1>1, <1>4 DEF Statuses
<1>6. val' = [k \in Vars |-> val'[k]]
  BY <1>1
<1>7. boxed' = [lower |-> boxed'.lower, upper |-> boxed'.upper]
  BY <1>1
<1>8. ASSUME NEW k \in Nonbasic' \ Boxed'
      PROVE  Parked(k)'
  <2>1. k \in Vars /\ at'[k] # "basic"
    BY ModelKept DEF Nonbasic, Basis
  <2>2. /\ at'[k] = IF k \notin wrong THEN at[k] ELSE IF goesUp(k) THEN "upper" ELSE "lower"
        /\ k \notin wrong => val'[k] = val[k]
        /\ k \in wrong /\ goesUp(k) /\ k \notin boxed'.upper => val'[k] = TrueUp(k)
        /\ k \in wrong /\ ~goesUp(k) /\ k \notin boxed'.lower => val'[k] = TrueLo(k)
    BY <1>1, <2>1
  <2>3. k \in Nonbasic
    BY <1>2, <2>1, <2>2 DEF Nonbasic, Basis
  <2>4. Parked(k)
    BY <2>3
  <2>5. CASE k \notin wrong
    BY <2>2, <2>4, <2>5, ParkedStopped, ParkedNext
  <2>6. CASE k \in wrong
    <3>1. k \notin boxed'.lower /\ k \notin boxed'.upper
      BY <1>8 DEF Boxed
    <3>2. /\ k \in boxed'.lower <=> ~Finite(TrueLo(k)) /\ (free(k) \/ ~goesUp(k))
          /\ k \in boxed'.upper <=> ~Finite(TrueUp(k)) /\ (free(k) \/ goesUp(k))
      BY <1>1, <2>6
    <3>3. at[k] \in Parkings(TrueLo(k), TrueUp(k))
      BY <2>4 DEF Parked
    <3>4. at[k] \in {"lower", "upper"} /\ TrueLo(k) # TrueUp(k)
      BY <1>2, <1>3, <2>6, <3>1, <3>2, <3>3 DEF Parkings
    <3>5. Stopped(k, at'[k], val'[k])
      BY <1>3, <2>2, <2>6, <3>1, <3>2, <3>3, <3>4 DEF Stopped, Parkings, ParkValue
    <3> QED BY <3>5, ParkedNext
  <2> QED BY <2>5, <2>6
<1>9. Basis' = Basis
  <2> SUFFICES ASSUME NEW k \in Vars PROVE at'[k] = "basic" <=> at[k] = "basic"
    BY ModelKept DEF Basis
  <2> QED BY <1>1, <1>2
<1> QED BY <1>5, <1>6, <1>7, <1>8, <1>9

\* The dual loop starts with its boxes, the others with nothing moved.
LEMMA BeginKeeps ==
  ASSUME IInv, Begin
  PROVE  IInv'
<1>1. /\ UNCHANGED <<lp, tab, drift, engine, resume, loop, misnamed, bent, pick, todo>>
      /\ pc = "begin" /\ pc' = IF engine = "push" THEN "push" ELSE "start"
  BY DEF Begin, model, Goto
<1>2. /\ TypeInv /\ loop = engine /\ ~bent /\ boxed = NoBox /\ Boxed = {} /\ bent \in BOOLEAN
      /\ misnamed = {}
  BY <1>1 DEF IInv, ControlInv, TypeInv, Label, Boxed, NoBox
<1>3. Label' = pc' /\ Label = "begin"
  BY <1>1 DEF Label
<1>4. CASE engine = "dual"
  <2>1. MakeDualFeasible
    BY <1>4 DEF Begin
  <2>2. \A k \in Nonbasic : Parked(k)
    BY <1>1, <1>2, <1>4 DEF IInv, ParkInv, Loose
  <2>3. /\ at' \in [Vars -> Statuses] /\ val' = [k \in Vars |-> val'[k]]
        /\ boxed' = [lower |-> boxed'.lower, upper |-> boxed'.upper]
        /\ \A k \in Nonbasic' \ Boxed' : Parked(k)'
        /\ Basis' = Basis
    BY <1>1, <1>2, <2>1, <2>2, MadeDualFeasible
  <2>4. TypeInv'
    BY <1>1, <1>2, <2>3, ModelKept DEF TypeInv
  <2>5. ControlInv' /\ PickInv'
    BY <1>1, <1>2, <1>3, <1>4 DEF IInv, ControlInv, PickInv, Labels
  <2>6. ParkInv' /\ ReportIsOfTheModel'
    BY <1>1, <2>3 DEF ParkInv, ReportIsOfTheModel
  <2>7. BasisInv'
    BY <1>1, <2>3, BasisKept DEF IInv, BasisInv
  <2> QED BY <2>4, <2>5, <2>6, <2>7 DEF IInv
<1>5. CASE engine # "dual"
  <2>1. UNCHANGED <<at, val, misnamed, boxed>>
    BY <1>5 DEF Begin, point
  <2>2. TypeInv'
    BY <1>1, <1>2, <2>1, TypeKept
  <2>3. ControlInv' /\ PickInv'
    BY <1>1, <1>2, <1>3, <1>5, <2>1 DEF IInv, ControlInv, PickInv, Labels, NoBox
  <2>4. Pending' = Pending
    BY <1>1, <2>1 DEF Pending
  <2>5. Loose \subseteq Loose'
    BY <1>1, <1>2, <1>3, <2>4 DEF Loose
  <2> QED BY <1>1, <2>1, <2>2, <2>3, <2>5, QuietStep
<1> QED BY <1>4, <1>5

\* Where a crossover seeds a variable that is not strictly inside its bounds.
LEMMA SeededParks ==
  ASSUME lp \in Lps, NEW k \in Vars, NEW v \in Int, -Inf < v, v < Inf,
         Outside(v, TrueLo(k), TrueUp(k)) = 0, ~(TrueLo(k) < v /\ v < TrueUp(k))
  PROVE  LET s == NearerBound(v, TrueLo(k), TrueUp(k))
         IN  s \in Parkings(TrueLo(k), TrueUp(k)) /\ v = ParkValue(s, TrueLo(k), TrueUp(k))
<1>1. SaneBounds(TrueLo(k), TrueUp(k)) /\ Shift \in Nat /\ Inf \in Nat
  BY TrueBoundsSane, SimplexAssumption, LinearAssumption
<1>2. TrueLo(k) \in Int /\ TrueUp(k) \in Int /\ TrueLo(k) <= v /\ v <= TrueUp(k)
  BY <1>1 DEF SaneBounds, Outside
<1>3. v = TrueLo(k) \/ v = TrueUp(k)
  BY <1>2
<1> QED BY <1>1, <1>2, <1>3 DEF NearerBound, Parkings, ParkValue, Finite

\* A seeded variable is not basic.
LEMMA NearerIsStatus ==
  ASSUME NEW v, NEW lo, NEW up
  PROVE  NearerBound(v, lo, up) \in Statuses \ {"basic"}
BY DEF NearerBound, Statuses

\* The factors a model starts with are those of its bases.
LEMMA TableauxAre ==
  ASSUME tab = Tableaux
  PROVE  TableauInv
<1> DEFINE bases == {S \in kSubset(Cardinality(Rows(lp)), Vars) : Nonsingular(S)}
           unit(B, k) == [b \in B |-> IF b = k THEN 1 ELSE 0]
<1>1. tab = [B \in bases |-> [k \in Vars |-> IF k \in B THEN unit(B, k) ELSE Ftran(B, k)]]
  BY Zenon DEF Tableaux
<1>2. \A B \in bases : B \subseteq Vars /\ Cardinality(B) = Cardinality(Rows(lp))
  BY DEF kSubset
<1>3. \A B : \A k, b \in B : b # k => unit(B, k)[b] = 0
  OBVIOUS
<1> HIDE DEF bases, unit
<1>4. ASSUME NEW B \in bases, NEW k \in B, NEW b \in B, b # k
      PROVE  tab[B][k][b] = 0
  <2>1. k \in Vars
    BY <1>2
  <2>2. tab[B][k] = unit(B, k)
    BY <1>1, <2>1
  <2> QED BY <1>3, <1>4, <2>2
<1>5. DOMAIN tab = bases
  BY <1>1
<1> QED BY <1>2, <1>4, <1>5 DEF TableauInv

\* A warm start says a place of each variable; a crossover leaves to the push what has none.
LEMMA InitIInv ==
  ASSUME Init
  PROVE  IInv /\ TodoInv
<1>1. /\ lp \in Lps /\ engine \in {"primal", "dual", "push"} /\ loop = engine /\ bent = FALSE
      /\ boxed = [lower |-> {}, upper |-> {}] /\ pc = "factorize" /\ resume = "begin"
      /\ pick = NoPick /\ misnamed = {} /\ tab = Tableaux
  BY Zenon DEF Init
<1>0. TableauInv
  BY <1>1, TableauxAre
<1>2. ControlInv /\ PickInv /\ ReportIsOfTheModel /\ Label = "begin" /\ Boxed = {}
  BY <1>1 DEF ControlInv, PickInv, ReportIsOfTheModel, Label, Labels, NoBox, Boxed
<1>3. CASE engine = "push"
  <2>1. PICK x \in InteriorPoints : \E B \in Guesses(x) : SeedFrom(x, B)
    BY <1>3, Zenon DEF Init
  <2>2. PICK B \in DOMAIN tab : SeedFrom(x, B)
    BY <2>1 DEF Guesses
  <2>3. \A k \in Vars : /\ x[k] \in Int /\ -Inf < x[k] /\ x[k] < Inf
                        /\ Outside(x[k], TrueLo(k), TrueUp(k)) = 0
    <3>1. /\ x \in [Vars -> {Grid * i : i \in -4 .. 4}]
          /\ \A k \in Vars : Outside(x[k], TrueLo(k), TrueUp(k)) = 0
      BY Zenon DEF InteriorPoints
    <3>2. \A v \in {Grid * i : i \in -4 .. 4} : v \in Int /\ -Inf < v /\ v < Inf
      <4> SUFFICES ASSUME NEW i \in -4 .. 4
                   PROVE  Grid * i \in Int /\ -Inf < Grid * i /\ Grid * i < Inf
        OBVIOUS
      <4>1. Grid \in Nat /\ Inf \in Nat /\ 4 * Grid < Inf
        BY SimplexAssumption, LinearAssumption
      <4>2. i \in {-4, -3, -2, -1, 0, 1, 2, 3, 4}
        OBVIOUS
      <4> QED BY <4>1, <4>2
    <3> QED BY <3>1, <3>2
  <2>4. /\ at = [k \in Vars |-> IF k \in B THEN "basic"
                               ELSE NearerBound(x[k], TrueLo(k), TrueUp(k))]
        /\ val = [k \in Vars |-> IF k \in B THEN 0 ELSE x[k]]
        /\ todo = {k \in Vars \ B : Inside(x, k)}
    BY <2>2 DEF SeedFrom
  <2>5. \A k \in Vars : /\ k \in B => at[k] = "basic"
                        /\ k \notin B => /\ at[k] = NearerBound(x[k], TrueLo(k), TrueUp(k))
                                         /\ at[k] # "basic" /\ val[k] = x[k]
    BY <2>4, NearerIsStatus
  <2>6. at \in [Vars -> Statuses] /\ val = [k \in Vars |-> val[k]]
    BY <2>4, NearerIsStatus DEF Statuses
  <2>7. TypeInv
    BY <1>1, <2>6 DEF TypeInv, NoPick
  <2>8. ParkInv
    <3> SUFFICES ASSUME NEW k \in Nonbasic, k \notin Loose PROVE Parked(k)
      BY DEF ParkInv
    <3>1. k \in Vars \ B
      BY <2>5 DEF Nonbasic, Basis
    <3>2. ~(TrueLo(k) < x[k] /\ x[k] < TrueUp(k))
      BY <1>1, <1>2, <1>3, <2>4, <2>5, <3>1 DEF Loose, Pending, Inside
    <3> QED BY <1>1, <2>3, <2>5, <3>1, <3>2, SeededParks DEF Parked
  <2>9. TodoInv
    <3> SUFFICES ASSUME NEW k \in Vars, Inside(x, k) PROVE TrueLo(k) # TrueUp(k)
      BY <2>4 DEF TodoInv
    <3>1. x[k] \in Int /\ TrueLo(k) \in Int /\ TrueUp(k) \in Int
      BY <1>1, <2>3, TrueBoundsSane DEF SaneBounds
    <3> QED BY <3>1 DEF Inside
  <2>10. BasisInv
    <3>1. B \subseteq Vars /\ Cardinality(B) = Cardinality(Rows(lp))
      BY <1>0 DEF TableauInv
    <3>2. Basis = B
      BY <2>5, <3>1 DEF Basis
    <3> QED BY <1>0, <1>1, <3>1, <3>2 DEF BasisInv
  <2> QED BY <1>2, <2>7, <2>8, <2>9, <2>10 DEF IInv
<1>4. CASE engine # "push"
  <2>1. /\ at \in WarmStatuses /\ todo = {}
        /\ val = [k \in Vars |-> ParkValue(at[k], TrueLo(k), TrueUp(k))]
    BY <1>4, Zenon DEF Init
  <2>2. PICK B \in kSubset(Cardinality(Rows(lp)), Vars) :
                 /\ at \in [Vars -> {"basic", "lower", "upper", "free", "fixed"}]
                 /\ \A k \in Vars : IF k \in B THEN at[k] = "basic"
                                    ELSE at[k] \in Parkings(TrueLo(k), TrueUp(k))
    BY <2>1 DEF WarmStatuses
  <2>3. TypeInv
    <3>1. val = [k \in Vars |-> val[k]]
      BY <2>1
    <3> QED BY <1>1, <2>2, <3>1 DEF TypeInv, Statuses, NoPick
  <2>4. ParkInv
    <3> SUFFICES ASSUME NEW k \in Nonbasic PROVE Parked(k)
      BY DEF ParkInv
    <3>1. k \in Vars /\ at[k] # "basic"
      BY DEF Nonbasic, Basis
    <3> QED BY <2>1, <2>2, <3>1 DEF Parked
  <2>5. TodoInv
    BY <2>1 DEF TodoInv
  <2>6. BasisInv
    <3>1. B \subseteq Vars /\ Cardinality(B) = Cardinality(Rows(lp))
      BY DEF kSubset
    <3>2. Basis = B
      BY <2>2, <3>1, ParkingsAreStatuses DEF Basis
    <3> QED BY <1>0, <1>1, <3>1, <3>2 DEF BasisInv
  <2> QED BY <1>2, <2>3, <2>4, <2>5, <2>6 DEF IInv
<1> QED BY <1>3, <1>4

-----------------------------------------------------------------------------
\* The theorems

\* No step changes the model, or adds to what the push has to move.
LEMMA TodoShrinks ==
  ASSUME [Next]_vars
  PROVE  lp' = lp /\ todo' \subseteq todo
<1>1. \A status, bound, sure, proof :
        \/ Finish(status, bound, sure, proof) \/ FinishRestored(status, bound, sure, proof)
        => lp' = lp /\ todo' = todo
  BY Zenon DEF Finish, FinishRestored, model
<1>2. HandOver => lp' = lp /\ todo' = todo
  BY DEF HandOver, model
<1>3. ASSUME Factorized
      PROVE  lp' = lp /\ todo' = todo
  BY <1>3, Zenon DEF Factorized, model
<1>4. ASSUME RepairBasis
      PROVE  lp' = lp /\ todo' = todo
  BY <1>4, Zenon DEF RepairBasis, model
<1>5. ASSUME ColdStart
      PROVE  lp' = lp /\ todo' = todo
  BY <1>5, Zenon DEF ColdStart, model
<1>6. ASSUME Singular
      PROVE  lp' = lp /\ todo' = todo
  BY <1>1, <1>2, <1>6, Zenon DEF Singular, model
<1>7. ASSUME FactorizationAbandoned
      PROVE  lp' = lp /\ todo' = todo
  BY <1>1, <1>2, <1>7, Zenon DEF FactorizationAbandoned, model
<1>8. ASSUME Begin
      PROVE  lp' = lp /\ todo' = todo
  BY <1>8, Zenon DEF Begin, model
<1>9. ASSUME NothingAllowed
      PROVE  lp' = lp /\ todo' = todo
  BY <1>1, <1>2, <1>9, Zenon DEF NothingAllowed, model
<1>10. ASSUME StopAtLimit
      PROVE  lp' = lp /\ todo' = todo
  BY <1>1, <1>2, <1>10, Zenon DEF StopAtLimit, model
<1>11. ASSUME Iterate
      PROVE  lp' = lp /\ todo' = todo
  BY <1>11, Zenon DEF Iterate, model
<1>12. ASSUME PhaseOneStalls
      PROVE  lp' = lp /\ todo' = todo
  BY <1>1, <1>2, <1>12, Zenon DEF PhaseOneStalls, model
<1>13. ASSUME Diverged
      PROVE  lp' = lp /\ todo' = todo
  BY <1>1, <1>2, <1>13, Zenon DEF Diverged, model
<1>14. ASSUME RestoreBounds
      PROVE  lp' = lp /\ todo' = todo
  BY <1>14, Zenon DEF RestoreBounds, model
<1>15. ASSUME PriceAgain
      PROVE  lp' = lp /\ todo' = todo
  BY <1>15, Zenon DEF PriceAgain, model
<1>16. ASSUME PrimalOptimal
      PROVE  lp' = lp /\ todo' = todo
  BY <1>1, <1>2, <1>16, Zenon DEF PrimalOptimal, model
<1>17. ASSUME ChooseEntering
      PROVE  lp' = lp /\ todo' = todo
  BY <1>17, Zenon DEF ChooseEntering, model
<1>18. ASSUME RecheckRay
      PROVE  lp' = lp /\ todo' = todo
  BY <1>18, Zenon DEF RecheckRay, model
<1>19. ASSUME Recheck
      PROVE  lp' = lp /\ todo' = todo
  BY <1>19, Zenon DEF Recheck, model
<1>20. ASSUME SetAside
      PROVE  lp' = lp /\ todo' = todo
  BY <1>20, Zenon DEF SetAside, model
<1>21. ASSUME PhaseOneBroken
      PROVE  lp' = lp /\ todo' = todo
  BY <1>1, <1>2, <1>21, Zenon DEF PhaseOneBroken, model
<1>22. ASSUME Unbounded
      PROVE  lp' = lp /\ todo' = todo
  BY <1>1, <1>2, <1>22, Zenon DEF Unbounded, model
<1>23. ASSUME PerturbBounds
      PROVE  lp' = lp /\ todo' = todo
  BY <1>23, Zenon DEF PerturbBounds, model
<1>24. ASSUME Stalled
      PROVE  lp' = lp /\ todo' = todo
  BY <1>1, <1>2, <1>24, Zenon DEF Stalled, model
<1>25. ASSUME BoundFlip
      PROVE  lp' = lp /\ todo' = todo
  BY <1>25, Zenon DEF BoundFlip, model
<1>26. ASSUME Pivot
      PROVE  lp' = lp /\ todo' = todo
  BY <1>26, Zenon DEF Pivot, model
<1>27. ASSUME DualRefresh
      PROVE  lp' = lp /\ todo' = todo
  BY <1>27, Zenon DEF DualRefresh, model
<1>28. ASSUME DualOptimal
      PROVE  lp' = lp /\ todo' = todo
  BY <1>1, <1>2, <1>28, Zenon DEF DualOptimal, model
<1>29. ASSUME DualInfeasible
      PROVE  lp' = lp /\ todo' = todo
  BY <1>1, <1>2, <1>29, Zenon DEF DualInfeasible, model
<1>30. ASSUME DualPivot
      PROVE  lp' = lp /\ todo' = todo
  BY <1>30, Zenon DEF DualPivot, model
<1>31. ASSUME FlipsOnly
      PROVE  lp' = lp /\ todo' = todo
  BY <1>31, Zenon DEF FlipsOnly, model
<1>32. ASSUME PerturbCosts
      PROVE  lp' = lp /\ todo' = todo
  BY <1>32, Zenon DEF PerturbCosts, model
<1>33. ASSUME DualStalls
      PROVE  lp' = lp /\ todo' = todo
  BY <1>1, <1>2, <1>33, Zenon DEF DualStalls, model
<1>34. ASSUME Arrive
      PROVE  lp' = lp /\ todo' \subseteq todo
  BY <1>34, Zenon DEF Arrive, model
<1>35. ASSUME PushPivot
      PROVE  lp' = lp /\ todo' \subseteq todo
  BY <1>35, Zenon DEF PushPivot, model
<1>36. ASSUME PushDone
      PROVE  lp' = lp /\ todo' = todo
  BY <1>36, Zenon DEF PushDone, model
<1>37. ASSUME Pushed
      PROVE  lp' = lp /\ todo' = todo
  BY <1>1, <1>2, <1>37, Zenon DEF Pushed, model
<1>38. CASE UNCHANGED vars
  BY <1>38 DEF vars, model
<1> QED BY <1>3, <1>4, <1>5, <1>6, <1>7, <1>8, <1>9, <1>10, <1>11, <1>12, <1>13, <1>14,
           <1>15, <1>16, <1>17, <1>18, <1>19, <1>20, <1>21, <1>22, <1>23, <1>24, <1>25, <1>26,
           <1>27, <1>28, <1>29, <1>30, <1>31, <1>32, <1>33, <1>34, <1>35, <1>36, <1>37, <1>38
    DEF Next

\* Every step keeps the invariant.
LEMMA StepIInv ==
  ASSUME IInv, TodoInv, [Next]_vars
  PROVE  (IInv /\ TodoInv)'
<1>1. TodoInv'
  BY TodoShrinks, ModelKept DEF TodoInv
<1>2. CASE UNCHANGED vars
  <2>1. /\ UNCHANGED <<lp, tab, drift, engine, pc, resume, loop, at, val, misnamed, bent, boxed>>
        /\ UNCHANGED <<lu, xs, pick, todo, ans>>
    BY <1>2 DEF vars, model, point, relax
  <2>2. /\ Vars' = Vars /\ Nonbasic' = Nonbasic /\ Boxed' = Boxed /\ Loose' = Loose
        /\ Label' = Label /\ NoBox' = NoBox
    BY <2>1, SameBasis DEF Boxed, Loose, Pending, Label, NoBox
  <2>3. TypeInv' /\ ControlInv' /\ PickInv' /\ BasisInv'
    BY <2>1, <2>2, TypeKept, SameBasis, BasisKept
       DEF IInv, ControlInv, PickInv, Chosen, MadeBasic, BasisInv
  <2>4. ParkInv'
    BY <2>1, <2>2, ModelKept DEF IInv, ParkInv, Parked
  <2>5. ReportIsOfTheModel'
    BY <2>1, <2>2, ModelKept, SameBasis
       DEF IInv, ReportIsOfTheModel, ReportedBasic, OnTrueBounds
  <2> QED BY <1>1, <2>3, <2>4, <2>5 DEF IInv
<1>3. CASE Next
  <2>1. IInv'
    BY <1>3,
       FactorizedKeeps, RepairBasisKeeps, ColdStartKeeps, SingularKeeps,
       FactorizationAbandonedKeeps, BeginKeeps, NothingAllowedKeeps, StopAtLimitKeeps,
       IterateKeeps, PhaseOneStallsKeeps, PrimalExitsKeep, RestoreBoundsKeeps,
       PriceAgainKeeps, ChooseEnteringKeeps, RecheckRayKeeps, RecheckKeeps,
       SetAsideKeeps, PerturbBoundsKeeps, BoundFlipKeeps, PivotKeeps,
       DualRefreshKeeps, DualOptimalKeeps, DualInfeasibleKeeps, DualPivotKeeps,
       FlipsOnlyKeeps, PerturbCostsKeeps, DualStallsKeeps, ArriveKeeps,
       PushPivotKeeps, PushDoneKeeps, PushedKeeps
    DEF Next
  <2> QED BY <1>1, <2>1
<1> QED BY <1>2, <1>3

\* The inductive invariant holds in every reachable state.
THEOREM SimplexInvariant == Spec => [](IInv /\ TodoInv)
<1>1. Init => IInv /\ TodoInv
  BY InitIInv
<1>2. IInv /\ TodoInv /\ [Next]_vars => (IInv /\ TodoInv)'
  BY StepIInv
<1> QED BY <1>1, <1>2, PTL DEF Spec

\* What a solve reports is a basis of the caller's model: however often the bounds were
\* relaxed, boxed or repaired on the way, and whatever was misread, every nonbasic variable
\* is reported at a bound the model has, at that bound's value; the basis has one variable to
\* a row; and what is basic without being reported so is a logical, only ever where factors
\* drift.
THEOREM ReportsTheModel == Spec => []ReportIsOfTheModel
<1>1. IInv => ReportIsOfTheModel
  BY DEF IInv
<1> QED BY <1>1, SimplexInvariant, PTL

\* What a push hands to the primal loop is a vertex of the caller's model: no superbasic is
\* left, and what a pivot or a repair threw out stopped at a bound.
THEOREM PushEndsAtAVertex ==
  Spec => [](pc = "pushed" => \A k \in Nonbasic : OnTrueBounds(k))
<1>1. IInv /\ pc = "pushed" => \A k \in Nonbasic : OnTrueBounds(k)
  <2> SUFFICES ASSUME IInv, pc = "pushed", NEW k \in Nonbasic PROVE OnTrueBounds(k)
    OBVIOUS
  <2>1. loop = "push" /\ ~bent /\ Boxed = {} /\ Loose = {}
    BY DEF IInv, ControlInv, Label, Boxed, NoBox, Loose
  <2>2. Parked(k)
    BY <2>1 DEF IInv, ParkInv
  <2> QED BY <2>1, <2>2 DEF Parked, OnTrueBounds
<1> QED BY <1>1, SimplexInvariant, PTL

-----------------------------------------------------------------------------
\* The deletion filter

\* The witness of k, tried and kept, satisfies all the rest.
Witnessed(k) == witness[k] # {} /\ witness[k] \subseteq Allowed(active \ {k})

IisTypes ==
  /\ iisPhase \in {"deleting", "certifying", "reported"} /\ doubt \in BOOLEAN
  /\ active \subseteq DOMAIN system /\ untried \subseteq active
  /\ witness \in [DOMAIN system -> SUBSET Spots]

Tried == ~doubt => \A k \in active \ untried : Witnessed(k)

Ended ==
  /\ iisPhase # "deleting" => untried = {} /\ (~doubt => support \subseteq active)
  /\ iisPhase = "reported" /\ doubt => \A k \in active : witness[k] = {}

IisInv == IisTypes /\ Proves(active) /\ Proves(support) /\ Tried /\ Ended

\* Fewer elements allow more.
LEMMA FewerAllowMore ==
  ASSUME NEW S, NEW T, T \subseteq S
  PROVE  Allowed(S) \subseteq Allowed(T)
BY DEF Allowed

\* A verdict is a record, and an infeasible one is the truth of what was solved; a feasible
\* one comes with a point of it.
LEMMA VerdictsAreTrue ==
  ASSUME NEW S, NEW v \in Verdicts(S)
  PROVE  /\ v.status \in {"limit", "infeasible", "feasible"}
         /\ v.status = "infeasible" => Proves(S)
         /\ v.status = "feasible" => v.point # {} /\ v.point \subseteq Allowed(S)
BY DEF Verdicts, Proves

LEMMA IisInitially == IisInit => IisInv
BY DEF IisInit, IisInv, IisTypes, Proves, Tried, Ended

\* A trial keeps what was witnessed: an element dropped only loosens the rest.
LEMMA TrialKeeps == IisInv /\ Trial => IisInv'
<1> SUFFICES ASSUME IisInv, Trial PROVE IisInv'
  OBVIOUS
<1>1. PICK k \in untried : /\ untried' = untried \ {k}
                           /\ \E v \in Verdicts(Without(k)) :
                                IF v.status = "infeasible"
                                  THEN active' = active \ {k} /\ UNCHANGED <<witness, doubt>>
                                  ELSE /\ witness' = [witness EXCEPT ![k] = v.point]
                                       /\ doubt' = (doubt \/ v.status = "limit")
                                       /\ active' = active
  BY DEF Trial
<1>2. iisPhase = "deleting" /\ UNCHANGED <<system, iisPhase, support>>
  BY DEF Trial
<1>3. PICK v \in Verdicts(Without(k)) :
        IF v.status = "infeasible"
          THEN active' = active \ {k} /\ UNCHANGED <<witness, doubt>>
          ELSE /\ witness' = [witness EXCEPT ![k] = v.point]
               /\ doubt' = (doubt \/ v.status = "limit")
               /\ active' = active
  BY <1>1
<1>4. /\ v.status \in {"limit", "infeasible", "feasible"}
      /\ v.status = "infeasible" => Proves(active \ {k})
      /\ v.status = "feasible" => v.point # {} /\ v.point \subseteq Allowed(active \ {k})
  BY VerdictsAreTrue DEF Without
<1>5. v.point \subseteq Spots
  BY DEF Verdicts, Allowed
<1>6. k \in active /\ untried \subseteq active /\ active \subseteq DOMAIN system
  BY DEF IisInv, IisTypes
<1>7. IisTypes'
  BY <1>1, <1>2, <1>3, <1>5, <1>6 DEF IisInv, IisTypes
<1>8. Proves(support)' /\ Ended'
  BY <1>2 DEF IisInv, Proves, Allowed, Ended
<1>9. CASE v.status = "infeasible"
  <2>1. active' = active \ {k} /\ witness' = witness /\ doubt' = doubt
    BY <1>3, <1>9
  <2>2. Proves(active)'
    BY <2>1, <1>2, <1>4, <1>9 DEF Proves, Allowed
  <2>3. ASSUME ~doubt', NEW j \in active' \ untried' PROVE Witnessed(j)'
    <3>1. j \in active \ untried /\ Witnessed(j)
      BY <2>1, <2>3, <1>1 DEF IisInv, Tried
    <3>2. Allowed(active \ {j}) \subseteq Allowed(active' \ {j})
      BY <2>1, FewerAllowMore
    <3>3. Allowed(active \ {j})' = Allowed(active' \ {j})
      BY <1>2 DEF Allowed
    <3>. QED  BY <2>1, <3>1, <3>2, <3>3 DEF Witnessed
  <2>. QED  BY <1>7, <1>8, <2>2, <2>3 DEF IisInv, Tried
<1>10. CASE v.status # "infeasible"
  <2>1. /\ witness' = [witness EXCEPT ![k] = v.point]
        /\ doubt' = (doubt \/ v.status = "limit") /\ active' = active
    BY <1>3, <1>10
  <2>2. Proves(active)'
    BY <2>1, <1>2 DEF IisInv, Proves, Allowed
  <2>3. ASSUME ~doubt', NEW j \in active' \ untried' PROVE Witnessed(j)'
    <3>1. Allowed(active \ {j})' = Allowed(active \ {j})
      BY <1>2, <2>1 DEF Allowed
    <3>2. CASE j = k
      BY <1>4, <1>6, <1>10, <2>1, <2>3, <3>1, <3>2 DEF IisInv, IisTypes, Witnessed
    <3>3. CASE j # k
      BY <1>1, <2>1, <2>3, <3>1, <3>3 DEF IisInv, IisTypes, Tried, Witnessed
    <3>. QED  BY <3>2, <3>3
  <2>. QED  BY <1>7, <1>8, <2>2, <2>3 DEF IisInv, Tried
<1>. QED  BY <1>9, <1>10

LEMMA CertifyKeeps == IisInv /\ Certify => IisInv'
<1> SUFFICES ASSUME IisInv, Certify PROVE IisInv'
  OBVIOUS
<1>1. /\ iisPhase' = "certifying" /\ untried = {} /\ UNCHANGED <<system, active, untried, witness>>
      /\ \/ support' \subseteq active /\ Proves(support') /\ doubt' = doubt
         \/ support' = support /\ doubt' = TRUE
  BY DEF Certify
<1>2. Proves(active)' /\ Proves(support)'
  BY <1>1 DEF IisInv, Proves, Allowed
<1>3. Tried'
  BY <1>1 DEF IisInv, Tried, Witnessed, Allowed
<1>. QED  BY <1>1, <1>2, <1>3 DEF IisInv, IisTypes, Ended

LEMMA ReportKeeps == IisInv /\ Report => IisInv'
<1> SUFFICES ASSUME IisInv, Report PROVE IisInv'
  OBVIOUS
<1>1. /\ iisPhase = "certifying" /\ iisPhase' = "reported"
      /\ UNCHANGED <<system, active, untried, support>>
      /\ doubt' = (doubt \/ \E k \in active : witness[k] = {})
      /\ witness' = IF doubt' THEN [k \in DOMAIN system |-> {}] ELSE witness
  BY DEF Report
<1>2. Proves(active)' /\ Proves(support)'
  BY <1>1 DEF IisInv, Proves, Allowed
<1>3. Tried'
  BY <1>1 DEF IisInv, Tried, Witnessed, Allowed
<1>4. IisTypes' /\ Ended'
  BY <1>1 DEF IisInv, IisTypes, Ended
<1>. QED  BY <1>2, <1>3, <1>4 DEF IisInv

LEMMA StutterKeeps == IisInv /\ UNCHANGED iisVars => IisInv'
BY DEF IisInv, iisVars, IisTypes, Proves, Allowed, Tried, Witnessed, Ended

LEMMA IisInvReports == IisInv => IisIsIrreducible
BY DEF IisInv, IisTypes, Tried, Witnessed, Ended, IisIsIrreducible

\* The report is infeasible whatever ended the trials, and without doubt irreducible, with
\* witnesses and a certificate of its own (compute_iis()).
THEOREM ReportIsIrreducible == IisSpec => []IisIsIrreducible
<1>1. IisInv /\ [IisNext]_iisVars => IisInv'
  BY TrialKeeps, CertifyKeeps, ReportKeeps, StutterKeeps DEF IisNext
<1>. QED  BY <1>1, IisInitially, IisInvReports, PTL DEF IisSpec
=============================================================================
