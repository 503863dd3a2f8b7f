------------------------------ MODULE Simplex ------------------------------
(***************************************************************************)
(* The simplex engines of src/simplex/: the primal loop, the dual loop and *)
(* its hand-over, the crossover's push, and what they share - the basis,   *)
(* its factors, bound and cost perturbation, artificial bounds, repair.    *)
(*                                                                         *)
(* Arithmetic is exact on models whose bases have determinant 0, 1 or -1.  *)
(* What rounding does is a choice: while the factors are updated in place  *)
(* rather than fresh, a value or a price read through them may be wrong    *)
(* (drift), as the comments of primal_simplex.cpp measured on grow7 and    *)
(* maros-r7.  Pricing rules and iteration counters are choices too.        *)
(***************************************************************************)
EXTENDS LinearModel, FiniteSets

CONSTANTS Lps,       \* the models explored, fields as in LinearModel
          Shift,     \* kPerturbationSize, kDualCostPerturbation
          Box,       \* kArtificialBound
          Marginal,  \* kInfeasibilityProofFactor times the tolerance, which is zero
          Grid       \* spacing of the interior points a crossover starts from

\* validate() refuses bounds that cross.  Inf stands for an infinity that no finite bound
\* reaches by being relaxed, nor a point of the grid.
SaneBounds(lo, up) ==
  /\ lo \in Int /\ up \in Int /\ lo <= up
  /\ Finite(lo) => -Inf < lo - Shift
  /\ Finite(up) => up + Shift < Inf

ASSUME SimplexAssumption ==
  /\ Shift \in Nat /\ Grid \in Nat /\ 4 * Grid < Inf
  /\ \A m \in Lps : /\ IsFiniteSet(Cols(m)) /\ IsFiniteSet(Rows(m))
                    /\ \A c \in Cols(m) : SaneBounds(m.lo[c], m.up[c])
                    /\ \A r \in Rows(m) : SaneBounds(m.rl[r], m.ru[r])

VARIABLES
  lp, tab,   \* the model, and B^-1 [A | -I] of each of its bases (constant)
  truth,     \* history: what is true of the model
  drift,     \* may a reading through updated factors be wrong?
  engine,    \* "primal", "dual" or "push"
  pc, resume,  \* the next step, and where a factorization returns to
  loop,      \* the loop in charge
  at, val,   \* status_ and nonbasic_value_; "basic" is what basis_position_ says
  misnamed,  \* the basic variables whose status_ names a bound
  bent,      \* perturbed_: the bounds are relaxed
  tilt,      \* what perturb_costs() added to each cost
  boxed,     \* artificial_lower_, artificial_upper_
  lu,        \* "fresh", or "etas" when the factors were updated since
  xs,        \* "fresh" when x_B was computed through fresh factors
  aside,     \* numerically_dependent_
  pick,      \* the entering column in hand
  todo,      \* the push's superbasic columns still to move
  ans        \* what finish() reports

model == <<lp, tab, truth, drift, engine>>
point == <<at, val, misnamed>>
relax == <<bent, tilt, boxed>>
vars == <<model, pc, resume, loop, point, relax, lu, xs, aside, pick, todo, ans>>

-----------------------------------------------------------------------------
\* The working problem: [A | -I] over columns and logicals

Vars == Cols(lp) \cup Rows(lp)
Basis == {k \in Vars : at[k] = "basic"}
Nonbasic == Vars \ Basis

Entry(k, r) == CASE k \in Rows(lp) -> IF k = r THEN -1 ELSE 0
                 [] OTHER -> lp.coef[r][k]

Combination(B, z, r) == MapThenSumSet(LAMBDA b : z[b] * Entry(b, r), B)

Nonsingular(B) ==
  \A z \in [B -> -1 .. 1] :
    (\A r \in Rows(lp) : Combination(B, z, r) = 0) => \A b \in B : z[b] = 0

Ftran(B, k) == CHOOSE z \in [B -> -1 .. 1] : \A r \in Rows(lp) : Combination(B, z, r) = Entry(k, r)

Tableaux ==
  [B \in {S \in kSubset(Cardinality(Rows(lp)), Vars) : Nonsingular(S)} |->
     [k \in Vars |-> IF k \in B THEN [b \in B |-> IF b = k THEN 1 ELSE 0] ELSE Ftran(B, k)]]

TrueLo(k) == IF k \in Rows(lp) THEN lp.rl[k] ELSE lp.lo[k]
TrueUp(k) == IF k \in Rows(lp) THEN lp.ru[k] ELSE lp.up[k]
TrueCost(k) == IF k \in Rows(lp) THEN 0 ELSE lp.sense * lp.cost[k]

Bends(k) == bent /\ TrueLo(k) # TrueUp(k)

Lo(k) ==
  IF k \in boxed.lower THEN (IF Finite(TrueUp(k)) THEN TrueUp(k) ELSE 0) - Box
  ELSE IF Bends(k) /\ Finite(TrueLo(k)) THEN TrueLo(k) - Shift ELSE TrueLo(k)
Up(k) ==
  IF k \in boxed.upper THEN (IF Finite(TrueLo(k)) THEN TrueLo(k) ELSE 0) + Box
  ELSE IF Bends(k) /\ Finite(TrueUp(k)) THEN TrueUp(k) + Shift ELSE TrueUp(k)
Cost(k) == TrueCost(k) + tilt[k]

\* make_nonbasic() between two bounds: of two finite ones the nearer to a value that may
\* itself be misread.
Parkings(lo, up) ==
  CASE lo = up -> {"fixed"}
    [] OTHER -> (IF Finite(lo) THEN {"lower"} ELSE {}) \cup (IF Finite(up) THEN {"upper"} ELSE {})
                  \cup (IF ~Finite(lo) /\ ~Finite(up) THEN {"free"} ELSE {})

ParkValue(status, lo, up) ==
  CASE status \in {"lower", "fixed"} -> lo [] status = "upper" -> up [] OTHER -> 0

\* compute_basic_values(): B x_B = -N x_N.
Valued(B, value, b) == -MapThenSumSet(LAMBDA k : value[k] * tab[B][k][b], Vars \ B)
X(b) == Valued(Basis, val, b)

Outside(x, lo, up) == IF x < lo THEN lo - x ELSE IF x > up THEN x - up ELSE 0
Worst == Max({0} \cup {Outside(X(b), Lo(b), Up(b)) : b \in Basis})

-----------------------------------------------------------------------------
\* What is true of a model, by its basic solutions

Corners ==
  UNION {{[basis |-> B, value |-> [k \in Vars \ B |-> ParkValue(s[k], TrueLo(k), TrueUp(k))]] :
            s \in {f \in [Vars \ B -> {"lower", "upper", "free", "fixed"}] :
                     \A k \in Vars \ B : f[k] \in Parkings(TrueLo(k), TrueUp(k))}} :
         B \in DOMAIN tab}

CornerFeasible(c) ==
  \A b \in c.basis : Outside(Valued(c.basis, c.value, b), TrueLo(b), TrueUp(b)) = 0

CornerCost(c) ==
  MapThenSumSet(LAMBDA k : TrueCost(k) *
                  (IF k \in c.basis THEN Valued(c.basis, c.value, k) ELSE c.value[k]), Vars)

\* Some basis prices every direction the bounds leave open as no improvement.
Bounded ==
  \E B \in DOMAIN tab : \A k \in Vars \ B :
    LET d == TrueCost(k) - MapThenSumSet(LAMBDA b : TrueCost(b) * tab[B][k][b], B)
    IN  (d > 0 => Finite(TrueLo(k))) /\ (d < 0 => Finite(TrueUp(k)))

Truth ==
  LET feasible == {c \in Corners : CornerFeasible(c)}
  IN  [kind |-> IF feasible = {} THEN "infeasible" ELSE IF Bounded THEN "optimal" ELSE "unbounded",
       value |-> IF feasible = {} THEN 0 ELSE Min({CornerCost(c) : c \in feasible})]

-----------------------------------------------------------------------------
\* Certificates, read on the model (src/core/certificate.cpp)

\* The rows, weighted, ask for more than the columns' bounds allow, and lean on no bound
\* that is missing.
FarkasProvesInfeasible(y) ==
  LET asked(r) == IF y[r] > 0 THEN lp.rl[r] ELSE lp.ru[r]
      d(c) == MapThenSumSet(LAMBDA r : lp.coef[r][c] * y[r], Rows(lp))
      most(c) == IF d(c) > 0 THEN lp.up[c] ELSE lp.lo[c]
      leaning == {r \in Rows(lp) : y[r] # 0}
      moved == {c \in Cols(lp) : d(c) # 0}
  IN  /\ leaning # {}
      /\ \A r \in leaning : Finite(asked(r))
      /\ \A c \in moved : Finite(most(c))
      /\ MapThenSumSet(LAMBDA r : y[r] * asked(r), leaning)
           > MapThenSumSet(LAMBDA c : d(c) * most(c), moved)

Negated(y) == [r \in DOMAIN y |-> -y[r]]

\* No bound of a column or a row is in the direction's way, and it improves the objective.
RayProvesUnbounded(d) ==
  LET Clear(step, lo, up) == (step > 0 => ~Finite(up)) /\ (step < 0 => ~Finite(lo))
  IN  /\ \A c \in Cols(lp) : Clear(d[c], lp.lo[c], lp.up[c])
      /\ \A r \in Rows(lp) : Clear(Dot(lp.coef[r], d, Cols(lp)), lp.rl[r], lp.ru[r])
      /\ MapThenSumSet(LAMBDA c : TrueCost(c) * d[c], Cols(lp)) < 0

-----------------------------------------------------------------------------
\* Starting

NoPick == [k |-> "none", dir |-> 0, pos |-> <<>>, phaseOne |-> FALSE, fresh |-> TRUE]
NoProof == <<>>
NoAnswer == [status |-> "none", bound |-> -Inf, sure |-> TRUE, proof |-> NoProof]

\* seed_basis(): any m statuses said to be basic, the others on a bound that exists.
WarmStatuses ==
  UNION {{s \in [Vars -> {"basic", "lower", "upper", "free", "fixed"}] :
            \A k \in Vars : IF k \in B THEN s[k] = "basic"
                            ELSE s[k] \in Parkings(TrueLo(k), TrueUp(k))} :
         B \in kSubset(Cardinality(Rows(lp)), Vars)}

\* The points an interior method may hand over, with their row activities.
InteriorPoints ==
  {x \in [Vars -> {Grid * i : i \in -4 .. 4}] :
     /\ \A r \in Rows(lp) : x[r] = Dot(lp.coef[r], x, Cols(lp))
     /\ \A k \in Vars : Outside(x[k], TrueLo(k), TrueUp(k)) = 0}

Inside(x, k) == TrueLo(k) < x[k] /\ x[k] < TrueUp(k)

\* crossover_guess(): logicals of interior rows first, then interior columns, repaired
\* until it factorizes; what is left goes to its nearer bound.
Guesses(x) ==
  {B \in DOMAIN tab : /\ {r \in Rows(lp) : Inside(x, r)} \subseteq B
                      /\ \A c \in B \cap Cols(lp) : TrueLo(c) # TrueUp(c)}

NearerBound(v, lo, up) ==
  CASE lo = up -> "fixed"
    [] ~Finite(lo) /\ ~Finite(up) -> "free"
    [] OTHER -> IF ~Finite(up) \/ (Finite(lo) /\ v - lo <= up - v) THEN "lower" ELSE "upper"

SeedFrom(x, B) ==
  /\ at = [k \in Vars |-> IF k \in B THEN "basic" ELSE NearerBound(x[k], TrueLo(k), TrueUp(k))]
  /\ val = [k \in Vars |-> IF k \in B THEN 0 ELSE x[k]]
  /\ todo = {k \in Vars \ B : Inside(x, k)}

Init ==
  /\ lp \in Lps /\ tab = Tableaux /\ truth = Truth /\ drift \in BOOLEAN
  /\ engine \in {"primal", "dual", "push"} /\ loop = engine
  /\ bent = FALSE /\ tilt = [k \in Vars |-> 0] /\ boxed = [lower |-> {}, upper |-> {}]
  /\ IF engine = "push"
     THEN \E x \in InteriorPoints : \E B \in Guesses(x) : SeedFrom(x, B)
     ELSE /\ at \in WarmStatuses /\ todo = {}
          /\ val = [k \in Vars |-> ParkValue(at[k], TrueLo(k), TrueUp(k))]
  /\ pc = "factorize" /\ resume = "begin"
  /\ lu = "etas" /\ xs = "stale" /\ misnamed = {} /\ aside = {}
  /\ pick = NoPick /\ ans = NoAnswer

-----------------------------------------------------------------------------
\* Reporting and handing over

\* remove_perturbation() moves every nonbasic variable back onto the true bound.
Unbent ==
  [k \in Vars |-> IF bent /\ at[k] \in {"lower", "upper"}
                  THEN ParkValue(at[k], TrueLo(k), TrueUp(k)) ELSE val[k]]

\* Mutant: a finished solve keeps the relaxed bounds.
FinishBent(status, bound, sure, proof) ==
  /\ ans' = [status |-> status, bound |-> bound, sure |-> sure, proof |-> proof]
  /\ bent' = FALSE /\ pc' = "done"
  /\ UNCHANGED <<model, resume, loop, point, tilt, boxed, lu, xs, aside, pick, todo>>

\* finish()
Finish(status, bound, sure, proof) ==
  /\ ans' = [status |-> status, bound |-> bound, sure |-> sure, proof |-> proof]
  /\ val' = Unbent /\ bent' = FALSE /\ pc' = "done"
  /\ UNCHANGED <<model, resume, loop, at, misnamed, tilt, boxed, lu, xs, aside, pick, todo>>

Untilted == [k \in Vars |-> 0]
NoBox == [lower |-> {}, upper |-> {}]
Boxed == boxed.lower \cup boxed.upper
BoxActive == \E k \in Nonbasic : \/ at[k] = "lower" /\ k \in boxed.lower
                                 \/ at[k] = "upper" /\ k \in boxed.upper

\* remove_artificial_bounds(): a boxed variable lacks a bound, so there is one place to go.
Unboxed ==
  [k \in Vars |-> IF k \in Nonbasic \cap Boxed
                  THEN CHOOSE s \in Parkings(TrueLo(k), TrueUp(k)) : TRUE ELSE at[k]]
UnboxedValue ==
  [k \in Vars |-> IF k \in Nonbasic \cap Boxed
                  THEN ParkValue(Unboxed[k], TrueLo(k), TrueUp(k)) ELSE val[k]]

\* The two removals of an exit of the dual loop.
RestoreProblem ==
  /\ tilt' = Untilted /\ boxed' = NoBox
  /\ at' = Unboxed /\ val' = UnboxedValue /\ UNCHANGED misnamed

FinishRestored(status, bound, sure, proof) ==
  /\ RestoreProblem
  /\ ans' = [status |-> status, bound |-> bound, sure |-> sure, proof |-> proof]
  /\ pc' = "done"
  /\ UNCHANGED <<model, resume, loop, bent, lu, xs, aside, pick, todo>>

\* hand_over(): the primal loop continues from this basis.
HandOver ==
  /\ RestoreProblem
  /\ loop' = "primal" /\ pc' = "start"
  /\ UNCHANGED <<model, resume, bent, lu, xs, aside, pick, todo, ans>>

Goto(label) == pc' = label /\ UNCHANGED resume
Refactorize(label) == pc' = "factorize" /\ resume' = label

\* What compute_basic_values() leaves of x_B's trust.
Recomputed == IF lu = "fresh" THEN "fresh" ELSE "stale"

\* position_of()
Where(b) ==
  CASE Finite(Lo(b)) /\ X(b) < Lo(b) -> "below"
    [] Finite(Up(b)) /\ X(b) > Up(b) -> "above"
    [] OTHER -> "in"
Places(b) == {"in"} \cup (IF Finite(Lo(b)) THEN {"below"} ELSE {})
                    \cup (IF Finite(Up(b)) THEN {"above"} ELSE {})

-----------------------------------------------------------------------------
\* refactorize()

Factorized ==
  /\ pc = "factorize" /\ Basis \in DOMAIN tab
  /\ lu' = "fresh" /\ xs' = IF resume = "ratio" THEN xs ELSE "fresh"
  /\ aside' = {} /\ pc' = resume
  /\ UNCHANGED <<model, resume, loop, point, relax, pick, todo, ans>>

\* repair_basis(): the columns no pivot reached - which may be more than the defect - give
\* way to logicals of the rows no pivot covered: the column being priced may be one of them,
\* and stays in hand.
RepairBasis ==
  /\ pc = "factorize" /\ Basis \notin DOMAIN tab
  /\ \E out \in SUBSET Basis, in \in SUBSET (Rows(lp) \ Basis) :
       /\ (Basis \ out) \cup in \in DOMAIN tab
       /\ \E s \in [out -> {"lower", "upper", "free", "fixed"}] :
            /\ \A k \in out : s[k] \in Parkings(Lo(k), Up(k))
            /\ at' = [k \in Vars |-> CASE k \in out -> s[k] [] k \in in -> "basic"
                                       [] OTHER -> at[k]]
            /\ val' = [k \in Vars |-> IF k \in out THEN ParkValue(s[k], Lo(k), Up(k)) ELSE val[k]]
       /\ misnamed' = misnamed \ out
  /\ lu' = "fresh" /\ xs' = "fresh" /\ aside' = {} /\ pc' = resume
  /\ UNCHANGED <<model, resume, loop, relax, todo, ans>>
  /\ pick' = IF pick = NoPick THEN NoPick ELSE [pick EXCEPT !.pos = [b \in Basis |-> Where(b)]']

\* Its guards refuse: prepare() falls back on the slack basis, a loop gives up.
ColdStart ==
  /\ pc = "factorize" /\ Basis \notin DOMAIN tab /\ resume = "begin"
  /\ at' = [k \in Vars |-> IF k \in Rows(lp) THEN "basic"
                           ELSE IF "lower" \in Parkings(Lo(k), Up(k)) THEN "lower"
                           ELSE CHOOSE s \in Parkings(Lo(k), Up(k)) : TRUE]
  /\ val' = [k \in Vars |-> ParkValue(at'[k], Lo(k), Up(k))]
  /\ UNCHANGED <<model, pc, resume, loop, misnamed, relax, lu, xs, aside, pick, todo, ans>>

Singular ==
  /\ pc = "factorize" /\ Basis \notin DOMAIN tab /\ resume # "begin"
  /\ IF loop = "dual" THEN FinishRestored("numerical_error", -Inf, FALSE, NoProof)
     ELSE Finish("numerical_error", -Inf, FALSE, NoProof)

\* Abandoned on the deadline, which a push never armed.
FactorizationAbandoned ==
  /\ pc = "factorize" /\ engine # "push"
  /\ IF loop = "dual" THEN FinishRestored("time_limit", -Inf, FALSE, NoProof)
     ELSE Finish("time_limit", -Inf, FALSE, NoProof)

-----------------------------------------------------------------------------
\* Between iterations

LimitExits == {"iteration_limit", "time_limit", "interrupted"}

\* A budget of zero buys no iteration: the loop's first test, before any pivot.
NothingAllowed ==
  /\ pc = "start"
  /\ \E status \in LimitExits : Finish(status, -Inf, FALSE, NoProof)

StopAtLimit ==
  /\ pc = "count"
  /\ \E status \in LimitExits :
       IF loop # "dual" THEN Finish(status, -Inf, FALSE, NoProof)
       ELSE LET bound == IF Boxed = {} /\ Basis \in DOMAIN tab
                         THEN MapThenSumSet(LAMBDA k : TrueCost(k) *
                                (IF k \in Basis THEN X(k) ELSE val[k]), Vars)
                         ELSE -Inf
            IN  FinishRestored(status, bound, lu = "fresh", NoProof)

Iterate ==
  /\ pc \in {"start", "count"}
  /\ Goto(IF loop = "dual" THEN "dual" ELSE "price")
  /\ pick' = NoPick
  /\ UNCHANGED <<model, loop, point, relax, lu, xs, aside, todo, ans>>

-----------------------------------------------------------------------------
\* Pricing

Exact(freshness) == ~drift \/ freshness = "fresh"

\* The reading in hand lasts until x_B is computed again.
Readings ==
  IF pick # NoPick THEN {pick.pos}
  ELSE IF Exact(xs) THEN {[b \in Basis |-> Where(b)]}
  ELSE {pos \in [Basis -> {"below", "in", "above"}] : \A b \in Basis : pos[b] \in Places(b)}

PhaseOne(pos) == \E b \in DOMAIN pos : pos[b] # "in"

\* compute_reduced_costs(phase_one)
Weight(place) == CASE place = "below" -> -1 [] place = "above" -> 1 [] OTHER -> 0
Price(k, pos, phaseOne) ==
  IF phaseOne THEN -MapThenSumSet(LAMBDA b : Weight(pos[b]) * tab[Basis][k][b], Basis)
  ELSE Cost(k) - MapThenSumSet(LAMBDA b : Cost(b) * tab[Basis][k][b], Basis)

Directions(k) ==
  CASE at[k] = "lower" -> {1} [] at[k] = "upper" -> {-1} [] at[k] = "free" -> {1, -1} [] OTHER -> {}

\* price(): what any of its rules may choose.
Eligible(pos) ==
  {e \in [k : Nonbasic \ aside, dir : {1, -1}] :
     /\ e.dir \in Directions(e.k)
     /\ Exact(lu) => e.dir * Price(e.k, pos, PhaseOne(pos)) < 0}

\* Every basic variable is where it should be, as far as the reading goes.
NothingPrices(pos) == pos \in Readings /\ (Exact(lu) => Eligible(pos) = {})

PhaseOneStalls ==
  /\ pc = "price"
  /\ \E pos \in Readings :
       /\ PhaseOne(pos) /\ NothingPrices(pos)
       /\ \/ /\ Exact(xs) => Worst <= Marginal
             /\ Finish("numerical_error", -Inf, FALSE, NoProof)
          \/ /\ Exact(xs) => Worst > Marginal
             /\ Finish("infeasible", -Inf, lu = "fresh" /\ xs = "fresh",
                       IF lu = "fresh" THEN [r \in Rows(lp) |-> Price(r, pos, TRUE)] ELSE NoProof)

\* The largest violation has grown out of all proportion: the basis is lost.
Diverged ==
  /\ pc = "price" /\ ~Exact(xs)
  /\ \E pos \in Readings : PhaseOne(pos)
  /\ Finish("numerical_error", -Inf, FALSE, NoProof)

RestoreBounds ==
  /\ pc = "price" /\ bent
  /\ \E pos \in Readings : ~PhaseOne(pos) /\ NothingPrices(pos)
  /\ bent' = FALSE /\ val' = Unbent /\ xs' = Recomputed /\ pick' = NoPick
  /\ UNCHANGED <<model, pc, resume, loop, at, misnamed, tilt, boxed, lu, aside, todo, ans>>

PriceAgain ==
  /\ pc = "price" /\ ~bent /\ lu = "etas"
  /\ \E pos \in Readings : ~PhaseOne(pos) /\ NothingPrices(pos)
  /\ Refactorize("price") /\ pick' = NoPick
  /\ UNCHANGED <<model, loop, point, relax, lu, xs, aside, todo, ans>>


\* Mutant: optimality is declared on whatever factors are in play.
OptimalThroughEtas ==
  /\ pc = "price" /\ ~bent
  /\ \E pos \in Readings : ~PhaseOne(pos) /\ NothingPrices(pos)
  /\ Finish("optimal", -Inf, TRUE, NoProof)

\* Optimality is declared on fresh factors or not at all.
PrimalOptimal ==
  /\ pc = "price" /\ ~bent /\ lu = "fresh"
  /\ \E pos \in Readings : ~PhaseOne(pos) /\ NothingPrices(pos)
  /\ Finish("optimal", -Inf, TRUE, NoProof)

\* The accuracy check may refactorize under a column already chosen.
ChooseEntering ==
  /\ pc = "price"
  /\ \E pos \in Readings : \E e \in Eligible(pos) :
       pick' = [k |-> e.k, dir |-> e.dir, pos |-> pos, phaseOne |-> PhaseOne(pos),
                fresh |-> lu = "fresh"]
  /\ Goto("ratio") \/ (drift /\ lu = "etas" /\ Refactorize("ratio"))
  /\ UNCHANGED <<model, loop, point, relax, lu, xs, aside, todo, ans>>

-----------------------------------------------------------------------------
\* The ratio test and the pivot

Rate(b) == -pick.dir * tab[Basis][pick.k][b]
Bound(b, side) == IF side = "lower" THEN Lo(b) ELSE Up(b)
Width(k) == IF Finite(Lo(k)) /\ Finite(Up(k)) THEN Up(k) - Lo(k) ELSE Inf

\* Where a basic variable stops the step: outside, at the bound it violates.
Stops(b) ==
  CASE pick.phaseOne /\ pick.pos[b] = "below" -> IF Rate(b) > 0 THEN {"lower"} ELSE {}
    [] pick.phaseOne /\ pick.pos[b] = "above" -> IF Rate(b) < 0 THEN {"upper"} ELSE {}
    [] OTHER -> {side \in {"lower", "upper"} :
                   Finite(Bound(b, side)) /\ (IF side = "upper" THEN Rate(b) > 0 ELSE Rate(b) < 0)}

Blocks == UNION {{[b |-> b, side |-> side] : side \in Stops(b)} : b \in Basis}

\* |Rate| is 1, and a step backwards is none.
Step(block) == Max({0, (Bound(block.b, block.side) - X(block.b)) * Rate(block.b)})

Flip(zero) == [b |-> "none", side |-> "flip", zero |-> zero]

\* What ratio_test_textbook() or ratio_test_harris() may return: a tie goes to the pivot.
Moves ==
  LET range == Width(pick.k)
      pivot(block, zero) == [b |-> block.b, side |-> block.side, zero |-> zero]
      shortest == Min({range} \cup {Step(block) : block \in Blocks})
  IN  CASE Exact(lu) /\ Exact(xs) ->
             {pivot(block, shortest = 0) : block \in {c \in Blocks : Step(c) = shortest}}
               \cup (IF range # Inf /\ \A block \in Blocks : Step(block) > range
                     THEN {Flip(range = 0)} ELSE {})
        [] Exact(lu) /\ ~Exact(xs) ->
             {pivot(block, zero) : block \in Blocks, zero \in BOOLEAN}
               \cup (IF range # Inf THEN {Flip(FALSE)} ELSE {})
        [] OTHER ->
             {m \in [b : Basis, side : {"lower", "upper"}, zero : BOOLEAN] :
                Finite(Bound(m.b, m.side))}
               \cup (IF range # Inf THEN {Flip(FALSE)} ELSE {})

NoBlocker ==
  /\ pc = "ratio"
  /\ Exact(lu) => Blocks = {} /\ Width(pick.k) = Inf

\* Reached through updates: refactorize before believing it.
RecheckRay ==
  /\ NoBlocker /\ lu = "etas"
  /\ Refactorize("recheck")
  /\ UNCHANGED <<model, loop, point, relax, lu, xs, aside, pick, todo, ans>>

\* The prices and the point are new; the phase is still the one the column was chosen in.
Recheck ==
  /\ pc = "recheck"
  /\ LET pos == [b \in Basis |-> Where(b)]
     IN  IF pick.k \in Nonbasic /\ pick.dir * Price(pick.k, pos, pick.phaseOne) < 0
         THEN pick' = [pick EXCEPT !.pos = pos, !.fresh = TRUE] /\ Goto("ratio")
         ELSE pick' = NoPick /\ Goto("price")
  /\ UNCHANGED <<model, loop, point, relax, lu, xs, aside, todo, ans>>

\* In phase 1 a column the basis spans is set aside; anything else is a failure.
SetAside ==
  /\ NoBlocker /\ lu = "fresh" /\ pick.phaseOne
  /\ \A b \in Basis : Rate(b) = 0
  /\ aside' = aside \cup {pick.k} /\ Goto("price")
  /\ UNCHANGED <<model, loop, point, relax, lu, xs, pick, todo, ans>>

PhaseOneBroken ==
  /\ NoBlocker /\ lu = "fresh" /\ pick.phaseOne
  /\ \E b \in Basis : Rate(b) # 0
  /\ Finish("numerical_error", -Inf, FALSE, NoProof)

\* unbounded_ray(): the direction of the structural columns.
Ray == [c \in Cols(lp) |-> CASE c = pick.k -> pick.dir [] c \in Basis -> Rate(c) [] OTHER -> 0]

Unbounded ==
  /\ NoBlocker /\ lu = "fresh" /\ ~pick.phaseOne
  /\ Finish("unbounded", -Inf, pick.fresh, Ray)

\* A run of zero steps: the bounds are relaxed once, later the solve gives up.
PerturbBounds ==
  /\ pc = "ratio" /\ ~bent
  /\ \E move \in Moves : move.zero
  /\ bent' = TRUE /\ xs' = Recomputed /\ pick' = NoPick /\ Goto("price")
  /\ UNCHANGED <<model, loop, point, tilt, boxed, lu, aside, todo, ans>>

Stalled ==
  /\ pc = "ratio"
  /\ \E move \in Moves : move.zero
  /\ Finish("numerical_error", -Inf, FALSE, NoProof)

\* The status changes, and nothing asks whether a repair has made the column basic.
BoundFlip ==
  /\ pc = "ratio"
  /\ \E move \in Moves : move.side = "flip"
  /\ IF pick.k \in Basis THEN misnamed' = misnamed \cup {pick.k} /\ UNCHANGED <<at, val>>
     ELSE /\ at' = [at EXCEPT ![pick.k] = IF pick.dir > 0 THEN "upper" ELSE "lower"]
          /\ val' = [val EXCEPT ![pick.k] = IF pick.dir > 0 THEN Up(pick.k) ELSE Lo(pick.k)]
          /\ UNCHANGED misnamed
  /\ xs' = Recomputed /\ Goto("count")
  /\ UNCHANGED <<model, loop, relax, lu, aside, pick, todo, ans>>

\* b leaves for the bound it hit, k enters; a column that a repair has made basic leaves
\* and enters at once.
Swap(k, b, side) ==
  /\ at' = [at EXCEPT ![b] = IF Lo(b) = Up(b) THEN "fixed" ELSE side, ![k] = "basic"]
  /\ val' = [val EXCEPT ![b] = Bound(b, side), ![k] = 0]
  /\ misnamed' = misnamed \ {b, k}

\* The factors are updated in place, or rebuilt when that is declined or overdue.
AfterPivot(label) ==
  \/ Goto(label) /\ lu' = "etas" /\ xs' = "stale"
  \/ Refactorize(label) /\ UNCHANGED <<lu, xs>>

Pivot ==
  /\ pc = "ratio"
  /\ \E move \in Moves : move.side # "flip" /\ Finite(Bound(move.b, move.side))
                           /\ Swap(pick.k, move.b, move.side)
  /\ AfterPivot("count")
  /\ pick' = NoPick
  /\ UNCHANGED <<model, loop, relax, aside, todo, ans>>

-----------------------------------------------------------------------------
\* The dual loop

\* make_dual_feasible(): a column whose price has the wrong sign moves to its other bound,
\* an artificial one where it has none; a free column is boxed.
WrongSign(k) ==
  LET d == Price(k, <<>>, FALSE)
  IN  CASE at[k] = "lower" -> d < 0 [] at[k] = "upper" -> d > 0 [] at[k] = "free" -> d # 0
        [] OTHER -> FALSE

MakeDualFeasible ==
  LET wrong == {k \in Nonbasic : WrongSign(k)}
      free(k) == at[k] = "free"
      goesUp(k) == IF free(k) THEN Price(k, <<>>, FALSE) < 0 ELSE at[k] = "lower"
  IN  /\ boxed' = [lower |-> {k \in wrong : ~Finite(TrueLo(k)) /\ (free(k) \/ ~goesUp(k))},
                   upper |-> {k \in wrong : ~Finite(TrueUp(k)) /\ (free(k) \/ goesUp(k))}]
      /\ at' = [k \in Vars |-> IF k \notin wrong THEN at[k]
                               ELSE IF goesUp(k) THEN "upper" ELSE "lower"]
      /\ val' = [k \in Vars |->
           IF k \notin wrong THEN val[k]
           ELSE IF goesUp(k)
           THEN IF k \in boxed'.upper THEN (IF free(k) THEN 0 ELSE TrueLo(k)) + Box ELSE TrueUp(k)
           ELSE IF k \in boxed'.lower THEN (IF free(k) THEN 0 ELSE TrueUp(k)) - Box ELSE TrueLo(k)]

Begin ==
  /\ pc = "begin"
  /\ IF engine = "dual" THEN MakeDualFeasible ELSE UNCHANGED <<at, val, boxed>>
  /\ Goto(IF engine = "push" THEN "push" ELSE "start")
  /\ UNCHANGED <<model, loop, misnamed, bent, tilt, lu, xs, aside, pick, todo, ans>>

\* choose_leaving_row()
Leaving ==
  {row \in [b : Basis, side : {"lower", "upper"}] :
            IF Exact(lu) THEN Where(row.b) = (IF row.side = "upper" THEN "above" ELSE "below")
            ELSE Finite(Bound(row.b, row.side))}

NoRowLeaves == pc = "dual" /\ (Exact(lu) => Leaving = {})

DualRefresh ==
  /\ NoRowLeaves /\ lu = "etas"
  /\ Refactorize("dual")
  /\ UNCHANGED <<model, loop, point, relax, lu, xs, aside, pick, todo, ans>>

\* The price of what is on the wrong side, as the loop adds it up: a column with no second
\* bound is given the distance from its bound to zero.
Distance(k) ==
  CASE at[k] = "free" -> 1
    [] Width(k) # Inf -> Width(k)
    [] at[k] = "lower" -> Max({Lo(k), -Lo(k)})
    [] OTHER -> Max({Up(k), -Up(k)})

Gap == \E k \in Nonbasic : WrongSign(k) /\ Distance(k) # 0

DualOptimal ==
  /\ NoRowLeaves /\ lu = "fresh"
  /\ IF BoxActive \/ tilt # Untilted \/ Gap THEN HandOver
     ELSE FinishRestored("optimal", -Inf, \A k \in Nonbasic : ~WrongSign(k), NoProof)

\* Row b of B^-1 A, signed so that an eligible column moves x_b towards its bound.
Alpha(row, k) == (IF row.side = "upper" THEN 1 ELSE -1) * tab[Basis][k][row.b]

Candidates(row) ==
  {k \in Nonbasic : CASE at[k] = "lower" -> Alpha(row, k) > 0
                      [] at[k] = "upper" -> Alpha(row, k) < 0
                      [] at[k] = "free" -> Alpha(row, k) # 0
                      [] OTHER -> FALSE}

DualRatio(row, k) == Max({0, Price(k, <<>>, FALSE) * Alpha(row, k)})

SumRange(ks) == MapThenSumSet(Width, ks)
Slope(row) == Outside(X(row.b), Lo(row.b), Up(row.b))

DualUnbounded(row) ==
  \A k \in Candidates(row) : Width(k) # Inf
    /\ SumRange(Candidates(row)) < Slope(row)

\* dual_ratio_test(): flip boxed columns in the order of their ratios while the row stays
\* outside; the first that cannot be passed stops, and a tie with it may enter.
DualSteps(row) ==
  LET cand == Candidates(row)
      first(set) == {k \in set : \A j \in set : DualRatio(row, k) <= DualRatio(row, j)}
      passed(flips) == /\ \A k \in flips : Width(k) # Inf
                       /\ \A k \in flips, j \in cand \ flips : DualRatio(row, k) <= DualRatio(row, j)
                       /\ flips # {} => SumRange(flips) < Slope(row)
      stops(flips, k) == Width(k) = Inf \/ SumRange(flips) + Width(k) >= Slope(row)
  IN  IF Exact(lu)
      THEN UNION {{[flips |-> flips, k |-> k] : k \in first(cand \ flips)} :
                  flips \in {f \in SUBSET cand :
                               passed(f) /\ \E k \in first(cand \ f) : stops(f, k)}}
      ELSE UNION {{[flips |-> flips, k |-> k] : k \in {j \in Nonbasic : at[j] # "fixed"} \ flips} :
                  flips \in {f \in SUBSET Nonbasic : Cardinality(f) <= 1
                               /\ \A k \in f : Width(k) # Inf /\ at[k] \in {"lower", "upper"}}}

\* No candidate: the caller's model is infeasible, if this is the caller's model, the
\* factors are fresh and the violation is no rounding.
DualInfeasible ==
  /\ pc = "dual"
  /\ \E row \in Leaving :
       /\ Exact(lu) => DualUnbounded(row)
       /\ CASE lu = "etas" -> /\ Refactorize("dual")
                              /\ UNCHANGED <<model, loop, point, relax, lu, xs, aside, pick, todo, ans>>
            [] lu = "fresh" /\ (Boxed # {} \/ Slope(row) <= Marginal) -> HandOver
            [] OTHER -> FinishRestored("infeasible", -Inf, TRUE,
                           [r \in Rows(lp) |-> -tab[Basis][r][row.b]])

Flipped(ks, status) ==
  [k \in Vars |-> IF k \notin ks THEN status[k] ELSE IF status[k] = "lower" THEN "upper" ELSE "lower"]
FlippedValue(ks) ==
  [k \in Vars |-> IF k \notin ks THEN val[k] ELSE IF at[k] = "lower" THEN Up(k) ELSE Lo(k)]

DualStep(row, step) ==
  /\ row \in Leaving /\ step \in DualSteps(row)
  /\ Exact(lu) => ~DualUnbounded(row)

DualPivot ==
  /\ pc = "dual"
  /\ \E row \in Leaving : \E step \in DualSteps(row) :
       /\ DualStep(row, step)
       /\ at' = [Flipped(step.flips, at) EXCEPT
                   ![row.b] = IF Lo(row.b) = Up(row.b) THEN "fixed" ELSE row.side,
                   ![step.k] = "basic"]
       /\ val' = [FlippedValue(step.flips) EXCEPT ![row.b] = Bound(row.b, row.side), ![step.k] = 0]
  /\ AfterPivot("count")
  /\ UNCHANGED <<model, loop, misnamed, relax, aside, pick, todo, ans>>

\* The flips are made before the pivot is looked at.  Then the row may already be inside, or
\* the pivot seen along the row and the column disagree.
FlipsOnly ==
  /\ pc = "dual" /\ drift
  /\ \E row \in Leaving : \E step \in DualSteps(row) :
       /\ DualStep(row, step)
       /\ at' = Flipped(step.flips, at) /\ val' = FlippedValue(step.flips)
  /\ lu = "etas"
  /\ Goto("count") \/ Refactorize("dual")
  /\ UNCHANGED <<model, loop, misnamed, relax, lu, xs, aside, pick, todo, ans>>

\* A dual step of zero: the costs are perturbed once, each further inside its sign; later
\* the primal takes over.
PerturbCosts ==
  /\ pc = "dual" /\ tilt = Untilted
  /\ \E row \in Leaving : \E step \in DualSteps(row) :
       /\ DualStep(row, step)
       /\ Exact(lu) => Price(step.k, <<>>, FALSE) = 0
       /\ at' = Flipped(step.flips, at) /\ val' = FlippedValue(step.flips)
       /\ tilt' = [k \in Vars |-> CASE at'[k] = "lower" -> Shift [] at'[k] = "upper" -> -Shift
                                    [] OTHER -> 0]
  /\ Goto("dual")
  /\ UNCHANGED <<model, loop, misnamed, bent, boxed, lu, xs, aside, pick, todo, ans>>

DualStalls ==
  /\ pc = "dual"
  /\ \E row \in Leaving : \E step \in DualSteps(row) :
       DualStep(row, step) /\ (Exact(lu) => Price(step.k, <<>>, FALSE) = 0)
  /\ HandOver

-----------------------------------------------------------------------------
\* The crossover's push

Pending == {k \in todo : at[k] # "basic"}

\* The nearer finite bound, the lower on a tie; a free variable goes to zero.
Target(k) ==
  CASE ~Finite(Lo(k)) /\ ~Finite(Up(k)) -> [to |-> "free", v |-> 0]
    [] Finite(Up(k)) /\ (~Finite(Lo(k)) \/ Up(k) - val[k] < val[k] - Lo(k)) ->
         [to |-> "upper", v |-> Up(k)]
    [] OTHER -> [to |-> "lower", v |-> Lo(k)]

PushRate(k, b) == (IF Target(k).v >= val[k] THEN -1 ELSE 1) * tab[Basis][k][b]
Room(k, b) ==
  LET rate == PushRate(k, b)
  IN  CASE rate > 0 /\ Finite(Up(b)) -> Max({0, Up(b) - X(b)})
        [] rate < 0 /\ Finite(Lo(b)) -> Max({0, X(b) - Lo(b)})
        [] OTHER -> Inf

\* Mutant: a basic variable that reaches its bound first is passed.
PushToTarget ==
  /\ pc = "push"
  /\ \E k \in Pending :
       /\ at' = [at EXCEPT ![k] = Target(k).to] /\ val' = [val EXCEPT ![k] = Target(k).v]
       /\ todo' = todo \ {k}
  /\ UNCHANGED <<model, pc, resume, loop, misnamed, relax, lu, xs, aside, pick, ans>>

Arrive ==
  /\ pc = "push"
  /\ \E k \in Pending :
       /\ Exact(lu) => \A b \in Basis : Room(k, b) >= Max({Target(k).v - val[k], val[k] - Target(k).v})
       /\ at' = [at EXCEPT ![k] = Target(k).to] /\ val' = [val EXCEPT ![k] = Target(k).v]
       /\ todo' = todo \ {k}
  /\ UNCHANGED <<model, pc, resume, loop, misnamed, relax, lu, xs, aside, pick, ans>>

\* A basic variable blocks: it leaves at the bound it reached.
PushPivot ==
  /\ pc = "push"
  /\ \E k \in Pending, b \in Basis :
       LET distance == Max({Target(k).v - val[k], val[k] - Target(k).v})
           sides == {side \in {"lower", "upper"} : Finite(Bound(b, side))}
       IN  /\ Exact(lu) => /\ Room(k, b) < distance
                           /\ \A c \in Basis : Room(k, b) <= Room(k, c)
           /\ \E side \in sides :
                /\ Exact(lu) => side = (IF PushRate(k, b) > 0 THEN "upper" ELSE "lower")
                /\ Swap(k, b, side)
           /\ todo' = todo \ {k}
  /\ AfterPivot("push")
  /\ UNCHANGED <<model, loop, relax, aside, pick, ans>>

PushDone ==
  /\ pc = "push" /\ Pending = {}
  /\ Refactorize("pushed")
  /\ UNCHANGED <<model, loop, point, relax, lu, xs, aside, pick, todo, ans>>

\* A pushed point too far outside is not the primal loop's to mend.
Pushed ==
  /\ pc = "pushed"
  /\ IF Worst > Marginal THEN Finish("not_solved", -Inf, FALSE, NoProof)
     ELSE /\ loop' = "primal" /\ Goto("start")
          /\ UNCHANGED <<model, point, relax, lu, xs, aside, pick, todo, ans>>

-----------------------------------------------------------------------------
Next ==
  \/ Factorized \/ RepairBasis \/ ColdStart \/ Singular \/ FactorizationAbandoned
  \/ Begin \/ NothingAllowed \/ StopAtLimit \/ Iterate
  \/ PhaseOneStalls \/ Diverged \/ RestoreBounds \/ PriceAgain \/ PrimalOptimal \/ ChooseEntering
  \/ RecheckRay \/ Recheck \/ SetAside \/ PhaseOneBroken \/ Unbounded
  \/ PerturbBounds \/ Stalled \/ BoundFlip \/ Pivot
  \/ DualRefresh \/ DualOptimal \/ DualInfeasible \/ DualPivot \/ FlipsOnly
  \/ PerturbCosts \/ DualStalls
  \/ Arrive \/ PushPivot \/ PushDone \/ Pushed

Spec == Init /\ [][Next]_vars

-----------------------------------------------------------------------------
\* Properties

ReportedCost == MapThenSumSet(LAMBDA k : TrueCost(k) * (IF k \in Basis THEN X(k) ELSE val[k]), Vars)

\* Whatever the updated factors made the loops believe on the way, a verdict that was
\* settled on fresh factors is true of the caller's model: optimal with the least cost;
\* infeasible without a point, and with multipliers that prove it one way round or the
\* other; unbounded without a least cost, and with a ray.
ClaimsHold ==
  pc = "done" /\ ans.sure =>
    /\ ans.status = "optimal" => truth.kind = "optimal" /\ ReportedCost = truth.value
    /\ ans.status = "infeasible" =>
         /\ truth.kind = "infeasible"
         /\ FarkasProvesInfeasible(ans.proof) \/ FarkasProvesInfeasible(Negated(ans.proof))
    /\ ans.status = "unbounded" => truth.kind # "optimal" /\ RayProvesUnbounded(ans.proof)

\* What is reported is a basis of the caller's model: no variable outside the basis is on a
\* bound the model does not have or on a relaxed or artificial one - after a repair, a
\* hand-over, a perturbation or a push, at every exit but the one before the first pivot -
\* and the basis has as many variables as there are rows.  Those reported basic are as many
\* too, but for what misnamed holds: logicals only, and never while the factors are exact.
OnTrueBounds(k) ==
  at[k] \in Parkings(TrueLo(k), TrueUp(k)) /\ val[k] = ParkValue(at[k], TrueLo(k), TrueUp(k))

ReportedBasic == Basis \ misnamed

ReportIsOfTheModel ==
  pc = "done" /\ ans.status \in LimitExits \cup {"optimal", "unbounded"} /\ Boxed = {} =>
    /\ \A k \in Nonbasic : OnTrueBounds(k)
    /\ Cardinality(Basis) = Cardinality(Rows(lp))
    /\ Basis \ ReportedBasic \subseteq Rows(lp)
    /\ ~drift => ReportedBasic = Basis

\* sankhya.h:328: "The simplex engines report one per column and per row, with exactly as
\* many BASIC entries as the model has rows".  At an optimum, that is.
OneBasicPerRow ==
  pc = "done" /\ ans.status = "optimal" => Cardinality(ReportedBasic) = Cardinality(Rows(lp))

\* A push read through faithful factors never leaves the feasible region, and hands the
\* primal loop a vertex: every nonbasic variable at a bound.
PushKeepsThePoint ==
  engine = "push" /\ loop = "push" =>
    /\ ~drift /\ pc = "push" => Worst = 0
    /\ pc = "pushed" => \A k \in Nonbasic : OnTrueBounds(k)

=============================================================================
