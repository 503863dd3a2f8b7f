--------------------------- MODULE SolvePipeline ---------------------------
(***************************************************************************)
(* One call of solve() (src/core/solve.cpp): validate, rewrite the options *)
(* for deterministic mode, choose an engine, presolve, run the engine with *)
(* its polish, crossover or fallback, postsolve, and let the status guards *)
(* have the last word.  The registry's own entry point                     *)
(* (src/solver_engine/solver_engine_dispatch.cpp) is the second way in.    *)
(*                                                                         *)
(* An engine is modelled by what it may hand back: any status its contract *)
(* allows, with any quality of point.  Clocks count whole units; an engine *)
(* given b units stops within b.                                           *)
(***************************************************************************)
EXTENDS Integers, EngineRegistry

CONSTANTS Calls,        \* the calls explored: class, shape, options, machine
          Forever,      \* kNoWallClockLimit, the sentinel of an absent time limit
          LongestPhase  \* bound on what one phase of the call takes

\* What solve() reads of a call, its options and its machine.
CallRecords ==
  [entry : {"solve", "registry"}, class : Classes, valid : BOOLEAN,
   shape : {"small", "pdhgRows", "ipmRows", "ipmNonzeros"}, algorithm : STRING,
   warm : {"none", "fits", "misfit"}, presolve : BOOLEAN, poolComplete : BOOLEAN,
   scaling : {"off", "half", "all"}, crossover : BOOLEAN, iis : BOOLEAN,
   polish : BOOLEAN, polishMax : 0 .. Forever, limit : 0 .. Forever,
   deterministic : BOOLEAN, gpu : BOOLEAN, device : {"absent", "unfit", "fits"}]

ASSUME PipelineAssumption ==
  /\ LongestPhase \in Nat
  /\ Forever \in Nat /\ Forever > LongestPhase
  /\ Calls \subseteq CallRecords

VARIABLES
  call,       \* what solve() was called with, after apply_deterministic_mode
  pc,         \* the stage of the pipeline
  clock,      \* units since solve() started
  engine,     \* the chosen engine
  reduced,    \* is presolve's model the one being solved?
  presolved,  \* the clock when presolve finished, which obeys no limit
  last,       \* the engine that ran last and the time_limit of the options it was run from
  ans,        \* the Solution under construction
  interrupt   \* SolveControl::interrupt_requested_

vars == <<call, pc, clock, engine, reduced, presolved, last, ans, interrupt>>

-----------------------------------------------------------------------------
\* Solutions

LimitStatuses == {"time_limit", "iteration_limit", "node_limit", "interrupted"}
Statuses == LimitStatuses \cup {"not_solved", "optimal", "feasible", "infeasible",
              "unbounded", "numerical_error", "model_error"}

ClaimsAPoint(status) ==
  status \in LimitStatuses \cup {"optimal", "feasible", "unbounded"}

\* point: "nothing" is the worst representable objective over allocated vectors.
\* score: the worst scaled violation, 0 within tolerance.  found is history: did the
\* engine have a point to hand over?
Blank == [status |-> "not_solved", point |-> "numbers", score |-> 0, bad |-> {},
          stoppedBy |-> "none", proof |-> "none", found |-> TRUE]

Measures == {"primal", "integrality", "dual", "complementarity"}

\* LimitReason of a status, when the engine named none.
ReasonOf(status) ==
  CASE status = "time_limit" -> "time"
    [] status = "iteration_limit" -> "iterations"
    [] status = "node_limit" -> "nodes"
    [] status = "interrupted" -> "interrupt"
    [] OTHER -> "none"

-----------------------------------------------------------------------------
\* The clock

Least(a, b) == IF a < b THEN a ELSE b

\* Mutant: zero is what an absent limit leaves.
RemainingUnset(limit, elapsed) == IF limit # Forever /\ limit > elapsed THEN limit - elapsed ELSE 0

Remaining(limit, elapsed) ==
  IF limit = Forever THEN Forever ELSE IF limit > elapsed THEN limit - elapsed ELSE 0

\* with_the_time_that_is_left(options)
TimeLeft == Remaining(call.limit, clock)

\* kPdhgShareOfTheTimeLimit of what the engine was given, when a polish is to follow.
FirstPassShare(budget) ==
  IF call.polish /\ ~call.deterministic /\ budget > 0 /\ budget # Forever
  THEN (budget * 7) \div 10 ELSE budget

Durations(budget) == 0 .. Least(budget, LongestPhase)

ApplyDeterministicMode(c) ==
  IF ~c.deterministic THEN c
  ELSE [c EXCEPT !.limit = Forever, !.polishMax = Forever]

-----------------------------------------------------------------------------
\* What an engine may hand back

EngineStatuses(e) ==
  CASE e = "branch-and-bound" -> Statuses \ {"unbounded", "model_error"}
    [] e \in {"simplex", "dual-simplex"} ->
         Statuses \ {"feasible", "node_limit", "not_solved", "model_error"}
    [] OTHER -> Statuses \ {"node_limit", "model_error", "unbounded", "infeasible"}

\* Engines whose own tolerances do not settle what is measured on the caller's model: the
\* first-order ones, and the simplex on a model that scaling changed.
Inexact == {"pdhg", "pdhg-gpu", "ipm", "simplex", "dual-simplex"}

Points(e, status) ==
  CASE ~ClaimsAPoint(status) -> {[point |-> "numbers", score |-> 0]}
    [] OTHER -> [point : {"numbers", "nan"}, score : {0}]
                  \cup (IF e \in Inexact THEN [point : {"numbers"}, score : 1 .. 2] ELSE {})
                  \cup (IF status \in LimitStatuses THEN [point : {"nothing"}, score : {0}] ELSE {})

Proofs(e, status) ==
  IF ~Capabilities[e].certificates \/ status \notin {"infeasible", "unbounded"} THEN {"none"}
  ELSE {"none", "holds", "fails"} \cup (IF status = "infeasible" THEN {"flipped"} ELSE {})

\* Only a clock that ran out says so, and only the user interrupts.
StatusesNow(e, outOfTime) ==
  EngineStatuses(e) \ ((IF outOfTime THEN {} ELSE {"time_limit"})
                        \cup (IF interrupt THEN {} ELSE {"interrupted"}))

\* A branch and bound on its time limit with an incumbent says kFeasible and names the
\* limit itself.
StopsNamed(e, status, outOfTime) ==
  {"none"} \cup (IF e = "branch-and-bound" /\ outOfTime /\ status \in {"feasible", "time_limit"}
                 THEN {"time"} ELSE {})

EngineAnswer(status, p, proof, stop) ==
  [status |-> status, point |-> p.point, score |-> p.score, bad |-> {},
   stoppedBy |-> stop, proof |-> proof, found |-> p.point # "nothing"]

EngineAnswers(e, outOfTime) ==
  UNION {{EngineAnswer(status, p, proof, stop) :
            p \in Points(e, status), proof \in Proofs(e, status),
            stop \in StopsNamed(e, status, outOfTime)} :
         status \in StatusesNow(e, outOfTime)}

Attempts(e, budget) ==
  UNION {[spent : {d}, answer : EngineAnswers(e, budget # Forever /\ d = budget)] :
         d \in Durations(budget)}

\* scaled_share of the limit, for the scaled half of the portfolio.
ScaledShare(budget) ==
  IF call.scaling = "half" /\ budget # Forever THEN budget \div 2 ELSE budget

\* What ends the portfolio: an optimum that survives unscaling, or an iteration limit.
Settles(a) ==
  \/ a.status = "optimal" /\ a.point = "numbers" /\ a.score = 0
  \/ a.status = "iteration_limit"

\* Which attempt is reported.  The retry's point is judged on its absolute violation, which
\* the score does not decide; so is which of two unusable points came closer.
Kept(scaled, retry) ==
  (IF retry.status \in {"optimal", "feasible"} /\ retry.point = "numbers" THEN {retry} ELSE {})
    \cup (IF (scaled.status = "unbounded") = (retry.status = "unbounded") THEN {scaled, retry}
          ELSE {a \in {scaled, retry} : a.status # "unbounded"})

\* Mutant: the retry starts with the budget the scaled attempt was cut from.
PortfolioAfresh(e, budget) ==
  UNION {IF Settles(first.answer) \/ Remaining(budget, first.spent) = 0 THEN {first}
         ELSE UNION {[spent : {first.spent + retry.spent},
                      answer : Kept(first.answer, retry.answer)] :
                       retry \in Attempts(e, budget)} :
         first \in Attempts(e, ScaledShare(budget))}

\* solve_with_scaling(): the scaled attempt, then an unscaled retry on what it left.
Portfolio(e, budget) ==
  UNION {LET left == Remaining(budget, first.spent)
         IN  IF Settles(first.answer) \/ left = 0 THEN {first}
             ELSE UNION {[spent : {first.spent + retry.spent},
                          answer : Kept(first.answer, retry.answer)] :
                           retry \in Attempts(e, left)} :
         first \in Attempts(e, ScaledShare(budget))}

Outcomes(e, budget) ==
  IF e \in {"simplex", "dual-simplex"} /\ call.scaling # "off"
  THEN Portfolio(e, budget) ELSE Attempts(e, budget)

\* Engine e runs now, from options whose time_limit is `limit`.
Engage(e, limit, outcome) ==
  /\ clock' = clock + outcome.spent
  /\ last' = [engine |-> e, limit |-> limit]

-----------------------------------------------------------------------------
\* The guards, in the order solve() applies them

CheckDual == call.class = "lp"

\* Mutant: the dual test comes first, and its downgrade escapes the other.
ReconcileDualFirst(a, checkDual) ==
  [a EXCEPT !.status =
     IF a.status = "optimal" /\ checkDual /\ a.bad \cap {"dual", "complementarity"} # {}
     THEN "feasible"
     ELSE IF a.status = "optimal" /\ a.bad \cap {"primal", "integrality"} # {}
     THEN "numerical_error" ELSE a.status]

\* reconcile_status_with_measurement: each test sees what the one before left.
Reconcile(a, checkDual) ==
  LET claims == a.status \in {"optimal", "feasible"}
      status == IF claims /\ a.bad \cap {"primal", "integrality"} # {} THEN "numerical_error"
                ELSE IF a.status = "optimal" /\ checkDual
                          /\ a.bad \cap {"dual", "complementarity"} # {} THEN "feasible"
                ELSE a.status
  IN  [a EXCEPT !.status = status]

\* refuse_a_non_finite_answer: a limited search that found nothing keeps its status.
RefuseNonFinite(a) ==
  CASE ~ClaimsAPoint(a.status) \/ a.point \in {"numbers", "cleared"} -> a
    [] a.status \in LimitStatuses /\ a.point = "nothing" -> [a EXCEPT !.point = "cleared"]
    [] OTHER -> [a EXCEPT !.status = "numerical_error", !.point = "cleared"]

RecordWhyItStopped(a) ==
  IF a.stoppedBy = "none" THEN [a EXCEPT !.stoppedBy = ReasonOf(a.status)] ELSE a

\* Mutant: a ray is kept unread.
VerifyFarkasOnly(a) ==
  CASE a.status = "infeasible" /\ a.proof = "flipped" -> [a EXCEPT !.proof = "holds"]
    [] a.status = "infeasible" /\ a.proof = "fails" -> [a EXCEPT !.proof = "none"]
    [] OTHER -> a

\* verify_and_keep_certificate: a Farkas vector may hold only with its sign turned over.
VerifyCertificate(a) ==
  CASE a.status = "infeasible" /\ a.proof = "flipped" -> [a EXCEPT !.proof = "holds"]
    [] a.status \in {"infeasible", "unbounded"} /\ a.proof = "fails" ->
         [a EXCEPT !.proof = "none"]
    [] OTHER -> a

Guarded(a) ==
  LET settled == RecordWhyItStopped(RefuseNonFinite(Reconcile(a, CheckDual)))
  IN  IF call.class = "lp" THEN VerifyCertificate(settled) ELSE settled

-----------------------------------------------------------------------------
\* The stages

Init ==
  /\ call \in {ApplyDeterministicMode(c) : c \in Calls}
  /\ pc = "validate" /\ clock = 0 /\ engine = None /\ reduced = FALSE /\ presolved = 0
  /\ last = [engine |-> None, limit |-> 0] /\ ans = Blank /\ interrupt = FALSE

Finish(answer) == ans' = answer /\ pc' = "done"

Validate ==
  /\ pc = "validate"
  /\ IF call.valid THEN pc' = "select" /\ UNCHANGED ans
     ELSE Finish([Blank EXCEPT !.status = "model_error"])
  /\ UNCHANGED <<call, clock, engine, reduced, presolved, last, interrupt>>

\* The name is checked against the CPU engines that take an LP; the other classes
\* never read it.
Refused ==
  IF call.entry = "registry" THEN Select(call) = None
  ELSE IF call.class = "lp"
  THEN \/ call.algorithm \notin AlgorithmNames \cup {"auto"}
       \/ Select(call) = None
  ELSE Candidates(call.class) = {}

RefuseRequest ==
  /\ pc = "select" /\ Refused
  /\ Finish(Blank)
  /\ UNCHANGED <<call, clock, engine, reduced, presolved, last, interrupt>>

ChooseEngine ==
  /\ pc = "select" /\ ~Refused
  /\ engine' = IF call.class = "lp" THEN Select(call)
               ELSE CHOOSE e \in Candidates(call.class) : TRUE
  /\ pc' = CASE call.entry = "registry" -> "direct"
             [] call.entry = "solve" /\ call.class = "lp" /\ call.warm = "fits"
                  /\ Capabilities[engine'].warmStart -> "warm"
             [] OTHER -> "presolve"
  /\ UNCHANGED <<call, clock, reduced, presolved, last, ans, interrupt>>

\* engine::solve(): the engine's own solve() verifies what it can certify, then the
\* two guards; no presolve, no budget arithmetic, no reason recorded.
DirectSolve ==
  /\ pc = "direct"
  /\ \E outcome \in Outcomes(engine, call.limit), bad \in SUBSET Measures :
       LET checked == IF Capabilities[engine].certificates
                      THEN VerifyCertificate(outcome.answer) ELSE outcome.answer
       IN  /\ Engage(engine, call.limit, outcome)
           /\ Finish(RefuseNonFinite(Reconcile([checked EXCEPT !.bad = bad], CheckDual)))
  /\ UNCHANGED <<call, engine, reduced, presolved, interrupt>>

\* A starting basis names the caller's rows and columns: presolve is bypassed.
WarmSolve ==
  /\ pc = "warm"
  /\ \E outcome \in Outcomes(engine, call.limit) :
       Engage(engine, call.limit, outcome) /\ ans' = outcome.answer
  /\ pc' = "postsolve"
  /\ UNCHANGED <<call, engine, reduced, presolved, interrupt>>

MixedInteger == call.class \in {"milp", "miqp"}

SkipPresolve ==
  /\ pc = "presolve"
  /\ ~call.presolve \/ (MixedInteger /\ call.poolComplete)
  /\ presolved' = clock /\ pc' = "engine"
  /\ UNCHANGED <<call, clock, engine, reduced, last, ans, interrupt>>

\* Presolve's own verdict; the vectors of a mixed-integer answer stay as allocated.
ProvedInfeasible(candidate) ==
  EngineAnswer("infeasible",
               [point |-> IF MixedInteger THEN "nothing" ELSE "numbers", score |-> 0],
               candidate, "none")

Presolve ==
  /\ pc = "presolve"
  /\ call.presolve /\ ~(MixedInteger /\ call.poolComplete)
  /\ \E spent \in 0 .. LongestPhase : clock' = clock + spent
  /\ presolved' = clock' /\ reduced' = TRUE
  /\ \/ pc' = "engine" /\ UNCHANGED ans
     \/ \E candidate \in {"none", "holds", "flipped", "fails"} :
          Finish(VerifyCertificate(ProvedInfeasible(candidate)))
  /\ UNCHANGED <<call, engine, last, interrupt>>

RunEngine ==
  /\ pc = "engine"
  /\ LET pdhg == engine \in {"pdhg", "pdhg-gpu"}
         budget == IF pdhg THEN FirstPassShare(TimeLeft) ELSE TimeLeft
         limit == IF engine = "pdhg-gpu" THEN call.limit ELSE TimeLeft
     IN  /\ \E outcome \in Outcomes(engine, budget) :
              Engage(engine, limit, outcome) /\ ans' = outcome.answer
         /\ pc' = IF pdhg THEN "polish" ELSE IF engine = "ipm" THEN "crossover"
                  ELSE "postsolve"
  /\ UNCHANGED <<call, engine, reduced, presolved, interrupt>>

\* crossover_to_vertex: its options hold the time left, and it takes the clock off again.
PushBudget ==
  IF TimeLeft \in {0, Forever} THEN TimeLeft ELSE Remaining(TimeLeft, clock)

NoTimeForPush == TimeLeft # 0 /\ PushBudget = 0

\* The push arms its deadline before it reads the limit, so nothing stops it; only the
\* primal loop behind it watches the clock.
PushOutcomes ==
  UNION {[spent : {d}, answer : EngineAnswers("simplex", PushBudget # Forever /\ d >= PushBudget)] :
         d \in 0 .. LongestPhase}

Crossover ==
  /\ pc = "crossover" /\ call.crossover /\ ans.status = "optimal"
  /\ IF NoTimeForPush THEN UNCHANGED <<ans, clock, last>>
     ELSE \E outcome \in PushOutcomes :
            /\ Engage("crossover", TimeLeft, outcome)
            /\ ans' = IF outcome.answer.status = "optimal" THEN outcome.answer ELSE ans
  /\ pc' = "postsolve"
  /\ UNCHANGED <<call, engine, reduced, presolved, interrupt>>

Declined == ans.status \in {"numerical_error", "not_solved"}

KeepInterior ==
  /\ pc = "crossover"
  /\ ~(call.crossover /\ ans.status = "optimal")
  /\ ~(call.algorithm = "auto" /\ Declined)
  /\ pc' = "postsolve"
  /\ UNCHANGED <<call, clock, engine, reduced, presolved, last, ans, interrupt>>

\* The selector's interior point declined: the rule table names who takes over, on the
\* shape of the model as given, on the time that is left.
FallBack ==
  /\ pc = "crossover" /\ call.algorithm = "auto" /\ Declined
  /\ LET heir == IF call.shape = "ipmRows" THEN "pdhg" ELSE "dual-simplex"
     IN  /\ \E outcome \in Outcomes(heir, TimeLeft) :
              Engage(heir, TimeLeft, outcome) /\ ans' = outcome.answer
         /\ pc' = IF heir = "pdhg" THEN "polish" ELSE "postsolve"
  /\ UNCHANGED <<call, engine, reduced, presolved, interrupt>>

-----------------------------------------------------------------------------
\* polish_with_the_interior_point

WantsPolish == call.polish /\ ans.status # "optimal" /\ ClaimsAPoint(ans.status)

\* What its ResourceLimits make of the options PDHG was started from.
PolishLimit == last.limit
PolishTime == Remaining(PolishLimit, clock)
BoundByTheClock == ~call.deterministic /\ PolishLimit # Forever

SkipPolish ==
  /\ pc = "polish"
  /\ ~WantsPolish \/ (BoundByTheClock /\ PolishTime = 0)
  /\ pc' = "postsolve"
  /\ UNCHANGED <<call, clock, engine, reduced, presolved, last, ans, interrupt>>

Better(polished, than) ==
  \/ polished.status = "optimal"
  \/ polished.status = "feasible" /\ polished.score < than.score

Polish ==
  /\ pc = "polish"
  /\ WantsPolish /\ ~(BoundByTheClock /\ PolishTime = 0)
  /\ LET budget == IF BoundByTheClock THEN Least(call.polishMax, PolishTime) ELSE call.polishMax
     IN  \E outcome \in Outcomes("ipm", budget) :
           /\ Engage("ipm", PolishLimit, outcome)
           /\ ans' = IF Better(outcome.answer, ans) THEN outcome.answer ELSE ans
  /\ pc' = "postsolve"
  /\ UNCHANGED <<call, engine, reduced, presolved, interrupt>>

-----------------------------------------------------------------------------
\* Postsolve and the guards

\* Every quality is measured on the model the caller handed over: without presolve that is
\* the model the engine scored its point on.
Measurements(a) ==
  {bad \in SUBSET Measures :
     reduced \/ ((bad \cap {"primal", "dual"} # {}) <=> a.score > 0)}

\* A certificate of the reduced model is only a candidate for the caller's.
ProofsLeft(a) == IF reduced /\ a.proof # "none" THEN {a.proof, "fails"} ELSE {a.proof}

WithQuality(a, bad, proof) == [a EXCEPT !.bad = bad, !.proof = proof]

Remeasured(a) ==
  {WithQuality(a, bad, proof) : bad \in Measurements(a), proof \in ProofsLeft(a)}

Postsolve ==
  /\ pc = "postsolve"
  /\ IF reduced THEN \E spent \in 0 .. 1 : clock' = clock + spent ELSE UNCHANGED clock
  /\ ans' \in Remeasured(ans)
  /\ pc' = "guard"
  /\ UNCHANGED <<call, engine, reduced, presolved, last, interrupt>>

Guard ==
  /\ pc = "guard"
  /\ ans' = Guarded(ans)
  /\ pc' = IF call.class = "lp" /\ ans'.status = "infeasible" /\ ans'.proof # "none" /\ call.iis
           THEN "iis" ELSE "done"
  /\ UNCHANGED <<call, clock, engine, reduced, presolved, last, interrupt>>

\* compute_iis() re-solves the candidates on budgets of its own.
ExplainInfeasibility ==
  /\ pc = "iis"
  /\ \E spent \in 0 .. LongestPhase : clock' = clock + spent
  /\ pc' = "done"
  /\ UNCHANGED <<call, engine, reduced, presolved, last, ans, interrupt>>

\* run_engine_guarded(): bad_alloc anywhere under solve_unguarded() is a status.
OutOfMemory ==
  /\ call.entry = "solve"
  /\ pc \in {"presolve", "warm", "engine", "polish", "crossover", "postsolve"}
  /\ Finish([Blank EXCEPT !.status = "numerical_error", !.point = "cleared"])
  /\ UNCHANGED <<call, clock, engine, reduced, presolved, last, interrupt>>

Interrupt ==
  /\ pc # "done" /\ ~interrupt
  /\ interrupt' = TRUE
  /\ UNCHANGED <<call, pc, clock, engine, reduced, presolved, last, ans>>

Next ==
  \/ Validate \/ RefuseRequest \/ ChooseEngine \/ DirectSolve \/ WarmSolve
  \/ SkipPresolve \/ Presolve \/ RunEngine \/ Crossover \/ KeepInterior \/ FallBack
  \/ SkipPolish \/ Polish \/ Postsolve \/ Guard \/ ExplainInfeasibility
  \/ OutOfMemory \/ Interrupt

Spec == Init /\ [][Next]_vars

-----------------------------------------------------------------------------
\* Properties

\* A status that claims something about a point is carried by that point as measured on
\* the caller's model, whatever path the answer took: presolve, polish, crossover,
\* fallback, a warm start, or the registry's own entry point.
HonestStatus ==
  pc = "done" /\ ans.status \in {"optimal", "feasible"} =>
    /\ ans.point = "numbers" /\ ans.found
    /\ ans.bad \cap {"primal", "integrality"} = {}
    /\ ans.status = "optimal" /\ call.class = "lp" =>
         ans.bad \cap {"dual", "complementarity"} = {}

\* A search stopped before it found anything never leaves with values: not the vectors it
\* allocated, and not what postsolve filled in around them.
NothingInvented ==
  pc = "done" /\ ClaimsAPoint(ans.status) => ans.found \/ ans.point = "cleared"

\* An answer that names the clock as what stopped it had a clock to run out, and one
\* stopped by the user was: no retry, polish or guard makes a reason up, or loses it.
StopHasItsReason ==
  pc = "done" /\ call.entry = "solve" =>
    /\ ans.status \in LimitStatuses => ans.stoppedBy = ReasonOf(ans.status)
    /\ ans.stoppedBy = "time" => call.limit # Forever
    /\ ans.stoppedBy = "interrupt" => interrupt

\* The budget is one budget: whatever runs after presolve - the engine, the unscaled retry of
\* its scaled attempt, its polish, the fallback that starts over - never carries the clock
\* past the limit.  The crossover's
\* push is the exception, and it runs last.
WithinLimit ==
  call.limit # Forever => clock <= (IF presolved > call.limit THEN presolved ELSE call.limit)

Pushed == last.engine = "crossover"

ClockKept == pc \in {"polish", "crossover", "postsolve"} => WithinLimit \/ Pushed

\* A certificate handed out with a verdict proves it on the caller's model.
ProofHolds ==
  pc = "done" /\ ans.status \in {"infeasible", "unbounded"} => ans.proof \in {"none", "holds"}

=============================================================================
