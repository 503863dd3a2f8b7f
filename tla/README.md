# SANKHYA in TLA+

SANKHYA is an optimisation solver in C++: linear programs (two simplex engines, an interior
point method, a first-order method), mixed-integer programs (branch and bound, sequential or
with several worker threads), convex quadratic programs, and convex nonlinear models. This
directory holds TLA+ modules that model it, TLC configurations that check them, and proofs
that TLAPS checks. Paths below are relative to the repository's root; `mip/`, `la/`,
`simplex/`, `presolve/` and `nlp/` are directories of `src/`.

The modules follow one call from the C handle down: the handle and its interrupt, the
dispatcher with its guards, presolve and postsolve, the simplex engines and the
factorizations under them, the tree search with cuts, conflicts, pool and checkpoint,
sequential and parallel, the deletion filter behind an infeasible answer, and the expression
graph of nonlinear models.

## 1. Inventory

| Component | State | Operations | Talks to | What is hard, what must hold |
|---|---|---|---|---|
| Parallel tree search (`mip/branch_and_bound_parallel.cpp`, `parallel_search.hpp`) | queue of subtrees, idle/busy/exited counts, stop flag and reason, incumbent, residual bounds | take, push, finish, stop, publish, leave; the driver's wait loop | one `BranchAndBound` per worker; caller's interrupt | threads, one mutex for the queue and one for the state, atomics read without either. No subtree lost, no worker leaves early or sleeps for ever, the answer is true whatever ended the search |
| Branch and bound loop (`mip/branch_and_bound.cpp`, `_internal.hpp`, `_node.cpp`) | tree nodes, open list, working bounds and the undo stack, incumbent, counters | pick, enter, propagate, relax, prune, branch, split, leave, report | node LP, heuristics, conflicts, pool, limits, checkpoint | one mutable model shared by all nodes: every tightening must be undone on every exit. Nothing feasible lost, bounds honest, status justified |
| Checkpoint and resume (`mip/checkpoint.cpp`, `branch_and_bound_checkpoint.cpp`) | the file | save, refuse, restore | the loop | crash between any two steps; the file is always a whole search of its model |
| Solution pool (`mip/solution_pool.cpp`) | ranked list of assignments | offer, evict, cutoff, finish | the loop prunes on its cutoff | eviction and pruning feed each other; a complete pool holds the best assignments |
| Conflict analysis (`mip/conflict.cpp`, `branch_and_bound_conflicts.cpp`) | store of learned conflicts | verify, minimise, add, evict, propagate | propagation and the undo stack | what is learned at one node acts on all later ones: each conflict must follow from the root |
| Cutting planes (`mip/*cuts*`) | cut rows in the working model, their ages, the pool | separate, filter, add, roll back, age out | node LP, stored bases | a row added below the root must hold everywhere; every stored basis must fit the rows |
| Primal heuristics (`mip/heuristics.*`, `branch_and_bound_heuristics.cpp`) | budgets and counts | round, repair, dive, pump, RINS | offer points; the dive moves bounds | only the check of `offer_incumbent` may admit a point |
| Resource limits, stop controller (`src/core/resource_limits.*`, `stop_controller.hpp`, `solve_control.hpp`) | limits, the interrupt flag, callback window | exhausted, should_stop, interrupt | every loop, any thread | which reason wins when several hold; an interrupt is for one solve |
| Solve dispatcher, status guard (`src/core/solve.cpp`, `status_guard.hpp`) | the model as transformed, remaining time | presolve, route, fall back, polish, cross over, guard | every engine | fallbacks and retries on the time left, downgrading on every path |
| Model, certificate, IIS (`src/core/`) | the model | edit, validate, certify, filter rows | dispatcher | the deletion filter keeps infeasibility although any of its solves may be cut short |
| Engine registry (`src/solver_engine/`) | registered engines | register, select | dispatcher | selection is total and respects capabilities |
| Presolve/postsolve (`presolve/`) | reduction stack | reduce, replay, price | dispatcher | a replay in reverse restores the point, the prices and a whole basis |
| Simplex (`simplex/`) | basis, factors, phases, perturbation | price, ratio test, pivot, refactorise, repair, push | factorisation, limits | no verdict from stale factors, perturbation removed before an answer |
| Sparse linear algebra (`la/`) | LU and LDL factors, eta files, orderings | factorise, update, repair, order, solve | simplex, interior point, convexity test | factors edited in place, patterns reused for other values, a budget mistaken for a proof |
| Interior point, QP (`ipm/`, `qp/`), PDHG (`pdhg/`) | iterates, best iterate | iterate, restart, exit | limits | floating-point convergence |
| GPU (`gpu/`) | device memory | kernels | PDHG | compiled behind an option |
| Nonlinear (`nlp/`) | expression graph | build, evaluate, differentiate, classify | dispatcher | folding must not change what an expression means; curvature must be true on the whole box |
| Readers and writers (`io/`) | parser sections | read MPS/LP, write solutions | model | bound defaults and their order |
| Options, logging, profiler (`util/`), diagnosis | — | — | all | no state a property is about |
| C API (`src/api/`) | the handle: model, pending entries, callback, active control | edit, read, solve, interrupt | dispatcher, another thread | edits beside the built model; an interrupt racing the end of a solve |
| CLI, Python, tools | arguments | — | C API | — |

`PROJECT.json` lists every component with its files and the hazards found in it, each at the
line where it bites, with the properties that would catch it going wrong.

## 2. Modules

```
EngineRegistry  ModelHandle           LinearModel                    DeletionFilter
       |           |                  |    |    |                          |
SolvePipeline      |          Presolve    Cuts  Simplex                    |
       |           |              |        |       |                       |
       |           |          Postsolve  CutRows   |                       |
       |           |              |        |       |                       |
SolvePipeline_proofs   Postsolve_proofs  CutRows_proofs  Simplex_proofs ---+

Domains   SolutionPool       BranchRules
      \   /                       |                               Rationals
    TreeSearch             ParallelSearch     WorkSharing           |     |
        |                          |          /    |        SparseLdl  ExpressionGraph
TreeSearch_proofs          ParallelProtocol -      |
                                   |      WorkSharing_proofs      SparseLu
                           ParallelProtocol_proofs                    |
                                                               SparseLu_proofs
```
A line is EXTENDS, except that `ParallelProtocol` extends `ParallelSearch` and instantiates
`WorkSharing`, and `ParallelProtocol_proofs` extends `ParallelProtocol` and instantiates
`WorkSharing_proofs` in the same way. A proof module below two specifications extends both:
`SolvePipeline_proofs` has the theorems of the handle too, `Simplex_proofs` those of the
deletion filter. An `MC` module gives the instances of a specification a run checks;
`MCSimplex` joins `Simplex` and `DeletionFilter`, `MCNumerics` joins `SparseLu`, `SparseLdl`
and `ExpressionGraph`, and `MCSolvePipeline` joins `SolvePipeline` and `ModelHandle`. Their
variables are disjoint: one part is explored while the others rest.

Modules meet at contracts: `SolvePipeline` knows an engine by what it may answer, which
`Simplex`, `TreeSearch` and `ParallelSearch` show of theirs in detail; `TreeSearch` knows the
node LP as a cheapest point; `Simplex` knows a factorization as a right or, while it is
updated in place, possibly wrong reading, which `SparseLu` opens up; `ModelHandle` knows a
solve as a loop of polls.

### ModelHandle (a handle of the C API)
`model`, `entries`, `quadratic` are the built model and the pending coefficients;
`AddColumn`, `AddRow`, `SetCoefficient`, `SetQuadraticCoefficient`, `Read`, `SetCallback` are
the calls. A solve is `SolveBegin` (with `materialise()`), `LockToRegister`, `Register`, then
`Poll` until the engine concludes or sees the stop, then `LockToClear`, `Clear`: the steps
between which another thread's `sankhya_model_interrupt` (`OtherBegins`, `OtherCopies`,
`OtherRaises`) can fall. The flag belongs to the control that was copied under the mutex.

### SolvePipeline and EngineRegistry (one call of `solve()`)
| Action | Code |
|---|---|
| `Validate`, `RefuseRequest`, `ChooseEngine` | validation, deterministic mode, `select_engine()` with the GPU upgrade |
| `DirectSolve`, `WarmSolve` | integer and quadratic models, a warm start that fits |
| `SkipPresolve`, `Presolve` | presolve, which obeys no limit, and its own verdicts |
| `RunEngine`, `FallBack` | the engine with the scaled and the unscaled attempt; another engine on what is left |
| `Crossover`, `KeepInterior`, `SkipPolish`, `Polish` | what follows an interior or a first-order answer |
| `Postsolve`, `Guard` | the caller's model measured again; the tests of the status guard in their order; both certificates verified |
| `ExplainInfeasibility` | the call of the deletion filter |
| `OutOfMemory`, `Interrupt` | at any step |

`EngineAnswers` is an engine's contract: any status it may give, over a point that is good,
bad in any set of measures, not finite or absent, with or without a certificate that may be
wrong. The clock counts units; every engine given `b` units stops within `b`.

### LinearModel, Presolve and Postsolve
`LinearModel` is the model in exact arithmetic: values, bounds and costs count `1/Unit`.
`Presolve` visits columns and then rows, the first reduction that fits at each visit, until a
pass changes nothing: integer bounds rounded, fixed columns and columns without rows
(`FixColumn`, `DropEmptyColumn`), free column singletons (`EliminateFreeColumn`), rows that
cannot bind (`DropRow`), singleton rows (`TurnIntoBound`), equations of two columns with their
fill-in (`SubstituteDoubleton`), and an infeasibility seen at any of them. `Postsolve` lets any
engine answer (`SolveReduced`: every optimal point, price and basis of what is left), then
replays the records in reverse for the values (`Scatter`, `ReplayValue`), then prices removed
rows in passes (`PriceSingletonRow`, `PriceFoldedRow`, `SkipRecord`, `NextStage`,
`EndDualPass`), then recomputes the reduced costs of folded columns (`RecomputeCosts`).

### Simplex
The primal loop (phases, perturbed bounds, restore, `Recheck` before a verdict), the dual loop
(tilted costs, artificial boxes, flips, hand-over to the primal) and the crossover's push, on
one basis with its repair, which may bring in the very logical that is about to enter: it is
basic then and stays in hand. `misnamed` holds the basic variables whose status names a bound,
which is what a flip of such a logical leaves behind. Every basis of the instances is unimodular,
so `B^-1` is an integer table. `drift` says whether a reading through updated factors may be wrong; it is what the
code's refactorise-and-look-again steps are for, and each verdict is taken with what the code
has refreshed by then. Pricing rules, ties and iteration counts are choices.

### DeletionFilter (`compute_iis()`)
An element (a row, a lower or an upper bound) is the set of points it allows; the certificate
is a set of elements that allow nothing together. `Trial` frees a candidate and solves the
rest with any verdict a limit can leave, `Certify` proves what remains, `Report` drops the
claim when anything was inconclusive. The solver under it is `SolvePipeline`'s: a verdict of
infeasible or feasible is true, a limit says nothing.

### SparseLu, SparseLdl (the factorizations)
`SparseLu`: `Factorize`, `EliminatePivot` over every admissible pivot with the row and column
counts and the patterns that may name cancelled entries, `StoppedEarly` (the search budget),
`Singular` and `RepairBasis`, `Factored`, `Update` by the product form or by Forrest-Tomlin,
`UpdateRefused`, `UseForrestTomlin` between the two. FTRAN and BTRAN are operators, in the
hyper-sparse and in the reference form. Numbers are elements of a finite field: an identity
the code relies on holds in any field, and a wrong order or a stale permutation shows without
a tolerance. `SparseLdl`: `OrderNext` is a step of the minimum-degree ordering with
absorption, mass elimination and its storage count, `OrderingTooLarge` its budget, `Analyze`
the tree and the pattern, `FactorRow` the up-looking row, `RowsDone`, `LdlStopped`,
and `Refactorize` the next interior-point iteration on the same analysis. `DenseVerdict` is the
dense convexity test beside the sparse one.

### ExpressionGraph (nonlinear models)
A call of a builder is an action (`AskNumber`, `AskColumn`, `AskOne`, `AskTwo`, `AskPower`,
`AskNobody` with a node, a column or an exponent that is none); folding, flattening and
interning run inside it. Evaluation, the gradient and Hessian sweeps, ranges, curvature,
degree, domain risks, class and convexity are operators on the tape. `Rationals` is their
arithmetic; an irrational value has two rational neighbours and is otherwise not looked at.

### Cuts and CutRows
`Cuts` has every separator as an operator that returns all cuts its code may return at a
point: lifted covers, MIR with aggregation, cliques, zero-half, Gomory mixed-integer from any
basis; and the tightening of integral rows and the objective step. `CutRows` is what the
search does with them: `Round` and `NoRound` at the root and at shallow nodes, `Resolved`,
`RollBack` when the node LP does not survive, `Age` (a row made free in place), `Branch`,
`Pick`, with the bases stored for open nodes.

### WorkSharing (what the worker pool promises)
The queue protocol of `SharedSearch`, with a subtree reduced to the number of its open nodes.
State: `queue_`, `idle_`, `busy_`, `exited_`, the sleepers of `queue_changed_`, `stop_`,
`reason_`, `failed_`, `nodes_`; per worker a program counter, its open count and what it has
not reported; the driver's program counter. An action is one critical section or one atomic
access: `take()` is `TakeEnter`, `TakeSleep`, `TakeSubtree`, `TakeOver`; `stop()` is three
steps (reason, flag, wake), for a worker and for the driver; giving nodes away is the unlocked
read (`SyncShare`, `DonateCount`) followed by one push at a time. The condition variable's
notify makes sleepers runnable, and a sleeper tests its predicate again.

### BranchRules and ParallelSearch
`ParallelSearch` is the same protocol with the search in it. A node is the set of assignments
its chain of changes leaves plus the bound it inherits; the relaxation is known by its
contract only (`RelaxationBounds`: a bound below every feasible assignment inside, `NodeClosed`
only when none is inside). Each worker has its own open list and incumbent and adopts the
shared one at the sync point; `LeftOpen` and `Report` are the driver's answer. The rules for
pruning, gap tests and improvement, which both searches have in common in the code, are in
`BranchRules`, with the assumptions on rounding and gap targets that the code's formulas
satisfy. `ParallelProtocol` maps it to `WorkSharing`.

### Domains, SolutionPool and TreeSearch
`TreeSearch` is the sequential `BranchAndBound::run()`. Here nodes are chains of bound
changes as in the code, and `Domains` holds the one working box with `saved_`: `Enter`,
`Leave`, `Tighten`, `Undo`, conflict propagation, and the split of an integral node.
`SolutionPool` is the pool's operations on a sequence. The actions follow `run()` in order:

| Action | Code |
|---|---|
| `HeadClosed`, `HeadCheckpoint`, `HeadOn`, `SaveCommit`, `SaveFails` | the head of the loop and the periodic checkpoint |
| `LimitReached`, `LimitsClear`, `Stopped`, `GapReached` | `limits_.exhausted()`, `should_stop()`, the gap test, in that order |
| `PickNode` | `take_next_open_node`, `can_prune`, `enter` |
| `PropagateFires`, `PropagateInfeasible`, `PropagateDone` | `propagate()` with its three outcomes |
| `Learn` | `analyze_conflict()` |
| `NodeInfeasible`, `NodeSolved`, `NodeStopped`, `NodeFailed` | the node LP's statuses |
| `NodeHeuristics`, `NodeIntegral`, `NodeFractional`, `DiveStep`, `DiveFinds`, `RootPump`, `Branch` | heuristics, integral node and its split, root dive, pump, strong branching, children |
| `AfterLoop`, `Report` | the last checkpoint, the final bound and the status |
| `Crash`, `Resume` | the process is killed at any step; a new one is started with the file, any options and any model |
| `Tick`, `Interrupt` | the clock and the caller, at any step |

A problem is a finite set of relaxation points on a half grid with costs: odd coordinates are
fractional. The node LP returns a cheapest one inside the working bounds, whichever it likes.
Two integral points at one position differ in their continuous columns, which is what makes
the pool meet the same assignment twice.

### Abstractions
* Arithmetic is exact: tolerances are zero, and what rounding can do is either outside the
  models or a choice (`drift`, the refused update, the bad point an engine may hand over). The
  rounding of bounds to the objective step (`round_up_to_step`) is modelled.
* Propagation through rows is either nothing or the hull of what the rows allow, and may
  prove a node empty only when it is; the code's sweeps fall in between.
* The proof of a conflict by the rows is exact for the same reason; the Farkas test is one
  more way to pass the same check. The store forgets any one conflict when full.
* Heuristics may offer any feasible point, one per visit to a node. An infeasible proposal
  changes nothing in the code and is not an action.
* `TreeSearch` leaves cut rounds, pseudocosts and warm starts out: cut rows are `CutRows`', the
  others choose among the modelled behaviours. `best-estimate` may therefore pick any open node.
* Strong branching probes one arbitrary fractional column and then undoes it.
* The checkpoint is written atomically by its rename; JSON and checksum are not modelled. The
  model's fingerprint is the model.
* In the parallel search which of the open nodes is taken or given away is left open, except
  for the smallest bound where the code takes it. Pseudocosts and the shared pool are left out.
* Cuts are not ranked by efficacy, and the margins added to their right-hand sides against
  rounding are absent: a cut of the model is the sharpest the code could mean.
* Messages, notes, counters and statistics are left out everywhere.

## 3. Runs

| Run | Instance | Shows |
|---|---|---|
| `worksharing_safe` | 3 workers, all events, node limit 4, 4 tree nodes | nobody leaves while another may give nodes away, and nobody sleeps through a change: whenever a sleeper's condition holds it has been notified or the notifier exists |
| `parallel_safe` | 2 workers, 3 points, relative gap 40 %, no node limit; interrupt, iterations, failure, exception | subtrees given away, gap tests against stale incumbents, racing publications and early leaves lose nothing and search nothing twice; the answer is true and an optimum has its proof |
| `parallel_live` | 2 workers, node limit 3, time and exceptions | the search implements `WorkSharing` with its fairness, and always answers |
| `tree_safe` | 4 models, 4 option sets, every event but crashes | domains restored, conflicts true, nothing lost, a complete pool holds the best |
| `tree_crash` | 3 models, 2 option sets, 2 starts, crash, disk failure, time, iterations | the file is always a whole search; a resumed search ends and is right |
| `cut_rows` | knapsacks, conflict triangles, mixed rows: three columns, up to three rows | every row of the working model holds everywhere, every stored basis fits, the objective step is a step |
| `pipeline` | 57 calls over every class, engine, shape and option the pipeline reads; limits 0, 2, 3 and none | what leaves is measured, explained, in time and proved |
| `pipeline`, the handle | 1 row, 2 columns, 4 edits, 2 solves, one interrupting thread | an interrupt ends the solve it was for and no other; the model built is the calls' own |
| `handle_read` | the handle alone, 3 edits and a solve, a file read in between | **violated**: the first finding of section 5 |
| `presolve` | 3 by 3 models around interacting reductions, any optimal basis of what is left | point, objective, prices and basis come back as the caller's |
| `simplex` | 5 models (solvable, infeasible, unbounded, degenerate, two parallel columns) from every basis, singular ones included; infeasible systems of four elements for the filter | verdicts settled on fresh factors are true, reports are of the caller's model, a push keeps the point; the reported subsystem is infeasible and irreducible where it claims so |
| `simplex_basis` | the same | **violated**: the second finding of section 5 |
| `numerics` | bases of order 3 over three elements; symmetric matrices of order 5; one call on graphs of each operation | the solves are of the matrix the caller holds, counts and repair exact, convexity verdicts and derivatives true |

Deadlock is checked where a finished system is modelled as one that may only stutter
(`worksharing_safe`, `parallel_*`, `tree_*`: `Done`, `Over`). In the other runs a call ends:
its last state has no successor, and their configurations switch the deadlock check off.

Why the bounds are enough to meet the interesting cases:
* Two workers suffice for every race between a donor and a taker, a publisher and an adopter,
  a stopper and a sleeper; the third in `worksharing_safe` adds two sleepers with one waker
  and a taker between two others. `Keep` is the code's two (one in the smaller searches) and
  `MinOpen` is two or three where the code has eight, so that small trees give nodes away; the
  modules assume only that `Keep` is the smaller.
* Three points make trees with subtrees in the queue and residuals left behind. Feasible
  points are chosen so that a whole branch is infeasible and bounds tie; the gap target is
  wide enough for some subtrees to stop on it and narrow enough for others not to.
* The tree models have a 3 by 2 box: a knapsack with a fractional optimum, a mixed model with
  two costs at one assignment, one without any integral point, and one (not in `tree_crash`) whose
  dearer side is searched first. The objective is zero at a cost of 10, so `pool_gap` 2 gives
  limits that tighten above it and loosen below. Chains grow to several
  changes, some on the same column twice, and a pool of two evicts. The store holds one
  conflict, so learning evicts too. A search is started twice: the file of a resumed search is
  a file again, and every crash point of either run occurs.
* In `cut_rows` the models are those where each family finds a violated cut, an age limit of
  one frees rows, two cut rows fill the model, and one node below the root is the first that
  inherits, separates and rolls back.
* In `pipeline` a phase takes up to three units against limits of 0, 2 and 3, so every phase
  can be the one that meets the limit exactly, one too late or not at all; `Forever` is the
  code's sentinel. The calls vary the options each path reads, one path at a time.
* Of the handle, in `pipeline`, the second solve is the one a late interrupt could hit; four edits add a
  row and a column, fill an entry and overwrite or clear it.
* The `presolve` models let one reduction feed another: fill-in reaches a row that a fixed
  column left, a singleton row meets a bound, an equation's column is integer and its partner
  is not. Every optimal basis is handed back, so degenerate ones occur.
* In `simplex` two rows give singular starting bases and one pivot too few to hide a stale
  factor; the parallel columns make a basis that only an inaccurate pivot reaches and only a
  logical repairs; the perturbation (1), the box (1000) and the marginal factor (3) keep the order of
  the code's constants in units of 1/8. The four systems of the filter's elements over three
  spots contain every overlap of two minimal subsystems.
* In `numerics` order three is the smallest where a second elimination step meets both fill-in
  and a cancelled entry, and where two replaced columns interact under Forrest-Tomlin; order
  five is the smallest where the minimum-degree ordering absorbs an element and eliminates a
  mass. In a field of three elements every nonzero one is its own inverse, so a product in place
  of a quotient by a pivot would go unseen. Each budget is run once exceeded and once not. The scripts hold one node of each
  operation, the call adds one of any, so every pair of operations meets.
* A negative node limit is none, as in the code. Counters need no other bound: trees and calls
  are finite.

Every property of a passing run has a mutant in `PROJECT.json`: a definition changed the way a
plausible bug would change the code, under which TLC finds the property violated.

### Fairness
`ParallelSearch` and `WorkSharing` assume weak fairness of each worker and of the driver's
own steps: threads are scheduled, locks are granted, node LPs end (they have iteration limits
and poll the clock). Neither the clock nor the caller's interrupt is promised. In
`TreeSearch` there is one thread: the search steps while it runs (`Fairness` writes weak
fairness of `Search` out, `Search` being enabled whenever the search runs, which the deadlock
check confirms); nothing is assumed of crashes, resumes, the clock, the caller or the disk.
`ModelHandle` assumes weak fairness of the polls (an engine asks its controller between two
units of work), of the lock sections around a solve and of an interrupt already begun; no
engine is promised to conclude by itself, and nobody is promised to interrupt.

## 4. Proofs

`WorkSharing_proofs`, for any number of workers and any limits: `CountersAreTrue` (`idle_`,
`busy_` and `exited_` are the numbers of threads they are named for), `NobodyLeavesEarly` and
`NoWakeUpIsLost`. They are one inductive invariant with the places a thread can be at: the
counts decide who leaves, and who leaves keeps the counts. Assumed: finitely many workers.

`ParallelProtocol_proofs` has two parts. The first is the search itself, for any finite set of
workers, any problem, any tree, any limits and events: `TypeCorrect`, and

* `SearchLosesNothing`: no feasible assignment is lost (`NothingLost`);
* `AnswerIsSound`: what the driver reports is true (`SoundAnswer`);
* `OptimalHasProof`: an optimum is reported with a bound within the gap (`OptimalIsProved`);
* `IncumbentImproves`: the shared incumbent only gets better (`IncumbentNeverWorsens`, which no
  run lists: a publication that breaks it loses assignments too, and `NothingLost` shows that).

They rest on the named assumptions of `BranchRules` and `ParallelSearch`: finitely many points
and workers; a bound rounded to the step is not below the bound, is monotone and never passes
a feasible objective; the gap accepted at an incumbent is at least the absolute target, and
`v - gap(v)` does not decrease with `v`, which holds because the options keep the relative
target within [0, 1].

The argument. The answer is stated after all workers exited, so it must follow from what is
left in the shared state. `NothingLost` is not inductive alone. A node may be closed only if
its bound is honest (`BoundInv`), and pruned against a worker's own, older incumbent only if
the shared one is as good (`PointInv`). A worker may drop its program state only when its
list is empty or somebody failed (`ControlInv`). When the driver reports without a stop, the
queue is empty and no list is held, because an exit without a stop means that nobody is busy
(`CountInv`, counts as cardinalities of sets of threads); then every assignment is above the
incumbent or the residual. For `OptimalIsProved`, a subtree left on its gap test has a bound
within the gap of the incumbent it knew; the monotonicity of `v - gap(v)` carries this over to
every later incumbent (`GapInv`), unless a limit is known or about to be recorded. `IInv` is
the conjunction; `StepIInv` takes each conjunct through the workers' and the driver's actions.

The second part, for the same: the search implements the protocol.

* `SearchKeepsTheProtocol`: `Spec => Protocol!Spec`, where `Protocol` is `WorkSharing` with a
  worker's open list mapped to its length, `adopt` to `share` and `heur` to `lp`. Each step of
  a worker or of the driver is the protocol's step of the same name, except that adopting an
  incumbent, a solved relaxation and a heuristic change nothing the protocol speaks of.
* `NothingIsSearchedTwice`: no two nodes anybody may still enter cover a common assignment, and
  none is held in two places (`NoNodeTwice`).
* `SearchCountsItsWorkers`, `SearchKeepsItsWorkers`, `SearchWakesItsWorkers`: what
  `WorkSharing_proofs` shows of the protocol holds of the search itself.

The protocol counts nodes where the search keeps sets of them, so the mapping is right only if a
push adds a node the queue does not hold and a take removes one; that is `NoNodeTwice`. And the
protocol bounds the nodes of the tree by a constant, where the search has only the fact that a
branching splits what a node covers. `BudgetInv` joins the two: a node that covers `k`
assignments has at most `2k - 1` nodes below it, itself included, so what has been explored, what
is reported late and what the live nodes may still bring never exceed the root's. Both parts are
checked by TLC first. The protocol's fairness is not in the theorem: `ImplementsProtocol`, with
it, stays a property of `parallel_live`.

`TreeSearch_proofs`, for any finite set of columns, any models and options, any gaps, pool,
conflict store, number of starts and any crashes:

* `BoxIsRestored` (`DomainsRestored`): wherever a node is left, the root's bounds are back;
* `SearchLosesNothing` (`NothingLost`): every feasible assignment is in an open node or no better
  than the incumbent, to within the absolute gap;
* `ConflictsAreTrue` (`ConflictsHold`): no feasible assignment meets a learned conflict;
* `FileIsWhole` (`CheckpointWhole`): the file is always a whole search of its model;
* `AnswerIsSound` (`SoundAnswer`): status, bound and point are true of the model;
* `PoolHoldsTheBest` (`PoolIsBest`): a complete pool of one uninterrupted search leaves out no
  assignment inside `pool_gap` - of the answer and of every worse solution - for a worse one, or
  while there is room.

The first five are one inductive invariant, `IInv`; TLC was run on it first, on both runs'
instances. `DomainInv` says not that the box is the root's but that `leave()` would make it so,
which every push keeps. `BoxInv` says that propagation, by rows and by conflicts, leaves every
assignment of the node in the box; it needs `NoConflictMet` (what was learned is true at the root),
and `NoConflictMet` needs the check each conflict passed, made with the conflicts before it.
`BoundInv` (an inherited bound is one) and `PointInv` (the relaxation's point is a cheapest one of
the whole node, not only of the propagated box) are what pruning and closing rest on; `PoolInv` (no
member is better than the incumbent) because a full, complete pool prunes on its worst member.
`KeptInv` counts the node being worked on beside the open ones, and only while the search lives: a
crash forgets the open nodes and keeps the file, which `DiskInv` describes and a resumed search
starts from. `ControlInv` ties the answer to the reason the loop ended for. `CheckpointWhole` and
`SoundAnswer` are conjuncts themselves.

`PoolIsBest` has an invariant of its own above `IInv`, `RankInv`, which TLC was run on in the same
way. While the pool is being filled by a first search that wants all of the best, the pool is
`Ordered` (best first, one entry per assignment) and within its size, and every feasible assignment
is `Placed`: in a node ahead, listed in the pool with an objective no worse, or `Beyond`. What is
beyond is within the margin of the worst member of a full pool, or outside the gap of some solution
no better than the incumbent. A node is pruned against the incumbent it meets, and the limit of a
later one may be looser; but the earlier incumbent is a solution no better than any later one, so
what was beyond stays beyond, and nothing need be assumed of the gap. An offer may evict, but only
when the pool is full and only its last member, so what goes is no better than the new cutoff; the
cutoff of a full pool never rises (`OfferRanks`, `CutoffFalls`). An integral relaxation closes the node for its assignment, which takes its place in
the pool with the node's best objective, and `PiecesCover` puts every other assignment of the node
into a piece; a node with no free column holds no other. At the end nothing is ahead, and
`FinishRanks` says of `finish()`'s loop, as a run over the ordered members, that what it leaves out
is too far from the incumbent or no better than the last member of a full answer. `gapMet` is
excluded by `opt.complete`, and a resumed search is no first one.

Assumed (`TreeAssumption`, evaluated by TLC): no point is outside the root's box; an integral point
costs a multiple of the objective step (which is what a step is; that the code finds a right one is
`StepIsRight` below); infinity exceeds every cost by more than the rounding and the margin
add, as `kInfinity` does; and what the gap targets and `pool_gap` accept is at least nothing.

The first part of the module is what they use of the working box, for any columns and chains:
`leave()` undoes `enter()`, propagation, fixings and probes in any order; propagation keeps what
meets the decisions and the conflicts; and `PiecesCover`, that the pieces of a node split at an
integral point leave out that point only. These operators are folds over sequences. The library's
induction theorems cannot be used here, since they take an operator as a parameter; induction is
instead by the least counterexample (`Climb`, from the well-foundedness of the naturals), over
sets. A fold is defined by a CHOOSE of a recursive function; `FoldExists` shows that there is one,
and one lemma for each fold (`WriteBackRun`, `TightenAllRun`, `VisitRun`, `SplitRun`) says that
its value is reached by a run of its steps.

`SolvePipeline_proofs`, for every set of calls, any limit and durations, and any engine that
keeps the contract of `EngineAnswers`: `StatusIsHonest`, `NothingIsInvented` (a search that
found nothing never leaves with values), `StopsHaveTheirReasons`, `ProofsHold`,
`TheClockIsKept`. The invariant says what an answer under construction may be at each stage
(`Sane`: its point is there or not and known to be, only an infeasible verdict may have its
sign flipped, only the user interrupts; `Clocked`: the clock stops nothing that has none;
`Routed`: the engine is one the class may have), and what the guards make of it at the end.
`ClockInv` bounds the clock at each stage by what the options of the last engine were cut to;
the push of a crossover is exempt, as in the code.

Of the handle, in the same module, for any number of edits, reads and solves:
`InterruptsHitTheirSolve` (a flag is up only for a control that was copied while its solve was
active or whose own callback said stop, and a copy once made names that solve for ever), and
`SolvesRunOnTheCalls` (`BuiltAsCalled`: in a handle no file was read into, a solve runs on the
model the calls describe). The second needs that, while the matrix is to be built, the pending
coefficients and products are the last ones written and none of them is a zero (`BuilderInv`).

`Simplex_proofs`, for any models, starting bases, readings and choices, and any size of the
perturbation: `ReportsTheModel` (`ReportIsOfTheModel`: a nonbasic variable is reported at a bound
the model has, at that bound's value; the basis has one variable for each row; and what is basic but
not reported so is a logical, and only where readings drift) and `PushEndsAtAVertex` (what a push hands on has no
superbasic left). The report is made by `Finish` from whatever the loops left behind, so the
invariant follows every nonbasic variable. `ParkInv`: it is `Parked`, on a bound of the model or on
the relaxed bound beside it, except those the dual loop put on an artificial box (`Boxed`) and
those a push has yet to move (`Loose`). A repair, a flip or a hand-over between the loops
moves variables between these classes, `ControlInv` says which classes a step of the program may
find populated. `PickInv` says of the entering variable, when its ratio test comes, that it is
`Chosen`, a nonbasic one that can move, or `MadeBasic`, a logical that a repair in between has put
into the basis; when it stops a step, it is itself what stops it (`StoppedByItself`), so that the pivot takes it
out and in, and a flip makes it `misnamed`. `BasisInv` counts the basis through pivots and repairs
(`BasisExchanged`, `BasisKept`) and keeps `misnamed` to basic logicals of a drifting primal loop,
since the accuracy check refactorises only where a reading is off (`ControlInv`).
`TodoInv` keeps fixed variables out of the push's work list. Assumed: a model has finitely
many columns and rows, its bounds are in order or infinite, and the perturbation stays below
infinity.

In the same module, `ReportIsIrreducible` for the deletion filter, for any model and any verdicts.
What is left shrinks and stays infeasible; the witness of an element tried and kept satisfies the
rest, and goes on satisfying it because fewer elements allow more; a doubt drops all witnesses.

`CutRows_proofs`, for any models, separators, rows per round, age limit and number of nodes:

* `StoredBasesFit` (`BasesFit`): every open node's basis has a status for each row there is and as
  many basic variables as rows, and the pool is aligned with the last rows;
* `RoundsUseGlobalBounds`: the bounds a round separates under hold at every feasible point,
  however far propagation has tightened the working box.

A round extends the stored bases although it may be undone. What makes `RollBack` right is
`BeforeInv`: until the relaxation is resolved, the rows of the round are basic in every stored
basis, so dropping them drops as many basic variables as rows. Ageing frees a row in place and
changes no length, which is why it needs no such care. The counts are cardinalities of sets of
positions of a sequence that a round appends to (`BasicRows`, with lemmas for appending and
cutting off).

The third theorem is that the cuts are right: `CutsAreGlobal` (`RowsAreGlobal`), for every model with
matching dimensions (`WellFormed`, what `Model::validate` tests), every point the node LP may
return, every basis it is the vertex of and any constants. `RowsInv` says that the rows hold at
every feasible point, and that the root's bounds do too; a rollback goes back to a prefix of the
rows (`BeforeInv`), ageing only frees. Each family has its lemma, over any finite set of columns:

* `TightenedHolds`: over whole columns an activity is a multiple of the unit, so sides may be
  rounded to one;
* `CoverHolds`: the coefficients lifting computes keep `Capped`, that no columns that fit
  together are worth more than the cover allows, whatever was lifted before;
* `MirCutsHold`: an aggregate of rows is implied by them (`AggregatesHold`), and the rounding
  splits every term into a part that is whole and one that is given away (`MirSplit`);
* `CliqueHolds` and `ZeroHalfHolds`: conflicts exclude two ones, and half of a sum of whole
  rows may be rounded down once its columns are measured from a bound;
* `GomoryHolds`: the row of the tableau, whatever multipliers it comes from, is an equation
  between the moves of the nonbasic columns and rows (`TableauRow`); each move takes what
  `GomoryPi` charges for it (`GomorySplit`).

`StepIsRight` (`StepIsExact`) is about the step `detect_objective_integrality` finds. By the direct
rule every term of the objective is a multiple of the step. By the defining-rows rule, a costed
column that is not whole could follow the objective by one more grid step: no bound stops it,
since the finite ones are whole, and no row, since where its side is finite all its terms but the
column's are multiples of the column's coefficient (`SideLeavesRoom`). So the best point of an
assignment has it whole. Assumed (`StepAssumption`, evaluated by TLC): no activity of the
enumerated values reaches infinity, as none reaches `kInfinity`, and their range ends at whole
numbers.

Sums over columns are folds defined by a CHOOSE of a recursive function; `SumTake` recovers
their recursion, and `TotalLinear`, `TotalLe`, `TotalSwap` and the lemmas beside them are what
the families use. The instances only ever find the cuts of small rows; the proof has no bound
on their size.

`SparseLu_proofs`, for bases of any dimension over any finite field, any pivots, budgets and
limits, through refactorizations, updates and repairs:

* `CountsAreExact` (`CountsExact`): the row and column counts the Markowitz search reads are those
  of the entries there are, and no pattern misses one;
* `DefectsAreSquare`: a singular basis is reported with as many dependent positions as uncovered
  rows, and at least one, so the repair has a logical for each;
* `FactorsStayUsable`: once a basis is factored its orders are permutations and nothing a solve
  divides by is zero: no pivot, no eta's pivot, no diagonal a fold left;
* `OneSchemeAtATime`: an eta file and a folded U never stand together, and neither outgrows its
  limit.

The counts are changed by one at each entry that fills in or cancels, in the rows and in the
columns apart. `ActiveInv` says that each count is the cardinality of a set of entries, and the
step compares sets that agree outside the pivot's row and column. The active submatrix is square
throughout, which is where the square defect comes from. `UInv` carries the pivots already chosen
through the elimination (`PivotInv`) and every eta and fold after it (`UpdatesInv`). Assumed: every
element of the field but zero has an inverse, which makes a quotient zero only when its
numerator is.

`Postsolve_proofs`, for any models with finitely many columns and rows, any engine's point, prices
and statuses that are a basis of what is left:

* `BasisIsWhole` (`BasisWhole`): the statuses handed back hold as many basic entries as the
  caller's model has rows;
* `RestoredOnce`: no column and no row is removed twice, and nothing removed is left in the reduced
  model, so the replay gives each its value once.

Each restored row must bring one basic entry, but a doubleton may swap its column with a partner
that is basic already, a singleton row may take the basic entry of its column while prices are
passed round and give it back in the next pass, and folded rows must move none. `RecordsInv` says
how the records relate: what each removed, that doubletons share no column, that a partner is there
when it is needed, and that no doubleton's column is one of a singleton row. `ValuesInv` counts,
during the replay, basic entries and rows still to come against the rows of the model; a free
partner comes back first, as basic, so no swap displaces it. `MadeInv`, `FinalInv` and `DualsInv`
carry the count through the dual passes. TLC was run on `RecordsInv` and `StatusInv` over every
state of `presolve` first.

Only model-checked:
* liveness (`Termination`, `InterruptEndsTheSolve`) and the fairness part of
  `ImplementsProtocol`, which are beyond this prover;
* what is an identity of sums over columns or rows: `PointRestored`, `CertificateRestored` and
  `SameOptimum` of `presolve`, `ClaimsHold` and `PushKeepsThePoint` of `simplex`,
  `SolvesTheBasis`, `RepairIsExact` and `FactorsTheMatrix` of `numerics`. Sums are within
  reach, as `CutsAreGlobal` shows, but each of these needs a theory of its own on top: the
  claims of an engine rest on the duality theorem, those of a factorization on linear algebra,
  and the presolve's on sums replayed record by record;
* `VerdictIsExact`, `SweepsAreExact` and `CurvatureIsSound`: in `SparseLdl` and
  `ExpressionGraph` the values themselves are recursive, over a tree or a tape.

## 5. Findings and remarks

**A model read and then edited loses what was read** (`handle_read`; `src/api/c_api.cpp:371`).
`sankhya_model_set_coefficient` is documented to set one coefficient. After
`sankhya_model_read` the entries are in the frozen matrix only; the edit marks the matrix
stale and the solve rebuilds it from the handle's own maps, which the read never filled. All
other coefficients of the file are gone.

**A basic variable may be reported at a bound** (`simplex_basis`;
`src/simplex/primal_simplex.cpp:1743`). `include/sankhya/sankhya.h:328` promises as many BASIC
entries as the model has rows, and a warm start asks for them
(`include/sankhya/solve_control.hpp:60`). The accuracy check refactorises with a column in hand
(lines 1590-1597). If a pivot taken through inaccurate factors has made the basis singular, the
repair (244-268) may bring in that very logical. The loop goes on: when nothing blocks its own
range, the flip writes "at a bound" to the status of a basic variable (1740-1744).
`remove_perturbation()` and `finish()` (1254) leave it so, and the optimum is reported with one
basic entry too few. It takes a row with two finite sides. Point and verdict are right, but the
statuses no longer describe a basis.

Remarks: differences between a comment or a document and the code that were met while
modelling. No run checks them; the models follow the code.

* *Limits.* `docs/ARCHITECTURE.md` bounds the overshoot of `node_limit` by one node per
  worker; `sync_with_shared()` looks at the limit only with unreported nodes, so a worker that
  takes several one-node subtrees in a row counts one past it for each
  (`branch_and_bound_parallel.cpp:343`). The documented order of reasons puts the interrupt
  first; `run()` tests time and nodes before it (`branch_and_bound.cpp:243`).
* *Pool.* The cutoff of a complete pool prunes at equality while the final filter keeps
  equality, so alternatives exactly at `pool_gap` may be missing
  (`branch_and_bound_internal.hpp:395`); `PoolIsBest` is stated for what is
  strictly inside. A node is pruned against the limit of the incumbent it meets,
  `incumbent + pool_gap * max(1, |incumbent|)`, because that "only tightens as the incumbent
  improves" (403). With `pool_gap` above 1 (`src/util/options.cpp:547`) and a negative objective
  it loosens: a first incumbent of -1 (limit 1) prunes the node of a solution of objective 1;
  then -2 is found, whose limit is 2, and that solution is missing from a pool with room for it,
  though `src/util/options.cpp:629` promises the best ones within `pool_gap`. Such limits are in
  `tree_safe`, and `PoolIsBest` states what the code does keep: what is inside the limit of the
  answer and of every worse solution. A checkpoint holds no pool, so a resumed
  `pool_complete` search reports over what it found since (`branch_and_bound_checkpoint.cpp:14`).
* *Node.* An integral relaxation closes its node although `offer_incumbent` may refuse the
  point by a tolerance (`branch_and_bound.cpp:489`); with the tolerances at zero it cannot.
* *Clock.* The crossover subtracts a clock its options were already cut by, and its push arms
  a limit that no longer counts (`simplex/crossover.cpp:236`, `core/solve.cpp:786`).
  `ClockKept` therefore exempts the push. The filter's trials have a budget of their own and
  cannot be interrupted; an interrupt before the control is registered is lost.
* *Portfolio.* "Unbounded only when both attempts make it" does not hold when the budget ends
  after the scaled attempt (`primal_simplex.cpp:2156`), and an interrupted scaled attempt
  still starts the retry. The kept answer is verified or stripped of its proof.
* *Simplex.* Phase one claims infeasibility before the test for updated factors; the accuracy
  check of the primal loop refactorises and recomputes neither prices nor values. The bound of
  a dual loop stopped at a limit after its costs were tilted need not be valid.
* *Factorizations.* A refused first Forrest-Tomlin update still builds the copy of U
  (`lu.hpp:211` says nothing is modified), and there are more than the "exactly two cases".
  The comment on the regularised pivots of the LDL is wrong for very negative ones.
* *Cuts.* A row freed by age is left in place because "a free row's logical is basic anyway"
  (`branch_and_bound_cuts.cpp:24`). That is so of the basis at hand; an open node's stored basis
  may hold it nonbasic. It is still a basis of the right size (`StoredBasesFit`).
* *Certificate.* The comment of `certificate.cpp:86` that a choice can only make the reachable
  side smaller is not so; measured complementarity uses the nearest bound whatever the sign,
  against the comment above it (`model.cpp:400`). An infeasibility presolve proves leaves
  without guards, ranging or a subsystem.
* *Expressions.* The gradient of `sqrt(x) * sqrt(x)` at 0 is given as 0 where the header says
  it fails: the sweep skips zero adjoints. A kept power with exponent 0 is refused a derivative
  at base 0. `0 * f` and `0 / g` are called constant where `f / g` may have no value, against
  `convexity.cpp:16`. `SweepsAreExact` is stated for points where every node has its value
  and, for derivatives, its derivative; `CurvatureIsSound` for points where a value exists.

## 6. What is not modelled, and what is left

Not modelled:
* *PDHG, the iterations of the interior point, of the convex QP and of the nonlinear
  cutting-plane engine*: floating-point sequences whose hazards are convergence and rounding.
  What they are called with and may answer is in `SolvePipeline`; what the interior point
  factorizes is in `SparseLdl`. The finite-difference check is a numerical test itself.
* *GPU kernels*: behind a build option. When a device may be used is in `EngineRegistry`.
* *Readers and writers*: one pass over a text in one thread.
* *Options, logging, profiler, diagnosis, command line, bindings, tools*: no state that
  outlives a call and decides an answer. Options are constants of the models.
* Parts of modelled components are named in the notes of `PROJECT.json`: pricing weights,
  efficacy ranking, schedules of heuristics, scaling, memory limits.

Left to do, most useful first:
1. The node LP of `TreeSearch` joined with `CutRows`, so that cut rows and stored bases meet
   crashes and resumes.
2. The registration of an engine of the caller's own.
3. The best-iterate memory and the exits of the iterative engines.
