--------------------------- MODULE EngineRegistry ---------------------------
(***************************************************************************)
(* The registered engines, what each declares it can do, and the one place *)
(* that decides which of them runs: src/solver_engine and the rule table   *)
(* of src/core/engine_selection.cpp.                                       *)
(*                                                                         *)
(* A call is a record: the class of the model, its shape (which threshold  *)
(* of the rule table it passes), whether the caller handed a basis over,   *)
(* and the options read here.                                              *)
(***************************************************************************)
EXTENDS FiniteSets

CONSTANT Cuda     \* is the CUDA back end compiled in?
ASSUME CudaAssumption == Cuda \in BOOLEAN

Classes == {"lp", "milp", "qp", "miqp"}

\* The columns are integer or not, the objective has a Hessian or not.
Classify(integral, quadratic) ==
  CASE integral /\ quadratic -> "miqp"
    [] integral /\ ~quadratic -> "milp"
    [] ~integral /\ quadratic -> "qp"
    [] OTHER -> "lp"

\* The engines register_builtin_engines() adds, with their declared capabilities.
Capabilities ==
  LET lpEngines == {"simplex", "dual-simplex", "pdhg", "ipm"}
                     \cup (IF Cuda THEN {"pdhg-gpu"} ELSE {})
      names == lpEngines \cup {"convex-qp", "branch-and-bound"}
  IN  [e \in names |->
        [classes      |-> CASE e \in lpEngines -> {"lp"}
                            [] e = "convex-qp" -> {"qp"}
                            [] OTHER -> {"milp", "miqp"},
         gpu          |-> e = "pdhg-gpu",
         warmStart    |-> e \in {"simplex", "dual-simplex"},
         certificates |-> e \in {"simplex", "dual-simplex"}]]

Registered == DOMAIN Capabilities
Accepts(e, class) == class \in Capabilities[e].classes

Candidates(class) == {e \in Registered : Accepts(e, class)}

\* What the algorithm option takes besides "auto".
AlgorithmNames ==
  {e \in Registered : Accepts(e, "lp") /\ ~Capabilities[e].gpu}

\* The rule table of select_engine(), read in its order.
SelectEngine(call, gpuAvailable) ==
  CASE call.algorithm # "auto" -> [algorithm |-> call.algorithm, gpu |-> FALSE]
    [] call.algorithm = "auto" /\ call.warm # "none" ->
         [algorithm |-> "dual-simplex", gpu |-> FALSE]
    [] call.algorithm = "auto" /\ call.warm = "none" /\ call.shape = "pdhgRows" ->
         [algorithm |-> "pdhg", gpu |-> gpuAvailable]
    [] call.algorithm = "auto" /\ call.warm = "none"
         /\ call.shape \in {"ipmRows", "ipmNonzeros"} ->
         [algorithm |-> "ipm", gpu |-> FALSE]
    [] OTHER -> [algorithm |-> "dual-simplex", gpu |-> FALSE]

\* gpu_pdhg_is_safe() refuses an old or a small device, and any device in deterministic
\* mode; a device it cannot query is not refused, the engine falls back by itself.
GpuPdhgIsSafe(call) == call.device # "unfit" /\ ~call.deterministic

ShouldUseGpuPdhg(call, ruleSaysGpu) ==
  /\ ruleSaysGpu
  /\ "pdhg-gpu" \in Registered
  /\ GpuPdhgIsSafe(call)

None == "none"

\* engine::select(): the engine's name, or None when the registry refuses the request.
Select(call) ==
  LET asked == SelectEngine(call, Cuda /\ call.device # "absent")
      upgraded(name, ruleSaysGpu) ==
        IF name = "pdhg" /\ ShouldUseGpuPdhg(call, ruleSaysGpu) THEN "pdhg-gpu" ELSE name
  IN  CASE call.algorithm # "auto" ->
             IF call.algorithm \in Registered /\ Accepts(call.algorithm, call.class)
             THEN upgraded(call.algorithm, call.gpu) ELSE None
        [] call.algorithm = "auto" /\ call.class = "lp" ->
             upgraded(asked.algorithm, asked.gpu \/ call.gpu)
        [] OTHER -> IF Candidates(call.class) = {} THEN None
                    ELSE CHOOSE e \in Candidates(call.class) : TRUE
=============================================================================
