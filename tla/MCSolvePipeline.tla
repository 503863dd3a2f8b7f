-------------------------- MODULE MCSolvePipeline --------------------------
(***************************************************************************)
(* The C interface: a handle that one thread edits and solves while        *)
(* another interrupts it, and one call of solve() on what was built.  The  *)
(* handle knows the pipeline as a solve that polls and answers; each is    *)
(* explored with the other out of use.                                     *)
(*                                                                         *)
(* Each call of solve() varies the options one path of the pipeline reads. *)
(***************************************************************************)
EXTENDS SolvePipeline, MCModelHandle

Plain == [entry |-> "solve", class |-> "lp", shape |-> "small", algorithm |-> "auto",
          warm |-> "none", presolve |-> TRUE, poolComplete |-> FALSE, polish |-> TRUE,
          polishMax |-> 2, deterministic |-> FALSE, limit |-> 3, crossover |-> TRUE,
          iis |-> FALSE, gpu |-> FALSE, device |-> "absent", valid |-> TRUE,
          scaling |-> "half"]

FirstOrderCalls ==
  {[Plain EXCEPT !.shape = "pdhgRows", !.device = d, !.deterministic = det] :
     d \in {"absent", "unfit", "fits"}, det \in BOOLEAN}
  \cup {[Plain EXCEPT !.shape = "pdhgRows", !.limit = l] : l \in {0, Forever}}
  \cup {[Plain EXCEPT !.algorithm = "pdhg", !.gpu = g, !.device = "fits", !.polish = p] :
          g \in BOOLEAN, p \in BOOLEAN}

InteriorCalls ==
  {[Plain EXCEPT !.shape = "ipmRows", !.limit = l] : l \in {0, 3, Forever}}
  \cup {[Plain EXCEPT !.shape = "ipmNonzeros"]}
  \cup {[Plain EXCEPT !.algorithm = "ipm", !.crossover = x] : x \in BOOLEAN}

SimplexCalls ==
  {[Plain EXCEPT !.algorithm = a, !.presolve = p, !.iis = TRUE] :
     a \in {"auto", "simplex", "pdhg-gpu"}, p \in BOOLEAN}
  \cup {[Plain EXCEPT !.algorithm = a, !.warm = "fits", !.iis = TRUE] :
          a \in {"auto", "simplex", "pdhg-gpu"}}
  \cup {[Plain EXCEPT !.warm = w, !.presolve = FALSE, !.iis = TRUE] : w \in {"fits", "misfit"}}
  \cup {[Plain EXCEPT !.scaling = s, !.limit = l] :
          s \in {"off", "half", "all"}, l \in {0, 2, Forever}}
  \cup {[Plain EXCEPT !.valid = FALSE]}

OtherClassCalls ==
  {[Plain EXCEPT !.class = c, !.algorithm = a, !.presolve = TRUE, !.poolComplete = pool] :
     c \in Classes \ {"lp"}, a \in {"auto", "ipm"}, pool \in BOOLEAN}

RegistryCalls ==
  {[Plain EXCEPT !.entry = "registry", !.class = c, !.algorithm = a] :
     c \in {"lp", "milp"}, a \in {"auto", "simplex", "pdhg"}}

AllCalls == FirstOrderCalls \cup InteriorCalls \cup SimplexCalls \cup OtherClassCalls
              \cup RegistryCalls

PipelineIdle ==
  /\ call = Plain /\ pc = "not used" /\ clock = 0 /\ engine = None /\ reduced = FALSE
  /\ presolved = 0 /\ last = [engine |-> None, limit |-> 0] /\ ans = Blank /\ interrupt = FALSE

MCInit == (Init \/ PipelineIdle) /\ HandleInit
MCNext ==
  \/ pc # "not used" /\ Next /\ UNCHANGED handleVars
  \/ pc = "not used" /\ HandleNext /\ UNCHANGED vars
MCSpec == MCInit /\ [][MCNext]_<<vars, handleVars>> /\ Fairness
=============================================================================
