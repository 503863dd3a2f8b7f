---------------------------- MODULE ModelHandle ----------------------------
(***************************************************************************)
(* A model handle of the C API (src/api/c_api.cpp): the caller builds a    *)
(* model in it and solves it while another thread interrupts the solve     *)
(* that is running.                                                        *)
(*                                                                         *)
(* The caller's calls follow the header's threading rule: one thread at a  *)
(* time on a handle, except sankhya_model_interrupt.  A solve is a loop of *)
(* polls of the StopController that every engine asks between two units of *)
(* work; SolvePipeline models what runs inside.                            *)
(***************************************************************************)
EXTENDS Naturals, FiniteSets, Functions

CONSTANTS MaxRows, MaxCols,  \* bounds on the model built
          Values,            \* coefficients; 0 removes an entry
          Files,             \* models sankhya_model_read may find
          MaxCalls,          \* bound on the edits of the handle
          MaxSolves          \* bound on the solves

ASSUME HandleAssumption ==
  /\ MaxRows \in Nat /\ MaxCols \in Nat /\ MaxCalls \in Nat /\ MaxSolves \in Nat \ {0}
  /\ 0 \in Values

VARIABLES
  model,      \* sankhya_model::model: its size and its frozen matrices
  entries,    \* pending coefficients, (row, col) -> value
  quadratic,  \* pending entries of the lower triangle of Q
  callback,   \* progress_callback: "none", "continues" or "stops"
  active,     \* active_control: the solve it belongs to, 0 for none
  owner,      \* who holds control_mutex
  caller,     \* where the caller's thread is
  solves,     \* solves begun
  built,      \* the copy materialise() made for the solve that runs
  control,    \* SolveControl of each solve: its flag, its callback, what it found
  other,      \* the interrupting thread: what it does and the control it copied
  wanted,     \* history: the coefficients the caller's calls amount to
  asked,      \* history: solves an interrupt was requested for while they were active
  calls       \* edits made

builder == <<model, entries, quadratic, wanted, calls>>
handleVars == <<builder, callback, active, owner, caller, solves, built, control, other, asked>>

Cells == (0 .. MaxRows - 1) \X (0 .. MaxCols - 1)
Pairs == (0 .. MaxCols - 1) \X (0 .. MaxCols - 1)
Nothing == [cell \in {} |-> 0]

\* Mutant: a zero is stored like any other value.
PutAlways(map, cell, value) ==
  [c \in DOMAIN map \cup {cell} |-> IF c = cell THEN value ELSE map[c]]

\* std::map::erase and operator[]
Put(map, cell, value) ==
  IF value = 0 THEN Restrict(map, DOMAIN map \ {cell})
  ELSE [c \in DOMAIN map \cup {cell} |-> IF c = cell THEN value ELSE map[c]]

\* What a sparse map says of a cell.
Value(map, cell) == IF cell \in DOMAIN map THEN map[cell] ELSE 0

Lower(i, j) == IF i > j THEN <<i, j>> ELSE <<j, i>>

Frozen(rows, cols, map) == [rows |-> rows, cols |-> cols, entries |-> map]
Unbuilt == Frozen(0, 0, Nothing)

-----------------------------------------------------------------------------
\* Building

HandleInit ==
  /\ model = [rows |-> 0, cols |-> 0, matrix |-> Unbuilt, hessian |-> Unbuilt]
  /\ entries = Nothing /\ quadratic = Nothing
  /\ callback = "none" /\ active = 0 /\ owner = "free"
  /\ caller = "idle" /\ solves = 0
  /\ built = [matrix |-> Unbuilt, hessian |-> Unbuilt]
  /\ control = [s \in 1 .. MaxSolves |-> [flag |-> FALSE, callback |-> "none",
                                          seen |-> FALSE, answer |-> "none"]]
  /\ other = [at |-> "idle", copy |-> 0]
  /\ wanted = [matrix |-> [c \in Cells |-> 0], hessian |-> [p \in Pairs |-> 0]]
  /\ asked = {} /\ calls = 0

Edit ==
  /\ caller = "idle" /\ calls < MaxCalls
  /\ calls' = calls + 1
  /\ UNCHANGED <<callback, active, owner, caller, solves, built, control, other, asked>>

\* Only on success does a read replace the model, and with it everything pending.
Read ==
  /\ Edit
  /\ \E file \in Files :
       /\ model' = [rows |-> file.rows, cols |-> file.cols,
                    matrix |-> Frozen(file.rows, file.cols, file.entries),
                    hessian |-> Frozen(file.cols, file.cols, Nothing)]
       /\ wanted' = [matrix |-> [c \in Cells |-> Value(file.entries, c)], hessian |-> [p \in Pairs |-> 0]]
  /\ entries' = Nothing /\ quadratic' = Nothing

AddColumn ==
  /\ Edit /\ model.cols < MaxCols
  /\ model' = [model EXCEPT !.cols = @ + 1]
  /\ UNCHANGED <<entries, quadratic, wanted>>

AddRow ==
  /\ Edit /\ model.rows < MaxRows
  /\ model' = [model EXCEPT !.rows = @ + 1]
  /\ UNCHANGED <<entries, quadratic, wanted>>

SetCoefficient ==
  /\ Edit
  /\ \E cell \in Cells, value \in Values :
       /\ cell[1] < model.rows /\ cell[2] < model.cols
       /\ entries' = Put(entries, cell, value)
       /\ wanted' = [wanted EXCEPT !.matrix[cell] = value]
  /\ UNCHANGED <<model, quadratic>>

\* (i, j) and (j, i) name one entry of the symmetric Q.
SetQuadraticCoefficient ==
  /\ Edit
  /\ \E p \in Pairs, value \in Values :
       /\ p[1] < model.cols /\ p[2] < model.cols
       /\ quadratic' = Put(quadratic, Lower(p[1], p[2]), value)
       /\ wanted' = [wanted EXCEPT !.hessian = [q \in Pairs |->
                                IF q \in {p, <<p[2], p[1]>>} THEN value ELSE @[q]]]
  /\ UNCHANGED <<model, entries>>

\* sankhya_set_callback stores it under control_mutex; a running solve keeps its own copy.
SetCallback ==
  /\ caller = "idle" /\ owner = "free" /\ calls < MaxCalls
  /\ calls' = calls + 1
  /\ callback' \in {"none", "continues", "stops"} \ {callback}
  /\ UNCHANGED <<model, entries, quadratic, wanted, active, owner, caller, solves, built,
                 control, other, asked>>

-----------------------------------------------------------------------------
\* Solving

\* Pending triplets replace the frozen matrix; with none pending what was read stands.
Materialise ==
  [matrix |-> IF entries # Nothing \/ model.matrix.entries = Nothing
              THEN Frozen(model.rows, model.cols, entries) ELSE model.matrix,
   hessian |-> IF quadratic # Nothing
               THEN Frozen(model.cols, model.cols, quadratic) ELSE model.hessian]

SolveBegin ==
  /\ caller = "idle" /\ solves < MaxSolves
  /\ caller' = "registering" /\ solves' = solves + 1
  /\ built' = Materialise
  /\ UNCHANGED <<builder, callback, active, owner, control, other, asked>>

LockToRegister ==
  /\ caller = "registering" /\ owner = "free"
  /\ owner' = "caller" /\ caller' = "registers"
  /\ UNCHANGED <<builder, callback, active, solves, built, control, other, asked>>

\* Mutant: one SolveControl serves every solve, and its flag is never lowered.
RegisterReused ==
  /\ caller = "registers"
  /\ control' = [control EXCEPT ![solves] = [flag |-> solves > 1 /\ control[solves - 1].flag,
                                            callback |-> callback, seen |-> FALSE,
                                            answer |-> "none"]]
  /\ active' = solves /\ owner' = "free" /\ caller' = "solving"
  /\ UNCHANGED <<builder, callback, solves, built, other, asked>>

\* A fresh SolveControl, the handle's callback copied into it, published as active.
Register ==
  /\ caller = "registers"
  /\ control' = [control EXCEPT ![solves] = [flag |-> FALSE, callback |-> callback,
                                            seen |-> FALSE, answer |-> "none"]]
  /\ active' = solves /\ owner' = "free" /\ caller' = "solving"
  /\ UNCHANGED <<builder, callback, solves, built, other, asked>>

\* Mutant: inside the callback's window the flag is not asked either.
PollThrottled ==
  /\ caller = "solving"
  /\ LET c == control[solves]
         stop == [c EXCEPT !.answer = "interrupted", !.flag = TRUE]
     IN  \/ /\ ~c.seen /\ (c.flag \/ c.callback = "stops")
            /\ control' = [control EXCEPT ![solves] = stop] /\ caller' = "returning"
         \/ /\ ~c.flag /\ c.callback = "continues"
            /\ control' = [control EXCEPT ![solves].seen = TRUE] /\ UNCHANGED caller
         \/ c.seen /\ UNCHANGED <<control, caller>>
  /\ UNCHANGED <<builder, callback, active, owner, solves, built, other, asked>>

\* StopController::should_stop: the flag, then the callback when its window is over, and
\* the flag again, for the callback may have asked.
Poll ==
  /\ caller = "solving"
  /\ LET c == control[solves]
         stop == [c EXCEPT !.answer = "interrupted", !.flag = TRUE]
     IN  \/ /\ c.flag
            /\ control' = [control EXCEPT ![solves] = stop] /\ caller' = "returning"
         \/ /\ ~c.flag /\ c.callback # "none"
            /\ IF c.callback = "stops"
               THEN control' = [control EXCEPT ![solves] = stop] /\ caller' = "returning"
               ELSE control' = [control EXCEPT ![solves].seen = TRUE] /\ UNCHANGED caller
         \/ /\ ~c.flag /\ (c.callback = "none" \/ c.seen)
            /\ UNCHANGED <<control, caller>>
  /\ UNCHANGED <<builder, callback, active, owner, solves, built, other, asked>>

\* The engine concludes, or its own limits stop it, between two polls.
EngineConcludes ==
  /\ caller = "solving"
  /\ control' = [control EXCEPT ![solves].answer = "concluded"]
  /\ caller' = "returning"
  /\ UNCHANGED <<builder, callback, active, owner, solves, built, other, asked>>

\* ControlClearer, on the way out whatever happened.
LockToClear ==
  /\ caller = "returning" /\ owner = "free"
  /\ owner' = "caller" /\ caller' = "clears"
  /\ UNCHANGED <<builder, callback, active, solves, built, control, other, asked>>

Clear ==
  /\ caller = "clears"
  /\ active' = 0 /\ owner' = "free" /\ caller' = "idle"
  /\ UNCHANGED <<builder, callback, solves, built, control, other, asked>>

-----------------------------------------------------------------------------
\* sankhya_model_interrupt, from another thread

OtherBegins ==
  /\ other.at = "idle" /\ other' = [other EXCEPT !.at = "locking"]
  /\ UNCHANGED <<builder, callback, active, owner, caller, solves, built, control, asked>>

OtherCopies ==
  /\ other.at = "locking" /\ owner = "free"
  /\ other' = [at |-> "copied", copy |-> active]
  /\ asked' = IF active = 0 THEN asked ELSE asked \cup {active}
  /\ UNCHANGED <<builder, callback, active, owner, caller, solves, built, control>>

Raised(copy) ==
  IF copy = 0 THEN control ELSE [control EXCEPT ![copy].flag = TRUE]

OtherRaises ==
  /\ other.at = "copied"
  /\ control' = Raised(other.copy) /\ other' = [at |-> "idle", copy |-> 0]
  /\ UNCHANGED <<builder, callback, active, owner, caller, solves, built, asked>>

HandleNext ==
  \/ Read \/ AddColumn \/ AddRow \/ SetCoefficient \/ SetQuadraticCoefficient \/ SetCallback
  \/ SolveBegin \/ LockToRegister \/ Register \/ Poll \/ EngineConcludes \/ LockToClear \/ Clear
  \/ OtherBegins \/ OtherCopies \/ OtherRaises

\* The solving thread keeps running and a thread inside a call finishes it; nothing
\* obliges the caller to solve, an engine to conclude, or anyone to interrupt.
Fairness ==
  /\ WF_handleVars(LockToRegister) /\ WF_handleVars(Register) /\ WF_handleVars(Poll)
  /\ WF_handleVars(LockToClear) /\ WF_handleVars(Clear)
  /\ WF_handleVars(OtherCopies) /\ WF_handleVars(OtherRaises)

HandleSpec == HandleInit /\ [][HandleNext]_handleVars /\ Fairness

-----------------------------------------------------------------------------
\* Properties

\* An interrupt stops the solve that was active when it was called and no other: one that
\* comes too late, its flag raised after the lock was let go, never stops the next solve.
InterruptIsForItsSolve ==
  \A s \in 1 .. solves :
    control[s].answer = "interrupted" => s \in asked \/ control[s].callback = "stops"

\* The matrices a solve runs on are the calls the caller made, last write first, zeros
\* removed, both triangles of Q as one - for a model no file was read into.
BuiltAsCalled ==
  caller # "idle" /\ model.matrix = Unbuilt =>
    /\ \A c \in Cells : Value(built.matrix.entries, c) = wanted.matrix[c]
    /\ \A p \in Pairs : Value(built.hessian.entries, Lower(p[1], p[2])) = wanted.hessian[p]
    /\ 0 \notin Range(built.matrix.entries)

\* A solve that was asked to stop while it ran does not run on.
InterruptEndsTheSolve ==
  \A s \in 1 .. MaxSolves : (s \in asked) ~> (control[s].answer # "none")

\* sankhya.h, sankhya_model_set_coefficient: "Set one constraint-matrix coefficient",
\* whatever the handle was filled from: the others are what they were.
SolvesWhatWasSet ==
  caller # "idle" => \A c \in Cells : Value(built.matrix.entries, c) = wanted.matrix[c]
=============================================================================
