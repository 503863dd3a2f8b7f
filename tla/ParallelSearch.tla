--------------------------- MODULE ParallelSearch ---------------------------
(***************************************************************************)
(* The parallel tree search (src/mip/branch_and_bound_parallel.cpp and the *)
(* loop of BranchAndBound::run() it runs in every worker).                 *)
(*                                                                         *)
(* Every worker thread takes one subtree at a time from a shared queue and *)
(* searches it with its own open list; it adopts the shared incumbent,     *)
(* counts nodes, and gives open nodes away when another worker is idle.    *)
(* A subtree that ends with open nodes leaves their bound as a residual,   *)
(* and the driver states an answer once every worker has exited.           *)
(*                                                                         *)
(* One action is one step between two accesses to shared state.  Which     *)
(* open node is taken, and which are given away beyond "the smallest       *)
(* bound", is left open: the open list is a set.                           *)
(***************************************************************************)
EXTENDS BranchRules

CONSTANTS Workers,      \* the worker threads
          NodeLimit,    \* node_limit; a negative value is no limit
          MinOpen,      \* kMinOpenToDonate
          Keep,         \* the newest nodes that are never given away
          Events        \* which outside events the environment may produce

ASSUME WorkersAssumption ==
  /\ IsFiniteSet(Workers)
  /\ Workers # {}
  /\ NodeLimit \in Int
  /\ MinOpen \in Nat /\ Keep \in Nat /\ Keep < MinOpen
  /\ Events \subseteq {"time", "interrupt", "iterations", "failure", "exception"}

VARIABLES queue,      \* SharedSearch::queue_
          idle,       \* idle_
          busy,       \* busy_
          exited,     \* exited_
          asleep,     \* workers blocked on queue_changed_
          stopFlag,   \* stop_
          reason,     \* reason_
          failed,     \* failed_
          thrown,     \* exception_ is set
          nodes,      \* nodes_
          residual,   \* residual_
          gapMet,     \* gap_met_
          best,       \* best_x_; best_ is its objective
          expired,    \* the clock has passed time_limit
          signal,     \* stop_signal.interrupt() was called
          pc,         \* where a worker is
          ret,        \* where it continues after stop()
          open,       \* its open_
          cur,        \* the node it has entered
          lpBound,    \* the bound of that node's relaxation
          inc,        \* its incumbent_x_
          fresh,      \* nodes explored and not yet reported
          give,       \* nodes still to give away
          why,        \* the limit that ends its subtree
          dpc,        \* where the driver is
          answer      \* what the driver reports

sharedVars == <<queue, idle, busy, exited, asleep>>
stopVars   == <<stopFlag, reason, failed, thrown>>
sumVars    == <<nodes, residual, gapMet, best>>
envVars    == <<expired, signal>>
workVars   == <<open, cur, lpBound, inc, fresh, give, why>>
driverVars == <<dpc, answer>>
vars == <<sharedVars, stopVars, sumVars, envVars, workVars, driverVars, pc, ret>>

Reasons == {"none", "time", "interrupt", "nodes", "iterations"}

\* A worker that holds a subtree, counted in busy_.
BusyPCs == {"head", "adopt", "share", "donate", "push", "test", "lp", "heur",
            "leave", "stopReason", "stopFlag", "stopWake", "finish"}
WorkerPCs == BusyPCs \cup {"take", "waiting", "exiting", "exited"}
DriverPCs == {"wait", "stopReason", "stopFlag", "stopWake", "signal", "done"}

Statuses == {"none", "optimal", "feasible", "infeasible", "limit", "failure",
             "exception"}

NoAnswer == [status |-> "none", stoppedBy |-> "none", x |-> NoPoint, bound |-> Inf]
Answers == [status : Statuses, stoppedBy : Reasons, x : Feasible \cup {NoPoint},
            bound : Int]

Init ==
  /\ queue = {RootNode} /\ idle = 0 /\ busy = 0 /\ exited = 0 /\ asleep = {}
  /\ stopFlag = FALSE /\ reason = "none" /\ failed = FALSE /\ thrown = FALSE
  /\ nodes = 0 /\ residual = Inf /\ gapMet = FALSE /\ best = NoPoint
  /\ expired = FALSE /\ signal = FALSE
  /\ pc = [w \in Workers |-> "take"]
  /\ ret = [w \in Workers |-> "finish"]
  /\ open = [w \in Workers |-> {}]
  /\ cur = [w \in Workers |-> RootNode]
  /\ lpBound = [w \in Workers |-> NegInf]
  /\ inc = [w \in Workers |-> NoPoint]
  /\ fresh = [w \in Workers |-> 0]
  /\ give = [w \in Workers |-> 0]
  /\ why = [w \in Workers |-> "none"]
  /\ dpc = "wait" /\ answer = NoAnswer

Goto(w, l) == pc' = [pc EXCEPT ![w] = l]

------------------------------------------------------------------------------
(* SharedSearch::take                                                      *)

TakeEnter(w) ==
  /\ pc[w] = "take"
  /\ idle' = idle + 1
  /\ Goto(w, "waiting")
  /\ UNCHANGED <<queue, busy, exited, asleep, stopVars, sumVars, envVars,
                 workVars, driverVars, ret>>

Awake(w) == pc[w] = "waiting" /\ w \notin asleep

\* The predicate of the wait is false: the thread blocks on the condition.
TakeSleep(w) ==
  /\ Awake(w)
  /\ queue = {} /\ busy # 0 /\ ~stopFlag
  /\ asleep' = asleep \cup {w}
  /\ UNCHANGED <<queue, idle, busy, exited, stopVars, sumVars, envVars,
                 workVars, driverVars, pc, ret>>

\* The smallest bound first; the worker starts a BranchAndBound of its own,
\* whose open list is the subtree's node and which has no incumbent yet.
TakeSubtree(w) ==
  /\ Awake(w)
  /\ ~stopFlag
  /\ \E n \in Smallest(queue) :
        /\ queue' = queue \ {n}
        /\ open' = [open EXCEPT ![w] = {n}]
  /\ idle' = idle - 1
  /\ busy' = busy + 1
  /\ inc' = [inc EXCEPT ![w] = NoPoint]
  /\ fresh' = [fresh EXCEPT ![w] = 0]
  /\ why' = [why EXCEPT ![w] = "none"]
  /\ Goto(w, "head")
  /\ UNCHANGED <<exited, asleep, stopVars, sumVars, envVars, cur, lpBound,
                 give, driverVars, ret>>

\* Stopped, or nothing queued and nobody left who could refill the queue.
TakeOver(w) ==
  /\ Awake(w)
  /\ stopFlag \/ (queue = {} /\ busy = 0)
  /\ idle' = idle - 1
  /\ asleep' = {}
  /\ Goto(w, "exiting")
  /\ UNCHANGED <<queue, busy, exited, stopVars, sumVars, envVars, workVars,
                 driverVars, ret>>

WorkerExited(w) ==
  /\ pc[w] = "exiting"
  /\ exited' = exited + 1
  /\ asleep' = {}
  /\ Goto(w, "exited")
  /\ UNCHANGED <<queue, idle, busy, stopVars, sumVars, envVars, workVars,
                 driverVars, ret>>

FinishedSubtree(w) ==
  /\ pc[w] = "finish"
  /\ busy' = busy - 1
  /\ asleep' = {}
  /\ open' = [open EXCEPT ![w] = {}]
  /\ fresh' = [fresh EXCEPT ![w] = 0]
  /\ Goto(w, "take")
  /\ UNCHANGED <<queue, idle, exited, stopVars, sumVars, envVars, cur, lpBound,
                 inc, give, why, driverVars, ret>>

------------------------------------------------------------------------------
(* SharedSearch::stop, three steps: the reason under its mutex, the flag,  *)
(* then the wake-up under the queue's mutex.                               *)

FirstReason(r) == reason' = IF reason = "none" THEN r ELSE reason

\* Continue with stop(r), then with label l.
StopThen(w, r, l) ==
  /\ why' = [why EXCEPT ![w] = r]
  /\ ret' = [ret EXCEPT ![w] = l]
  /\ Goto(w, "stopReason")

StopReason(w) ==
  /\ pc[w] = "stopReason"
  /\ FirstReason(why[w])
  /\ Goto(w, "stopFlag")
  /\ UNCHANGED <<sharedVars, stopFlag, failed, thrown, sumVars, envVars,
                 workVars, driverVars, ret>>

StopFlag(w) ==
  /\ pc[w] = "stopFlag"
  /\ stopFlag' = TRUE
  /\ Goto(w, "stopWake")
  /\ UNCHANGED <<sharedVars, reason, failed, thrown, sumVars, envVars, workVars,
                 driverVars, ret>>

StopWake(w) ==
  /\ pc[w] = "stopWake"
  /\ asleep' = {}
  /\ Goto(w, ret[w])
  /\ UNCHANGED <<queue, idle, busy, exited, stopVars, sumVars, envVars, workVars,
                 driverVars, ret>>

------------------------------------------------------------------------------
(* The loop of run(), between nodes                                        *)

\* Leave the loop with a limit: leave_shared() is next.
LeaveWith(w, r) ==
  /\ why' = [why EXCEPT ![w] = r]
  /\ Goto(w, "leave")

HeadExhausted(w) ==
  /\ pc[w] = "head"
  /\ open[w] = {}
  /\ Goto(w, "leave")
  /\ UNCHANGED <<sharedVars, stopVars, sumVars, envVars, workVars, driverVars, ret>>

\* limits_.exhausted(): the worker's own node limit is off, its clock is not.
HeadTimeLimit(w) ==
  /\ pc[w] = "head"
  /\ open[w] # {}
  /\ expired
  /\ LeaveWith(w, "time")
  /\ UNCHANGED <<sharedVars, stopVars, sumVars, envVars, open, cur, lpBound, inc,
                 fresh, give, driverVars, ret>>

\* sync_with_shared(): stopped; a stop without a reason is another's failure.
SyncStopped(w) ==
  /\ pc[w] = "head"
  /\ open[w] # {}
  /\ ~expired
  /\ stopFlag
  /\ LeaveWith(w, IF reason = "none" THEN "interrupt" ELSE reason)
  /\ UNCHANGED <<sharedVars, stopVars, sumVars, envVars, open, cur, lpBound, inc,
                 fresh, give, driverVars, ret>>

\* add_nodes(); the limit is looked at only when there is something to add.
SyncReport(w) ==
  /\ pc[w] = "head"
  /\ open[w] # {}
  /\ ~expired
  /\ ~stopFlag
  /\ nodes' = nodes + fresh[w]
  /\ fresh' = [fresh EXCEPT ![w] = 0]
  /\ IF fresh[w] > 0 /\ NodeLimit >= 0 /\ nodes' >= NodeLimit
     THEN StopThen(w, "nodes", "leave")
     ELSE Goto(w, "adopt") /\ UNCHANGED <<why, ret>>
  /\ UNCHANGED <<sharedVars, stopVars, residual, gapMet, best, envVars, open,
                 cur, lpBound, inc, give, driverVars>>

\* Another worker's incumbent prunes here as if this worker had found it.
SyncAdopt(w) ==
  /\ pc[w] = "adopt"
  /\ inc' = IF best # NoPoint THEN [inc EXCEPT ![w] = Better(best, inc[w])] ELSE inc
  /\ Goto(w, "share")
  /\ UNCHANGED <<sharedVars, stopVars, sumVars, envVars, open, cur, lpBound,
                 fresh, give, why, driverVars, ret>>

\* hungry(): its three relaxed reads are one step; what they saw may be stale
\* by the time the nodes are pushed.
Hungry == idle > 0 /\ queue = {} /\ ~stopFlag

SyncShare(w) ==
  /\ pc[w] = "share"
  /\ Goto(w, IF Hungry /\ Cardinality(open[w]) >= MinOpen THEN "donate" ELSE "test")
  /\ UNCHANGED <<sharedVars, stopVars, sumVars, envVars, workVars, driverVars, ret>>

\* donate_open_nodes(): how many, read once.
DonateCount(w) ==
  /\ pc[w] = "donate"
  /\ give' = [give EXCEPT ![w] = Lower(idle, Cardinality(open[w]) - Keep)]
  /\ Goto(w, "push")
  /\ UNCHANGED <<sharedVars, stopVars, sumVars, envVars, open, cur, lpBound, inc,
                 fresh, why, driverVars, ret>>

\* Mutant: a node given away stays in the open list.
DonatePushKept(w) ==
  /\ pc[w] = "push"
  /\ give[w] > 0
  /\ \E n \in open[w] :
        /\ Cardinality({m \in open[w] : m.bound < n.bound}) <= Keep
        /\ queue' = queue \cup {n}
  /\ give' = [give EXCEPT ![w] = @ - 1]
  /\ asleep' = {}
  /\ UNCHANGED <<idle, busy, exited, stopVars, sumVars, envVars, open, cur, lpBound,
                 inc, fresh, why, driverVars, pc, ret>>

\* One node leaves the open list and is pushed.  The newest Keep nodes stay, so
\* the node has the smallest bound of some set of all the others.
DonatePush(w) ==
  /\ pc[w] = "push"
  /\ give[w] > 0
  /\ \E n \in open[w] :
        /\ Cardinality({m \in open[w] : m.bound < n.bound}) <= Keep
        /\ open' = [open EXCEPT ![w] = @ \ {n}]
        /\ queue' = queue \cup {n}
  /\ give' = [give EXCEPT ![w] = @ - 1]
  /\ asleep' = {}
  /\ UNCHANGED <<idle, busy, exited, stopVars, sumVars, envVars, cur, lpBound,
                 inc, fresh, why, driverVars, pc, ret>>

DonateDone(w) ==
  /\ pc[w] = "push"
  /\ give[w] = 0
  /\ Goto(w, "test")
  /\ UNCHANGED <<sharedVars, stopVars, sumVars, envVars, workVars, driverVars, ret>>

\* stop.should_stop(): the interrupt before the clock.
TestStopped(w) ==
  /\ pc[w] = "test"
  /\ signal \/ expired
  /\ LeaveWith(w, IF signal THEN "interrupt" ELSE "time")
  /\ UNCHANGED <<sharedVars, stopVars, sumVars, envVars, open, cur, lpBound, inc,
                 fresh, give, driverVars, ret>>

\* The gap test against the smallest open bound: the subtree ends, no limit hit.
TestGap(w) ==
  /\ pc[w] = "test"
  /\ ~signal /\ ~expired
  /\ \E n \in Smallest(open[w]) : GapMet(n.bound, inc[w])
  /\ Goto(w, "leave")
  /\ UNCHANGED <<sharedVars, stopVars, sumVars, envVars, workVars, driverVars, ret>>

\* Mutant: a node pruned on its inherited bound stays in the open list.
PickNodeKept(w) ==
  /\ pc[w] = "test"
  /\ ~signal /\ ~expired
  /\ \A n \in Smallest(open[w]) : ~GapMet(n.bound, inc[w])
  /\ \E n \in open[w] :
        IF CanPrune(n.bound, inc[w])
        THEN Goto(w, "head") /\ UNCHANGED <<open, cur, fresh>>
        ELSE /\ Goto(w, "lp")
             /\ open' = [open EXCEPT ![w] = @ \ {n}]
             /\ cur' = [cur EXCEPT ![w] = n]
             /\ fresh' = [fresh EXCEPT ![w] = 1]
  /\ UNCHANGED <<sharedVars, stopVars, sumVars, envVars, lpBound, inc, give, why,
                 driverVars, ret>>

\* take_next_open_node() and the test on the inherited bound.
PickNode(w) ==
  /\ pc[w] = "test"
  /\ ~signal /\ ~expired
  /\ \A n \in Smallest(open[w]) : ~GapMet(n.bound, inc[w])
  /\ \E n \in open[w] :
        /\ open' = [open EXCEPT ![w] = @ \ {n}]
        /\ IF CanPrune(n.bound, inc[w])
           THEN Goto(w, "head") /\ UNCHANGED <<cur, fresh>>
           ELSE /\ Goto(w, "lp")
                /\ cur' = [cur EXCEPT ![w] = n]
                /\ fresh' = [fresh EXCEPT ![w] = 1]
  /\ UNCHANGED <<sharedVars, stopVars, sumVars, envVars, lpBound, inc, give, why,
                 driverVars, ret>>

------------------------------------------------------------------------------
(* One node                                                                *)

\* Propagation, a conflict or the node LP proves the node empty, or the LP's
\* bound is no better than the incumbent.
NodeClosed(w) ==
  /\ pc[w] = "lp"
  /\ \/ CanBeInfeasible(cur[w])
     \/ \E b \in RelaxationBounds(cur[w]) : CanPrune(b, inc[w])
  /\ Goto(w, "head")
  /\ UNCHANGED <<sharedVars, stopVars, sumVars, envVars, workVars, driverVars, ret>>

\* A limit reached the node's LP: the node is still open.
NodeLimitHit(w) ==
  /\ pc[w] = "lp"
  /\ \E r \in {"time", "interrupt", "iterations"} :
        /\ (r = "time" => expired) /\ (r = "interrupt" => signal)
        /\ r = "iterations" => r \in Events
        /\ LeaveWith(w, r)
  /\ open' = [open EXCEPT ![w] = @ \cup {cur[w]}]
  /\ UNCHANGED <<sharedVars, stopVars, sumVars, envVars, cur, lpBound, inc, fresh,
                 give, driverVars, ret>>

\* Unbounded or a numerical failure: run() returns at once, without
\* leave_shared(), and run_worker() calls fail(), which stops for no reason.
NodeFailed(w) ==
  /\ pc[w] = "lp"
  /\ "failure" \in Events
  /\ failed' = TRUE
  /\ StopThen(w, "none", "finish")
  /\ UNCHANGED <<sharedVars, stopFlag, reason, thrown, sumVars, envVars, open,
                 cur, lpBound, inc, fresh, give, driverVars>>

\* An allocation fails inside the search, or in a push, where the node already
\* left the open list: run_worker() records the exception and stops.
WorkerThrows(w) ==
  /\ pc[w] \in {"lp", "push"}
  /\ "exception" \in Events
  /\ thrown' = TRUE
  /\ \/ open' = open
     \/ \E n \in open[w] : pc[w] = "push" /\ open' = [open EXCEPT ![w] = @ \ {n}]
  /\ StopThen(w, "none", "finish")
  /\ UNCHANGED <<sharedVars, stopFlag, reason, failed, sumVars, envVars, cur,
                 lpBound, inc, fresh, give, driverVars>>

\* The relaxation is solved and its bound does not prune.
NodeSolved(w) ==
  /\ pc[w] = "lp"
  /\ \E b \in RelaxationBounds(cur[w]) :
        /\ ~CanPrune(b, inc[w])
        /\ lpBound' = [lpBound EXCEPT ![w] = b]
  /\ Goto(w, "heur")
  /\ UNCHANGED <<sharedVars, stopVars, sumVars, envVars, open, cur, inc, fresh,
                 give, why, driverVars, ret>>

\* offer_incumbent(): verified, kept if it improves here, and published, where
\* it is kept only if it improves on everyone's.
Offer(w, p) ==
  /\ inc' = [inc EXCEPT ![w] = Better(p, @)]
  /\ best' = IF Improves(p, inc[w]) THEN Better(p, best) ELSE best

\* A heuristic's point, from anywhere in the model; only one that improves has
\* an effect.
NodeHeuristic(w) ==
  /\ pc[w] = "heur"
  /\ \E p \in Feasible : Improves(p, inc[w]) /\ Offer(w, p)
  /\ UNCHANGED <<sharedVars, stopVars, nodes, residual, gapMet, envVars, open,
                 cur, lpBound, fresh, give, why, driverVars, pc, ret>>

\* An integral relaxation closes the node.
NodeIntegral(w) ==
  /\ pc[w] = "heur"
  /\ \E p \in IntegralOptima(cur[w], lpBound[w]) : Offer(w, p)
  /\ Goto(w, "head")
  /\ UNCHANGED <<sharedVars, stopVars, nodes, residual, gapMet, envVars, open,
                 cur, lpBound, fresh, give, why, driverVars, ret>>

\* Mutant: only the up branch is created.
NodeBranchOnce(w) ==
  /\ pc[w] = "heur"
  /\ \E H \in BranchSplits(cur[w]) :
        open' = [open EXCEPT ![w] = @ \cup
                   {n \in Children(cur[w], lpBound[w], H) : n.dom \cap H = {}}]
  /\ Goto(w, "head")
  /\ UNCHANGED <<sharedVars, stopVars, sumVars, envVars, cur, lpBound, inc,
                 fresh, give, why, driverVars, ret>>

NodeBranch(w) ==
  /\ pc[w] = "heur"
  /\ \E H \in BranchSplits(cur[w]) :
        open' = [open EXCEPT ![w] = @ \cup Children(cur[w], lpBound[w], H)]
  /\ Goto(w, "head")
  /\ UNCHANGED <<sharedVars, stopVars, sumVars, envVars, cur, lpBound, inc,
                 fresh, give, why, driverVars, ret>>

------------------------------------------------------------------------------
(* leave_shared(), after the loop                                          *)

\* Mutant: a subtree that met the gap leaves no residual.
LeaveNoResidual(w) ==
  /\ pc[w] = "leave"
  /\ nodes' = nodes + fresh[w]
  /\ fresh' = [fresh EXCEPT ![w] = 0]
  /\ IF open[w] = {} \/ why[w] = "none"
     THEN UNCHANGED residual
     ELSE \E n \in Smallest(open[w]) : residual' = Lower(residual, Rounded[n.bound])
  /\ gapMet' = (gapMet \/ (open[w] # {} /\ why[w] = "none"))
  /\ open' = [open EXCEPT ![w] = {}]
  /\ IF why[w] # "none"
     THEN StopThen(w, why[w], "finish")
     ELSE Goto(w, "finish") /\ UNCHANGED <<why, ret>>
  /\ UNCHANGED <<sharedVars, stopVars, best, envVars, cur, lpBound, inc, give,
                 driverVars>>

\* A subtree that leaves no limit behind and still has open nodes met the gap.
Leave(w) ==
  /\ pc[w] = "leave"
  /\ nodes' = nodes + fresh[w]
  /\ fresh' = [fresh EXCEPT ![w] = 0]
  /\ IF open[w] = {}
     THEN UNCHANGED <<residual, gapMet>>
     ELSE /\ \E n \in Smallest(open[w]) : residual' = Lower(residual, Rounded[n.bound])
          /\ gapMet' = (gapMet \/ why[w] = "none")
  /\ open' = [open EXCEPT ![w] = {}]
  /\ IF why[w] # "none"
     THEN StopThen(w, why[w], "finish")
     ELSE Goto(w, "finish") /\ UNCHANGED <<why, ret>>
  /\ UNCHANGED <<sharedVars, stopVars, best, envVars, cur, lpBound, inc, give,
                 driverVars>>

------------------------------------------------------------------------------
(* The driver: solve_branch_and_bound_parallel()                           *)

DriverGoto(l) == dpc' = l

\* The caller's interrupt, or its callback's: stop(kInterrupt), then the signal.
DriverInterrupt ==
  /\ dpc = "wait"
  /\ exited # Cardinality(Workers)
  /\ "interrupt" \in Events /\ ~signal
  /\ DriverGoto("stopReason")
  /\ UNCHANGED <<sharedVars, stopVars, sumVars, envVars, workVars, answer, pc, ret>>

DriverStopReason ==
  /\ dpc = "stopReason"
  /\ FirstReason("interrupt")
  /\ DriverGoto("stopFlag")
  /\ UNCHANGED <<sharedVars, stopFlag, failed, thrown, sumVars, envVars, workVars,
                 answer, pc, ret>>

DriverStopFlag ==
  /\ dpc = "stopFlag"
  /\ stopFlag' = TRUE
  /\ DriverGoto("stopWake")
  /\ UNCHANGED <<sharedVars, reason, failed, thrown, sumVars, envVars, workVars,
                 answer, pc, ret>>

DriverStopWake ==
  /\ dpc = "stopWake"
  /\ asleep' = {}
  /\ DriverGoto("signal")
  /\ UNCHANGED <<queue, idle, busy, exited, stopVars, sumVars, envVars, workVars,
                 answer, pc, ret>>

DriverSignal ==
  /\ dpc = "signal"
  /\ signal' = TRUE
  /\ DriverGoto("wait")
  /\ UNCHANGED <<sharedVars, stopVars, sumVars, expired, workVars, answer, pc, ret>>

\* Mutant: the bound counts what is still queued and not the residual.
LeftOpenQueued == {Inf} \cup {Rounded[n.bound] : n \in Smallest(queue)}

\* What every subtree left behind: the residual, and the raw bounds still queued.
LeftOpen ==
  IF queue = {} THEN {residual}
  ELSE {Lower(residual, Rounded[n.bound]) : n \in Smallest(queue)}

Report(bound) ==
  LET stopped == reason # "none"
  IN  CASE thrown -> [NoAnswer EXCEPT !.status = "exception"]
        [] ~thrown /\ failed -> [NoAnswer EXCEPT !.status = "failure"]
        [] ~thrown /\ ~failed /\ best = NoPoint ->
             [status |-> IF stopped THEN "limit" ELSE "infeasible",
              stoppedBy |-> reason, x |-> NoPoint,
              bound |-> IF stopped THEN bound ELSE Inf]
        [] OTHER ->
             [status |-> IF stopped THEN "feasible" ELSE "optimal",
              stoppedBy |-> reason, x |-> best, bound |-> Lower(Obj[best], bound)]

DriverReport ==
  /\ dpc = "wait"
  /\ exited = Cardinality(Workers)
  /\ \E bound \in LeftOpen : answer' = Report(bound)
  /\ DriverGoto("done")
  /\ UNCHANGED <<sharedVars, stopVars, sumVars, envVars, workVars, pc, ret>>

\* The clock passes the time limit.
Tick ==
  /\ "time" \in Events /\ ~expired /\ dpc # "done"
  /\ expired' = TRUE
  /\ UNCHANGED <<sharedVars, stopVars, sumVars, signal, workVars, driverVars, pc, ret>>

------------------------------------------------------------------------------

Take(w) == TakeEnter(w) \/ TakeSleep(w) \/ TakeSubtree(w) \/ TakeOver(w)
           \/ WorkerExited(w) \/ FinishedSubtree(w)
StopStep(w) == StopReason(w) \/ StopFlag(w) \/ StopWake(w)
Sync(w) == HeadExhausted(w) \/ HeadTimeLimit(w) \/ SyncStopped(w) \/ SyncReport(w)
           \/ SyncAdopt(w) \/ SyncShare(w) \/ DonateCount(w) \/ DonatePush(w)
           \/ DonateDone(w)
Test(w) == TestStopped(w) \/ TestGap(w) \/ PickNode(w)
Solve(w) == NodeClosed(w) \/ NodeLimitHit(w) \/ NodeFailed(w) \/ WorkerThrows(w)
            \/ NodeSolved(w) \/ NodeHeuristic(w) \/ NodeIntegral(w) \/ NodeBranch(w)
Worker(w) == Take(w) \/ StopStep(w) \/ Sync(w) \/ Test(w) \/ Solve(w) \/ Leave(w)

DriverStop == DriverStopReason \/ DriverStopFlag \/ DriverStopWake \/ DriverSignal
Driver == DriverInterrupt \/ DriverStop \/ DriverReport

\* The answer is stated and every thread is gone.
Done == dpc = "done" /\ UNCHANGED vars

Next == (\E w \in Workers : Worker(w)) \/ Driver \/ Tick \/ Done

\* Threads are scheduled and node LPs end; neither the caller's interrupt nor
\* the clock is promised.
Fairness == (\A w \in Workers : WF_vars(Worker(w))) /\ WF_vars(DriverStop \/ DriverReport)

Spec == Init /\ [][Next]_vars /\ Fairness

------------------------------------------------------------------------------
(* Properties                                                              *)

\* Every variable keeps its type.
TypeOK ==
  /\ queue \subseteq Node /\ idle \in Int /\ busy \in Int /\ exited \in Int
  /\ asleep \subseteq Workers
  /\ stopFlag \in BOOLEAN /\ reason \in Reasons /\ failed \in BOOLEAN /\ thrown \in BOOLEAN
  /\ nodes \in Nat /\ residual \in Int /\ gapMet \in BOOLEAN
  /\ best \in Feasible \cup {NoPoint}
  /\ expired \in BOOLEAN /\ signal \in BOOLEAN
  /\ pc \in [Workers -> WorkerPCs] /\ ret \in [Workers -> {"leave", "finish"}]
  /\ open \in [Workers -> SUBSET Node] /\ cur \in [Workers -> Node]
  /\ \A w \in Workers : IsFiniteSet(open[w])
  /\ lpBound \in [Workers -> Bounds]
  /\ inc \in [Workers -> Feasible \cup {NoPoint}]
  /\ fresh \in [Workers -> {0, 1}] /\ give \in [Workers -> Int]
  /\ why \in [Workers -> Reasons]
  /\ dpc \in DriverPCs /\ answer \in Answers

\* The nodes a worker answers for: its open list and the node it is solving.
Held(w) == open[w] \cup (IF pc[w] \in {"lp", "heur"} THEN {cur[w]} ELSE {})

\* A feasible assignment is accounted for: no better than the incumbent by more
\* than the pruning margin, above the residual, or inside a node somebody has.
Accounted(p) ==
  \/ best # NoPoint /\ Obj[best] - Margin <= Obj[p]
  \/ residual <= Obj[p]
  \/ \E n \in queue : p \in n.dom
  \/ \E w \in Workers : \E n \in Held(w) : p \in n.dom

\* No interleaving of branching, giving away, taking, stopping and leaving lets
\* go of a feasible assignment: as long as no worker failed, each is accounted
\* for.  (The promise of parallel_search.hpp that no thread's early exit can
\* turn into a claim.)
NothingLost == ~failed /\ ~thrown => \A p \in Feasible : Accounted(p)

\* What a worker goes on with: after the loop its nodes are only read for their
\* bound.
LoopPCs == {"head", "adopt", "share", "donate", "push", "test", "lp", "heur"}
Live(w) == IF pc[w] \in LoopPCs THEN Held(w) ELSE {}
LiveNodes == queue \cup UNION {Live(w) : w \in Workers}

\* The workers that are inside a node.
Solving == {w \in Workers : pc[w] \in {"lp", "heur"}}

\* Nodes no two of which cover a common assignment.
Apart(S) ==
  /\ \A n \in S : n.dom # {}
  /\ \A m, n \in S : m # n => m.dom \cap n.dom = {}

\* Nothing is searched twice: a node that is given away is not kept, one that is
\* entered is not still open, and no two live nodes cover a common assignment.
NoNodeTwice ==
  /\ Apart(LiveNodes)
  /\ \A w \in Workers : Live(w) \cap queue = {}
  /\ \A v, w \in Workers : v # w => Live(v) \cap Live(w) = {}
  /\ \A w \in Solving : cur[w] \notin open[w]

\* What the driver states is true of the model: "infeasible" only when nothing is
\* feasible; "optimal" only within the gap targets of every feasible assignment;
\* and every bound it reports is below every feasible objective, up to the margin
\* nodes are pruned with.
SoundAnswer ==
  /\ answer.status = "infeasible" => Feasible = {}
  /\ answer.status = "optimal" =>
       /\ answer.x # NoPoint
       /\ \A p \in Feasible : Obj[answer.x] - GapSlack[Obj[answer.x]] <= Obj[p]
  /\ answer.status \in {"optimal", "feasible", "limit"} =>
       \A p \in Feasible : answer.bound - Margin <= Obj[p]

\* "Optimal" is claimed with a bound that proves it: the residual subtrees left
\* on their own gap tests, against older incumbents, is within the target of the
\* incumbent the search ends with.
OptimalIsProved ==
  answer.status = "optimal" => Obj[answer.x] - answer.bound <= GapSlack[Obj[answer.x]]

\* However publications race, the shared incumbent only improves.
IncumbentNeverWorsens ==
  [][best # NoPoint => best' # NoPoint /\ Obj[best'] <= Obj[best]]_vars

\* The workers all exit and the driver answers.
Termination == <>(dpc = "done")
==============================================================================
