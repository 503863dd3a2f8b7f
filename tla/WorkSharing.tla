----------------------------- MODULE WorkSharing -----------------------------
(***************************************************************************)
(* What the workers of the parallel tree search do to one another          *)
(* (SharedSearch in src/mip/parallel_search.hpp and its .cpp): the queue   *)
(* of subtrees and its condition variable, the idle and busy counts, the   *)
(* shared node count and the stop.  A subtree is only a number of open     *)
(* nodes here, and what becomes of a node is arbitrary; ParallelSearch     *)
(* says what the nodes are and implements this module.                     *)
(*                                                                         *)
(* A notify that follows an unlock is one step with the change it          *)
(* announces.  Spurious wake-ups only re-test the predicate of the wait.   *)
(***************************************************************************)
EXTENDS Integers, FiniteSets

CONSTANTS Workers,      \* the worker threads
          NodeLimit,    \* node_limit; a negative value is no limit
          MinOpen,      \* kMinOpenToDonate
          Keep,         \* the newest nodes that are never given away
          TreeNodes,    \* bound: no node branches once this many are counted
          Events        \* which outside events the environment may produce

ASSUME WorkSharingAssumption ==
  /\ IsFiniteSet(Workers) /\ Workers # {}
  /\ NodeLimit \in Int /\ TreeNodes \in Nat
  /\ MinOpen \in Nat /\ Keep \in Nat /\ Keep < MinOpen

VARIABLES queue,      \* how many subtrees are queued
          idle,       \* idle_
          busy,       \* busy_
          exited,     \* exited_
          asleep,     \* workers blocked on queue_changed_
          stopFlag,   \* stop_
          reason,     \* reason_
          failed,     \* failed_, or exception_ is set
          nodes,      \* nodes_
          expired,    \* the clock has passed time_limit
          signal,     \* stop_signal.interrupt() was called
          pc,         \* where a worker is
          ret,        \* where it continues after stop()
          open,       \* how many open nodes it has
          fresh,      \* nodes explored and not yet reported
          give,       \* nodes still to give away
          why,        \* the limit that ends its subtree
          dpc         \* where the driver is

poolVars == <<queue, idle, busy, exited, asleep>>
stopVars == <<stopFlag, reason, failed>>
envVars  == <<expired, signal>>
workVars == <<open, fresh, give, why>>
vars == <<poolVars, stopVars, nodes, envVars, workVars, pc, ret, dpc>>

Reasons == {"none", "time", "interrupt", "nodes", "iterations"}
BusyPCs == {"head", "share", "donate", "push", "test", "lp", "leave",
            "stopReason", "stopFlag", "stopWake", "finish"}
WorkerPCs == BusyPCs \cup {"take", "waiting", "exiting", "exited"}
DriverPCs == {"wait", "stopReason", "stopFlag", "stopWake", "signal", "done"}

\* The driver pushes the root before it starts the threads.
Init ==
  /\ queue = 1 /\ idle = 0 /\ busy = 0 /\ exited = 0 /\ asleep = {}
  /\ stopFlag = FALSE /\ reason = "none" /\ failed = FALSE /\ nodes = 0
  /\ expired = FALSE /\ signal = FALSE
  /\ pc = [w \in Workers |-> "take"] /\ ret = [w \in Workers |-> "finish"]
  /\ open = [w \in Workers |-> 0] /\ fresh = [w \in Workers |-> 0]
  /\ give = [w \in Workers |-> 0] /\ why = [w \in Workers |-> "none"]
  /\ dpc = "wait"

Goto(w, l) == pc' = [pc EXCEPT ![w] = l]
SetWhy(w, r) == why' = [why EXCEPT ![w] = r]
SetOpen(w, n) == open' = [open EXCEPT ![w] = n]

------------------------------------------------------------------------------
(* take(), finished_subtree() and worker_exited()                          *)

TakeEnter(w) ==
  /\ pc[w] = "take"
  /\ idle' = idle + 1
  /\ Goto(w, "waiting")
  /\ UNCHANGED <<queue, busy, exited, asleep, stopVars, nodes, envVars, workVars,
                 ret, dpc>>

Awake(w) == pc[w] = "waiting" /\ w \notin asleep

\* Nothing to take, but a busy worker could still give something away.
TakeSleep(w) ==
  /\ Awake(w)
  /\ queue = 0 /\ busy # 0 /\ ~stopFlag
  /\ asleep' = asleep \cup {w}
  /\ UNCHANGED <<queue, idle, busy, exited, stopVars, nodes, envVars, workVars,
                 pc, ret, dpc>>

TakeSubtree(w) ==
  /\ Awake(w)
  /\ ~stopFlag /\ queue > 0
  /\ queue' = queue - 1 /\ idle' = idle - 1 /\ busy' = busy + 1
  /\ SetOpen(w, 1) /\ SetWhy(w, "none")
  /\ fresh' = [fresh EXCEPT ![w] = 0]
  /\ Goto(w, "head")
  /\ UNCHANGED <<exited, asleep, stopVars, nodes, envVars, give, ret, dpc>>

\* Mutant: an empty queue is taken for the end, whoever is busy.
TakeOverWhenEmpty(w) ==
  /\ Awake(w)
  /\ stopFlag \/ queue = 0
  /\ idle' = idle - 1 /\ asleep' = {}
  /\ Goto(w, "exiting")
  /\ UNCHANGED <<queue, busy, exited, stopVars, nodes, envVars, workVars, ret, dpc>>

TakeOver(w) ==
  /\ Awake(w)
  /\ stopFlag \/ (queue = 0 /\ busy = 0)
  /\ idle' = idle - 1 /\ asleep' = {}
  /\ Goto(w, "exiting")
  /\ UNCHANGED <<queue, busy, exited, stopVars, nodes, envVars, workVars, ret, dpc>>

WorkerExited(w) ==
  /\ pc[w] = "exiting"
  /\ exited' = exited + 1 /\ asleep' = {}
  /\ Goto(w, "exited")
  /\ UNCHANGED <<queue, idle, busy, stopVars, nodes, envVars, workVars, ret, dpc>>

FinishedSubtree(w) ==
  /\ pc[w] = "finish"
  /\ busy' = busy - 1 /\ asleep' = {}
  /\ SetOpen(w, 0)
  /\ fresh' = [fresh EXCEPT ![w] = 0]
  /\ Goto(w, "take")
  /\ UNCHANGED <<queue, idle, exited, stopVars, nodes, envVars, give, why, ret, dpc>>

------------------------------------------------------------------------------
(* stop(): the first reason is kept, then the flag, then the wake-up       *)

FirstReason(r) == reason' = IF reason = "none" THEN r ELSE reason

StopThen(w, r, l) ==
  /\ SetWhy(w, r)
  /\ ret' = [ret EXCEPT ![w] = l]
  /\ Goto(w, "stopReason")

StopReason(w) ==
  /\ pc[w] = "stopReason"
  /\ FirstReason(why[w])
  /\ Goto(w, "stopFlag")
  /\ UNCHANGED <<poolVars, stopFlag, failed, nodes, envVars, workVars, ret, dpc>>

StopFlag(w) ==
  /\ pc[w] = "stopFlag"
  /\ stopFlag' = TRUE
  /\ Goto(w, "stopWake")
  /\ UNCHANGED <<poolVars, reason, failed, nodes, envVars, workVars, ret, dpc>>

\* Mutant: stop() sets the flag and does not notify.
StopWakeNobody(w) ==
  /\ pc[w] = "stopWake"
  /\ Goto(w, ret[w])
  /\ UNCHANGED <<poolVars, stopVars, nodes, envVars, workVars, ret, dpc>>

StopWake(w) ==
  /\ pc[w] = "stopWake"
  /\ asleep' = {}
  /\ Goto(w, ret[w])
  /\ UNCHANGED <<queue, idle, busy, exited, stopVars, nodes, envVars, workVars,
                 ret, dpc>>

------------------------------------------------------------------------------
(* sync_with_shared() and donate_open_nodes(), at the head of the loop     *)

HeadExhausted(w) ==
  /\ pc[w] = "head" /\ open[w] = 0
  /\ Goto(w, "leave")
  /\ UNCHANGED <<poolVars, stopVars, nodes, envVars, workVars, ret, dpc>>

\* The clock first; then a stop, which has no reason when a worker failed.
HeadStopped(w) ==
  /\ pc[w] = "head" /\ open[w] > 0
  /\ \/ expired /\ SetWhy(w, "time")
     \/ ~expired /\ stopFlag
        /\ SetWhy(w, IF reason = "none" THEN "interrupt" ELSE reason)
  /\ Goto(w, "leave")
  /\ UNCHANGED <<poolVars, stopVars, nodes, envVars, open, fresh, give, ret, dpc>>

\* The limit is looked at only when there are nodes to add.
SyncReport(w) ==
  /\ pc[w] = "head" /\ open[w] > 0 /\ ~expired /\ ~stopFlag
  /\ nodes' = nodes + fresh[w]
  /\ fresh' = [fresh EXCEPT ![w] = 0]
  /\ IF fresh[w] > 0 /\ NodeLimit >= 0 /\ nodes' >= NodeLimit
     THEN StopThen(w, "nodes", "leave")
     ELSE Goto(w, "share") /\ UNCHANGED <<why, ret>>
  /\ UNCHANGED <<poolVars, stopVars, envVars, open, give, dpc>>

Hungry == idle > 0 /\ queue = 0 /\ ~stopFlag

SyncShare(w) ==
  /\ pc[w] = "share"
  /\ Goto(w, IF Hungry /\ open[w] >= MinOpen THEN "donate" ELSE "test")
  /\ UNCHANGED <<poolVars, stopVars, nodes, envVars, workVars, ret, dpc>>

DonateCount(w) ==
  /\ pc[w] = "donate"
  /\ give' = [give EXCEPT ![w] = IF idle <= open[w] - Keep THEN idle ELSE open[w] - Keep]
  /\ Goto(w, "push")
  /\ UNCHANGED <<poolVars, stopVars, nodes, envVars, open, fresh, why, ret, dpc>>

DonatePush(w) ==
  /\ pc[w] = "push" /\ give[w] > 0
  /\ queue' = queue + 1 /\ asleep' = {}
  /\ SetOpen(w, open[w] - 1)
  /\ give' = [give EXCEPT ![w] = @ - 1]
  /\ UNCHANGED <<idle, busy, exited, stopVars, nodes, envVars, fresh, why, pc, ret, dpc>>

DonateDone(w) ==
  /\ pc[w] = "push" /\ give[w] = 0
  /\ Goto(w, "test")
  /\ UNCHANGED <<poolVars, stopVars, nodes, envVars, workVars, ret, dpc>>

------------------------------------------------------------------------------
(* The rest of the loop: what becomes of the subtree is arbitrary          *)

TestStopped(w) ==
  /\ pc[w] = "test"
  /\ signal \/ expired
  /\ SetWhy(w, IF signal THEN "interrupt" ELSE "time")
  /\ Goto(w, "leave")
  /\ UNCHANGED <<poolVars, stopVars, nodes, envVars, open, fresh, give, ret, dpc>>

TestGap(w) ==
  /\ pc[w] = "test" /\ ~signal /\ ~expired
  /\ Goto(w, "leave")
  /\ UNCHANGED <<poolVars, stopVars, nodes, envVars, workVars, ret, dpc>>

\* A node is taken and pruned on its inherited bound, or explored.
PickNode(w) ==
  /\ pc[w] = "test" /\ ~signal /\ ~expired
  /\ SetOpen(w, open[w] - 1)
  /\ \/ Goto(w, "head") /\ UNCHANGED fresh
     \/ Goto(w, "lp") /\ fresh' = [fresh EXCEPT ![w] = 1]
  /\ UNCHANGED <<poolVars, stopVars, nodes, envVars, give, why, ret, dpc>>

NodeClosed(w) ==
  /\ pc[w] = "lp"
  /\ Goto(w, "head")
  /\ UNCHANGED <<poolVars, stopVars, nodes, envVars, workVars, ret, dpc>>

NodeBranch(w) ==
  /\ pc[w] = "lp" /\ nodes < TreeNodes
  /\ SetOpen(w, open[w] + 2)
  /\ Goto(w, "head")
  /\ UNCHANGED <<poolVars, stopVars, nodes, envVars, fresh, give, why, ret, dpc>>

NodeLimitHit(w) ==
  /\ pc[w] = "lp"
  /\ \E r \in {"time", "interrupt", "iterations"} :
        /\ (r = "time" => expired) /\ (r = "interrupt" => signal)
        /\ r = "iterations" => r \in Events
        /\ SetWhy(w, r)
  /\ SetOpen(w, open[w] + 1)
  /\ Goto(w, "leave")
  /\ UNCHANGED <<poolVars, stopVars, nodes, envVars, fresh, give, ret, dpc>>

\* fail() and record_exception(), which stop without a reason; an exception in
\* a push loses the node that had left the open list.
SubtreeFails(w) ==
  /\ \/ pc[w] = "lp" /\ {"failure", "exception"} \cap Events # {} /\ open' = open
     \/ pc[w] = "push" /\ "exception" \in Events
        /\ (open' = open \/ (open[w] > 0 /\ SetOpen(w, open[w] - 1)))
  /\ failed' = TRUE
  /\ StopThen(w, "none", "finish")
  /\ UNCHANGED <<poolVars, stopFlag, reason, nodes, envVars, fresh, give, dpc>>

\* leave_shared(): the nodes are added whatever the limit says.
Leave(w) ==
  /\ pc[w] = "leave"
  /\ nodes' = nodes + fresh[w]
  /\ fresh' = [fresh EXCEPT ![w] = 0]
  /\ SetOpen(w, 0)
  /\ IF why[w] # "none"
     THEN StopThen(w, why[w], "finish")
     ELSE Goto(w, "finish") /\ UNCHANGED <<why, ret>>
  /\ UNCHANGED <<poolVars, stopVars, envVars, give, dpc>>

------------------------------------------------------------------------------
(* The driver's loop                                                       *)

DriverInterrupt ==
  /\ dpc = "wait" /\ exited # Cardinality(Workers)
  /\ "interrupt" \in Events /\ ~signal
  /\ dpc' = "stopReason"
  /\ UNCHANGED <<poolVars, stopVars, nodes, envVars, workVars, pc, ret>>

DriverStopReason ==
  /\ dpc = "stopReason"
  /\ FirstReason("interrupt")
  /\ dpc' = "stopFlag"
  /\ UNCHANGED <<poolVars, stopFlag, failed, nodes, envVars, workVars, pc, ret>>

DriverStopFlag ==
  /\ dpc = "stopFlag"
  /\ stopFlag' = TRUE
  /\ dpc' = "stopWake"
  /\ UNCHANGED <<poolVars, reason, failed, nodes, envVars, workVars, pc, ret>>

DriverStopWake ==
  /\ dpc = "stopWake"
  /\ asleep' = {}
  /\ dpc' = "signal"
  /\ UNCHANGED <<queue, idle, busy, exited, stopVars, nodes, envVars, workVars, pc, ret>>

DriverSignal ==
  /\ dpc = "signal"
  /\ signal' = TRUE
  /\ dpc' = "wait"
  /\ UNCHANGED <<poolVars, stopVars, nodes, expired, workVars, pc, ret>>

\* wait_until_done() saw every worker out of take() for good.
DriverReport ==
  /\ dpc = "wait" /\ exited = Cardinality(Workers)
  /\ dpc' = "done"
  /\ UNCHANGED <<poolVars, stopVars, nodes, envVars, workVars, pc, ret>>

Tick ==
  /\ "time" \in Events /\ ~expired /\ dpc # "done"
  /\ expired' = TRUE
  /\ UNCHANGED <<poolVars, stopVars, nodes, signal, workVars, pc, ret, dpc>>

------------------------------------------------------------------------------

Worker(w) ==
  \/ TakeEnter(w) \/ TakeSleep(w) \/ TakeSubtree(w) \/ TakeOver(w)
  \/ WorkerExited(w) \/ FinishedSubtree(w)
  \/ StopReason(w) \/ StopFlag(w) \/ StopWake(w)
  \/ HeadExhausted(w) \/ HeadStopped(w) \/ SyncReport(w) \/ SyncShare(w)
  \/ DonateCount(w) \/ DonatePush(w) \/ DonateDone(w)
  \/ TestStopped(w) \/ TestGap(w) \/ PickNode(w)
  \/ NodeClosed(w) \/ NodeBranch(w) \/ NodeLimitHit(w) \/ SubtreeFails(w)
  \/ Leave(w)

DriverStep == DriverStopReason \/ DriverStopFlag \/ DriverStopWake \/ DriverSignal
              \/ DriverReport

Done == dpc = "done" /\ UNCHANGED vars

Next == (\E w \in Workers : Worker(w)) \/ DriverInterrupt \/ DriverStep \/ Tick \/ Done

Spec == Init /\ [][Next]_vars

\* Threads are scheduled and node LPs end; neither the caller's interrupt nor
\* the clock is promised.
Fairness == (\A w \in Workers : WF_vars(Worker(w))) /\ WF_vars(DriverStep)

FairSpec == Spec /\ Fairness

------------------------------------------------------------------------------
(* Properties                                                              *)

At(L) == {w \in Workers : pc[w] \in L}

\* The counters agree with what the threads are doing, through every subtree
\* taken, finished, failed or thrown out of: take()'s "nobody busy" and hungry()'s
\* "somebody idle" are true statements.
CountersAgree ==
  /\ busy = Cardinality(At(BusyPCs))
  /\ idle = Cardinality(At({"waiting"}))
  /\ exited = Cardinality(At({"exited"}))

\* No worker leaves while another could still push a subtree it would have taken:
\* unless the search was stopped, the first exit means no work is left anywhere.
NoEarlyExit ==
  (At({"exiting", "exited"}) # {} /\ ~stopFlag) => queue = 0 /\ At(BusyPCs) = {}

\* Nobody sleeps through a change it waits for: a worker asleep while it could
\* take a subtree, or should leave, is about to be woken by a stop in progress.
NobodySleepsThrough ==
  asleep # {} =>
    \/ queue = 0 /\ busy > 0 /\ ~stopFlag
    \/ At({"stopWake"}) # {} \/ dpc = "stopWake"

==============================================================================
