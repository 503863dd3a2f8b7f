----------------------------- MODULE TreeSearch -----------------------------
(***************************************************************************)
(* The sequential branch and bound: BranchAndBound::run() with its domain  *)
(* stack, learned conflicts, solution pool, limits, and the checkpoint     *)
(* file it can be resumed from after a stop or a crash                     *)
(* (src/mip/branch_and_bound*.cpp, checkpoint.cpp).                        *)
(*                                                                         *)
(* A problem is the set of points its relaxation may answer with: each has *)
(* a position in half units, so that odd coordinates are fractional, and a *)
(* cost.  The node LP returns a cheapest one inside the working bounds;    *)
(* the integral ones are the feasible points, and two of them at the same  *)
(* position differ in their continuous columns.                            *)
(***************************************************************************)
EXTENDS Domains, SolutionPool

CONSTANTS
  Problems,         \* the models, each a set of points
  Top,              \* the columns' upper bounds; the lower bounds are 0
  Step,             \* the objective step of an integral point
  Margin,           \* the absolute gap target
  GapSlack,         \* the gap the two targets accept at an incumbent's objective
  PoolSize,         \* pool_size
  PoolSlack,        \* pool_gap: how much worse than the incumbent a member may be
  Options,          \* the options a search may be started with: pool_complete,
                    \* pool_diversity, node_selection, node_limit (negative is none)
  CheckpointNodes,  \* checkpoint_nodes
  ConflictMax,      \* conflict_max
  MaxRuns,          \* how many times the search is started, resumes included
  Events            \* what the environment may do

\* No point is outside the root's box, an integral one costs a multiple of the step,
\* and infinity is above every cost by more than rounding and the margin add.  Costs
\* are counted from a least one; where the objective is zero is in PoolSlack.
ASSUME TreeAssumption ==
  /\ NoCutoff \in Nat /\ Top \in [Cols -> Nat]
  /\ Step \in Nat \ {0} /\ Margin \in Nat /\ PoolSize \in Nat
  /\ PoolSlack \in [0 .. NoCutoff -> Nat] /\ GapSlack \in [0 .. NoCutoff -> Nat]
  /\ \A P \in Problems : \A v \in P :
       /\ v \in [at : [Cols -> Nat], cost : Nat]
       /\ \A j \in Cols : v.at[j] <= 2 * Top[j]
       /\ (\A j \in Cols : v.at[j] % 2 = 0) => v.cost % Step = 0
       /\ v.cost + Step + Margin <= NoCutoff
  /\ \A o \in Options :
       /\ DOMAIN o = {"complete", "diversity", "policy", "nodeLimit"}
       /\ o.complete \in BOOLEAN /\ o.diversity \in BOOLEAN /\ o.nodeLimit \in Int
       /\ o.policy \in {"hybrid", "depth-first", "best-bound", "best-estimate"}
  /\ CheckpointNodes \in Nat /\ ConflictMax \in Nat
  /\ MaxRuns \in Nat \ {0}
  /\ Events \subseteq {"time", "interrupt", "iterations", "failure", "crash", "disk"}

VARIABLES
  prob,       \* the model searched
  opt,        \* the options of this start
  dom,        \* working_'s column bounds and saved_
  open,       \* open_, oldest first
  cur,        \* the node taken from it
  lp,         \* the point its relaxation answered with
  probe,      \* the point the root dive has reached
  inc,        \* the incumbent
  pool,       \* pool_
  conflicts,  \* conflicts_
  explored,   \* nodes_explored_
  lastSave,   \* last_checkpoint_at_
  diving,     \* the hybrid's signal: the last node had children
  why,        \* the limit that ends the loop
  gapMet,     \* gap_target_met
  env,        \* the clock and the interrupt flag
  disk,       \* the file at the checkpoint's path
  runs,       \* how often the search was started
  pc,
  ret,        \* where save_checkpoint() returns to
  answer

searchVars == <<dom, open, cur, lp, probe, inc, pool, conflicts, explored, lastSave,
                diving, why, gapMet>>
vars == <<prob, opt, searchVars, env, disk, runs, pc, ret, answer>>

NegInf == -1
Inf == NoCutoff
NoInc == [x |-> <<>>, obj |-> Inf]
NoPoint == [at |-> <<>>, cost |-> Inf]
NoFile == [prob |-> {}, inc |-> NoInc, explored |-> 0, open |-> <<>>]

Position(v) == [j \in Cols |-> v.at[j] \div 2]
Fractional(v) == {j \in Cols : v.at[j] % 2 = 1}
AsEntry(v) == [x |-> Position(v), obj |-> v.cost]
FeasiblePoints(P) == {AsEntry(v) : v \in {u \in P : Fractional(u) = {}}}

\* What the relaxation may answer inside the working bounds.
Reachable(P, d) ==
  {v \in P : \A j \in Cols : 2 * d.lo[j] <= v.at[j] /\ v.at[j] <= 2 * d.hi[j]}
Cheapest(S) == {v \in S : \A u \in S : v.cost <= u.cost}

RootDomain == Domain([j \in Cols |-> 0], Top)
Root == [chain |-> <<>>, bound |-> NegInf]

NoAnswer == [status |-> "none", stoppedBy |-> "none", x |-> NoInc, bound |-> Inf,
             pool |-> <<>>]

Goto(l) == pc' = l

------------------------------------------------------------------------------
(* Bounds, pruning, the pool's cutoff                                      *)

\* round_up_to_step(); an unevaluated root stays at minus infinity.
Rounded(b) == IF b = NegInf THEN b ELSE Step * ((b + Step - 1) \div Step)

PoolCutoff ==
  LET full == Cutoff(pool, PoolSize, opt.diversity)
  IN  IF inc = NoInc THEN full ELSE Min({full, inc.obj + PoolSlack[inc.obj]})

\* Mutant: a pool search prunes on the incumbent.
CanPruneOnIncumbent(b) == inc # NoInc /\ Rounded(b) >= inc.obj - Margin

CanPrune(b) ==
  IF opt.complete THEN Rounded(b) >= PoolCutoff - Margin
  ELSE inc # NoInc /\ Rounded(b) >= inc.obj - Margin

OpenBound == Min({open[k].bound : k \in DOMAIN open})

GapTargetMet ==
  LET gap == inc.obj - Rounded(OpenBound)
  IN  inc # NoInc /\ ~opt.complete /\ gap > 0 /\ gap <= GapSlack[inc.obj]

\* offer_incumbent(), of a point that passed its checks.
OfferIncumbent(e) ==
  /\ pool' = Offer(pool, e, PoolSize, opt.diversity)
  /\ inc' = IF inc = NoInc \/ e.obj < inc.obj THEN e ELSE inc

------------------------------------------------------------------------------
(* Starting, saving, crashing, resuming                                    *)

\* Mutant: the newest open node is taken to be the one being solved.
MakeCheckpointShort ==
  [prob |-> prob, inc |-> inc, explored |-> explored,
   open |-> [k \in 1 .. Len(open) - 1 |->
               [chain |-> Reverse(open[k].chain), bound |-> open[k].bound]]]

\* Every open node with its whole domain, leaf first, and the incumbent.  The
\* options of the start are not in the file, nor is the pool.
MakeCheckpoint ==
  [prob |-> prob, inc |-> inc, explored |-> explored,
   open |-> [k \in DOMAIN open |->
               [chain |-> Reverse(open[k].chain), bound |-> open[k].bound]]]

Init ==
  /\ prob \in Problems /\ opt \in Options
  /\ dom = RootDomain /\ open = <<Root>> /\ cur = Root
  /\ lp = NoPoint /\ probe = NoPoint
  /\ inc = NoInc /\ pool = <<>> /\ conflicts = <<>>
  /\ explored = 0 /\ lastSave = -1
  /\ diving = FALSE /\ why = "none" /\ gapMet = FALSE
  /\ env = [expired |-> FALSE, signal |-> FALSE]
  /\ disk = NoFile /\ runs = 1
  /\ pc = "top" /\ ret = "limits" /\ answer = NoAnswer

------------------------------------------------------------------------------
(* The head of the loop                                                    *)

CheckpointDue ==
  /\ CheckpointNodes > 0 /\ explored > 0
  /\ explored % CheckpointNodes = 0 /\ explored # lastSave

HeadClosed ==
  /\ pc = "top" /\ open = <<>> /\ Goto("after")
  /\ UNCHANGED <<prob, opt, searchVars, env, disk, runs, ret, answer>>

HeadCheckpoint ==
  /\ pc = "top" /\ open # <<>> /\ CheckpointDue
  /\ lastSave' = explored /\ ret' = "limits" /\ Goto("saving")
  /\ UNCHANGED <<prob, opt, dom, open, cur, lp, probe, inc, pool, conflicts, explored,
                 diving, why, gapMet, env, disk, runs, answer>>

HeadOn ==
  /\ pc = "top" /\ open # <<>> /\ ~CheckpointDue /\ Goto("limits")
  /\ UNCHANGED <<prob, opt, searchVars, env, disk, runs, ret, answer>>

\* limits_.exhausted(): the clock before the node count.
Exhausted ==
  IF env.expired THEN "time"
  ELSE IF opt.nodeLimit >= 0 /\ explored >= opt.nodeLimit THEN "nodes" ELSE "none"

\* should_stop(): the caller before the clock.
ShouldStop ==
  IF env.signal THEN "interrupt" ELSE IF env.expired THEN "time" ELSE "none"

StopAt(reason) ==
  /\ why' = reason
  /\ UNCHANGED <<prob, opt, dom, open, cur, lp, probe, inc, pool, conflicts, explored,
                 lastSave, diving, gapMet, env, disk, runs, ret, answer>>

LimitReached == pc = "limits" /\ Exhausted # "none" /\ StopAt(Exhausted) /\ Goto("after")

LimitsClear == pc = "limits" /\ Exhausted = "none" /\ StopAt("none") /\ Goto("test")

Stopped == pc = "test" /\ ShouldStop # "none" /\ StopAt(ShouldStop) /\ Goto("after")

GapReached ==
  /\ pc = "test" /\ ShouldStop = "none" /\ GapTargetMet
  /\ gapMet' = TRUE /\ Goto("after")
  /\ UNCHANGED <<prob, opt, dom, open, cur, lp, probe, inc, pool, conflicts, explored,
                 lastSave, diving, why, env, disk, runs, ret, answer>>

\* take_next_open_node(): the newest, or the oldest of the smallest bounds; an
\* estimate may rank the nodes in any order.
Picks ==
  CASE opt.policy = "depth-first" \/ (opt.policy = "hybrid" /\ diving) -> {Len(open)}
    [] opt.policy = "best-estimate" -> DOMAIN open
    [] OTHER -> {Min({k \in DOMAIN open : open[k].bound = OpenBound})}

\* Mutant: a pruned node stays on the list.
PickNodeKept ==
  /\ pc = "test" /\ ShouldStop = "none" /\ ~GapTargetMet
  /\ \E k \in Picks :
       /\ IF CanPrune(open[k].bound)
          THEN Goto("top") /\ UNCHANGED <<open, dom, cur, explored>>
          ELSE /\ dom' = Enter(dom, open[k].chain) /\ explored' = explored + 1
               /\ cur' = open[k] /\ open' = RemoveAt(open, k)
               /\ Goto("entered")
  /\ diving' = FALSE
  /\ UNCHANGED <<prob, opt, lp, probe, inc, pool, conflicts, lastSave, why, gapMet, env,
                 disk, runs, ret, answer>>

PickNode ==
  /\ pc = "test" /\ ShouldStop = "none" /\ ~GapTargetMet
  /\ \E k \in Picks :
       /\ open' = RemoveAt(open, k)
       /\ IF CanPrune(open[k].bound)
          THEN Goto("top") /\ UNCHANGED <<dom, cur, explored>>
          ELSE /\ dom' = Enter(dom, open[k].chain) /\ explored' = explored + 1
               /\ cur' = open[k]
               /\ Goto("entered")
  /\ diving' = FALSE
  /\ UNCHANGED <<prob, opt, lp, probe, inc, pool, conflicts, lastSave, why, gapMet, env,
                 disk, runs, ret, answer>>

------------------------------------------------------------------------------
(* Propagation and learning                                                *)

Inner(d) == {e \in FeasiblePoints(prob) : Inside(d, e.x)}

Propagated(d) ==
  PropagateConflicts(d, conflicts, IF IsEmpty(d) THEN "bound" ELSE "no")

\* The most the rows can do: the smallest box around the assignments they allow.
TightenToHull(d) ==
  LET xs == {e.x : e \in Inner(d)}
      lower == [j \in Cols |-> Change(j, FALSE, Min({x[j] : x \in xs}))]
      upper == [j \in Cols |-> Change(j, TRUE, Max({x[j] : x \in xs}))]
  IN  TightenAll(TightenAll(d, lower), upper)

\* What handling a node leaves alone.
outside == <<prob, opt, explored, lastSave, gapMet, env, disk, runs, ret, answer>>

\* leave(), and the node's own variables go out of scope; a node to learn from
\* is still named.
Close(d) == dom' = Leave(d) /\ cur' = Root /\ lp' = NoPoint /\ probe' = NoPoint
CloseToLearn(d) == dom' = Leave(d) /\ lp' = NoPoint /\ UNCHANGED <<cur, probe>>

\* propagate() says a learned conflict holds: closed, and nothing learned.
PropagateFires ==
  /\ pc = "entered"
  /\ LET after == Propagated(dom)
     IN  after.dead = "conflict" /\ Close(after.dom)
  /\ Goto("top")
  /\ UNCHANGED <<outside, open, inc, pool, conflicts, diving, why>>

\* The box is empty, or the rows allow no assignment inside it.
PropagateInfeasible ==
  /\ pc = "entered"
  /\ LET after == Propagated(dom)
     IN  /\ after.dead = "bound" \/ (after.dead = "no" /\ Inner(after.dom) = {})
         /\ CloseToLearn(after.dom)
  /\ Goto("learn")
  /\ UNCHANGED <<outside, open, inc, pool, conflicts, diving, why>>

PropagateDone ==
  /\ pc = "entered"
  /\ LET after == Propagated(dom)
     IN  /\ after.dead = "no"
         /\ \/ dom' = after.dom
            \/ Inner(after.dom) # {} /\ dom' = TightenToHull(after.dom)
  /\ Goto("lp")
  /\ UNCHANGED <<outside, open, cur, lp, probe, inc, pool, conflicts, diving, why>>

\* verify(): the decisions, from the bounds the node was left with, are refuted
\* by the conflicts known and the rows.
Proved(literals) ==
  LET after == Propagated(TightenAll(dom, SetToSeq(literals)))
  IN  after.dead # "no" \/ Inner(after.dom) = {}

\* ConflictStore::add(): never twice, and one forgotten when full.
Added(S) ==
  IF S \in ToSet(conflicts) \/ ConflictMax = 0 THEN {conflicts}
  ELSE IF Len(conflicts) < ConflictMax THEN {Append(conflicts, S)}
  ELSE {Append(RemoveAt(conflicts, k), S) : k \in DOMAIN conflicts}

\* Mutant: what is left of the chain after minimising is not proved again.
LearnUnproved ==
  /\ pc = "learn"
  /\ \/ UNCHANGED conflicts
     \/ \E S \in SUBSET Canonical(cur.chain) : S # {} /\ conflicts' \in Added(S)
  /\ cur' = Root /\ Goto("top")
  /\ UNCHANGED <<outside, dom, open, lp, probe, inc, pool, diving, why>>

\* analyze_conflict(): the node's decisions, or fewer that are still refuted; no
\* more than that when the budget is spent or too many are left.
Learn ==
  /\ pc = "learn"
  /\ \/ UNCHANGED conflicts
     \/ \E S \in SUBSET Canonical(cur.chain) :
          S # {} /\ Proved(S) /\ conflicts' \in Added(S)
  /\ cur' = Root /\ Goto("top")
  /\ UNCHANGED <<outside, dom, open, lp, probe, inc, pool, diving, why>>

------------------------------------------------------------------------------
(* The node's relaxation                                                   *)

\* solve_node(): infeasible.
NodeInfeasible ==
  /\ pc = "lp" /\ Reachable(prob, dom) = {}
  /\ CloseToLearn(dom) /\ Goto("learn")
  /\ UNCHANGED <<outside, open, inc, pool, conflicts, diving, why>>

NodeSolved ==
  /\ pc = "lp"
  /\ \E v \in Cheapest(Reachable(prob, dom)) :
       IF CanPrune(v.cost) THEN Close(dom) /\ Goto("top")
       ELSE lp' = v /\ UNCHANGED <<dom, cur, probe>> /\ Goto("heuristics")
  /\ UNCHANGED <<outside, open, inc, pool, conflicts, diving, why>>

\* Mutant: the node whose relaxation was cut short is not put back.
NodeLimitDropped(reason) ==
  /\ Close(dom) /\ UNCHANGED open /\ why' = reason /\ Goto("after")

\* The relaxation is cut short by the engine's own should_stop() or its iteration
\* limit: the node is still open.
NodeLimit(reason) ==
  /\ Close(dom) /\ open' = Append(open, cur) /\ why' = reason /\ Goto("after")

NodeStopped ==
  /\ pc = "lp"
  /\ \E reason \in {"time", "interrupt", "iterations"} \cap Events :
       /\ reason # "iterations" => reason = ShouldStop
       /\ NodeLimit(reason)
  /\ UNCHANGED <<outside, inc, pool, conflicts, diving>>

\* Any other status ends the search with no claim.
NodeFailed ==
  /\ pc = "lp" /\ "failure" \in Events
  /\ Close(dom)
  /\ answer' = [NoAnswer EXCEPT !.status = "failed"]
  /\ Goto("done")
  /\ UNCHANGED <<prob, opt, open, inc, pool, conflicts, explored, lastSave, diving, why,
                 gapMet, env, disk, runs, ret>>

------------------------------------------------------------------------------
(* Heuristics, the root dive, branching                                    *)

\* run_node_heuristics() may propose any point; those that fail the checks of
\* offer_incumbent() change nothing.  At most one passes at a node here.
NodeHeuristics ==
  /\ pc = "heuristics"
  /\ \/ UNCHANGED <<inc, pool>>
     \/ \E e \in FeasiblePoints(prob) : OfferIncumbent(e)
  /\ Goto("solved")
  /\ UNCHANGED <<outside, dom, open, cur, lp, probe, conflicts, diving, why>>

\* An integral relaxation closes the node for the optimum; a complete pool
\* searches the rest of it.
NodeIntegral ==
  /\ pc = "solved" /\ Fractional(lp) = {}
  /\ OfferIncumbent(AsEntry(lp))
  /\ Close(dom)
  /\ open' = IF opt.complete /\ FreeColumns(dom) # {}
             THEN open \o [k \in DOMAIN Pieces(dom, cur.chain, Position(lp)) |->
                             [chain |-> Pieces(dom, cur.chain, Position(lp))[k],
                              bound |-> lp.cost]]
             ELSE open
  /\ Goto("top")
  /\ UNCHANGED <<outside, conflicts, diving, why>>

NodeFractional ==
  /\ pc = "solved" /\ Fractional(lp) # {}
  /\ probe' = (IF cur.chain = <<>> THEN lp ELSE NoPoint)
  /\ Goto(IF cur.chain = <<>> THEN "dive" ELSE "branch")
  /\ UNCHANGED <<outside, dom, open, cur, lp, inc, pool, conflicts, diving, why>>

\* dive_from_root(): a fractional column fixed where it rounds to, then solved
\* again; of the least fractional columns the first.
DiveStep ==
  /\ pc = "dive" /\ Fractional(probe) # {}
  /\ LET j == Min(Fractional(probe))
         at == (probe.at[j] + 1) \div 2
     IN  dom' = Tighten(Tighten(dom, Change(j, FALSE, at)), Change(j, TRUE, at))
  /\ \/ probe' \in Cheapest(Reachable(prob, dom')) /\ UNCHANGED pc
     \/ UNCHANGED probe /\ Goto("pump")
  /\ UNCHANGED <<outside, open, cur, lp, inc, pool, conflicts, diving, why>>

DiveFinds ==
  /\ pc = "dive" /\ Fractional(probe) = {}
  /\ OfferIncumbent(AsEntry(probe))
  /\ Goto("pump")
  /\ UNCHANGED <<outside, dom, open, cur, lp, probe, conflicts, diving, why>>

\* run_root_pump(): only while there is no incumbent.
RootPump ==
  /\ pc = "pump"
  /\ \/ UNCHANGED <<inc, pool>>
     \/ inc = NoInc /\ \E e \in FeasiblePoints(prob) : OfferIncumbent(e)
  /\ probe' = NoPoint /\ Goto("branch")
  /\ UNCHANGED <<outside, dom, open, cur, lp, conflicts, diving, why>>

Down(j) == Change(j, TRUE, lp.at[j] \div 2)
Up(j) == Change(j, FALSE, lp.at[j] \div 2 + 1)

\* Strong branching: both children of a candidate entered, solved and undone in
\* place; one candidate stands for the list of them.
StrongBranch(d, j) ==
  LET Probe(e, c) == Undo(Tighten(e, c), Len(e.saved))
  IN  Probe(Probe(d, Down(j)), Up(j))

Branch ==
  /\ pc = "branch"
  /\ \E probed, j \in Fractional(lp) :
       /\ Close(StrongBranch(dom, probed))
       /\ open' = open \o <<[chain |-> Append(cur.chain, Down(j)), bound |-> lp.cost],
                            [chain |-> Append(cur.chain, Up(j)), bound |-> lp.cost]>>
  /\ diving' = TRUE
  /\ Goto("top")
  /\ UNCHANGED <<outside, inc, pool, conflicts, why>>

------------------------------------------------------------------------------
(* The end of the loop and the answer                                      *)

\* A search stopped by a limit is saved once more.
AfterLoop ==
  /\ pc = "after"
  /\ IF why # "none" /\ open # <<>>
     THEN lastSave' = explored /\ ret' = "report" /\ Goto("saving")
     ELSE UNCHANGED <<lastSave, ret>> /\ Goto("report")
  /\ UNCHANGED <<prob, opt, dom, open, cur, lp, probe, inc, pool, conflicts, explored,
                 diving, why, gapMet, env, disk, runs, answer>>

\* Mutant: with an incumbent the open nodes are not asked.
FinalBoundClosed ==
  IF inc = NoInc THEN Min({Rounded(open[k].bound) : k \in DOMAIN open} \cup {Inf})
  ELSE inc.obj

\* What the open nodes still allow, and the incumbent.
FinalBound ==
  Min({Rounded(open[k].bound) : k \in DOMAIN open} \cup
        {IF inc = NoInc THEN Inf ELSE inc.obj})

Status ==
  IF inc = NoInc THEN IF why = "none" THEN "infeasible" ELSE "stopped"
  ELSE IF (open = <<>> /\ why = "none") \/ gapMet THEN "optimal" ELSE "feasible"

Report ==
  /\ pc = "report"
  /\ answer' =
       [status |-> Status, stoppedBy |-> why, x |-> inc,
        bound |-> IF Status = "infeasible" THEN Inf ELSE FinalBound,
        pool |-> IF inc = NoInc THEN <<>>
                 ELSE Finish(pool, inc, PoolSize, inc.obj + PoolSlack[inc.obj])]
  /\ Goto("done")
  /\ UNCHANGED <<prob, opt, searchVars, env, disk, runs, ret>>

------------------------------------------------------------------------------
(* The file, a crash, a resume                                             *)

\* write_checkpoint(): a sibling file, then the rename, which alone is seen.
SaveCommit ==
  /\ pc = "saving" /\ disk' = MakeCheckpoint /\ Goto(ret)
  /\ UNCHANGED <<prob, opt, searchVars, env, runs, ret, answer>>

SaveFails ==
  /\ pc = "saving" /\ "disk" \in Events /\ Goto(ret)
  /\ UNCHANGED <<prob, opt, searchVars, env, disk, runs, ret, answer>>

FreshSearch ==
  /\ dom' = RootDomain /\ cur' = Root /\ lp' = NoPoint /\ probe' = NoPoint
  /\ conflicts' = <<>> /\ lastSave' = -1
  /\ diving' = FALSE /\ why' = "none" /\ gapMet' = FALSE
  /\ env' = [expired |-> FALSE, signal |-> FALSE]
  /\ ret' = "limits" /\ answer' = NoAnswer

\* The process is killed: its memory is gone, the file is not.
Crash ==
  /\ "crash" \in Events /\ pc \notin {"done", "dead"}
  /\ FreshSearch /\ open' = <<>> /\ inc' = NoInc /\ pool' = <<>> /\ explored' = 0
  /\ Goto("dead")
  /\ UNCHANGED <<prob, opt, disk, runs>>

\* Mutant: the file is loaded without asking which model it was written for.
RefusedNever(p) == FALSE

\* restore_checkpoint() refuses the file of another model.
Refused(p) == p # disk.prob

\* restore_checkpoint(): each open node becomes a chain hung from a fresh root,
\* in the order of the file; the incumbent is offered again, to an empty pool.
Restore ==
  /\ open' = disk.open /\ explored' = disk.explored /\ inc' = disk.inc
  /\ pool' = IF disk.inc = NoInc THEN <<>>
             ELSE Offer(<<>>, disk.inc, PoolSize, opt'.diversity)
  /\ Goto("top")

\* A new process is started with the file, for some model.
Resume ==
  /\ pc \in {"done", "dead"} /\ disk # NoFile /\ runs < MaxRuns
  /\ runs' = runs + 1 /\ opt' \in Options /\ prob' \in Problems
  /\ FreshSearch
  /\ IF Refused(prob')
     THEN /\ open' = <<Root>> /\ inc' = NoInc /\ pool' = <<>> /\ explored' = 0
          /\ Goto("refused")
     ELSE Restore
  /\ UNCHANGED disk

------------------------------------------------------------------------------
(* The environment                                                         *)

Running == pc \notin {"done", "dead", "refused"}

Tick ==
  /\ "time" \in Events /\ Running /\ ~env.expired /\ env' = [env EXCEPT !.expired = TRUE]
  /\ UNCHANGED <<prob, opt, searchVars, disk, runs, pc, ret, answer>>

Interrupt ==
  /\ "interrupt" \in Events /\ Running /\ ~env.signal
  /\ env' = [env EXCEPT !.signal = TRUE]
  /\ UNCHANGED <<prob, opt, searchVars, disk, runs, pc, ret, answer>>

Search ==
  \/ HeadClosed \/ HeadCheckpoint \/ HeadOn \/ LimitReached \/ LimitsClear
  \/ Stopped \/ GapReached \/ PickNode
  \/ PropagateFires \/ PropagateInfeasible \/ PropagateDone \/ Learn
  \/ NodeInfeasible \/ NodeSolved \/ NodeStopped \/ NodeFailed
  \/ NodeHeuristics \/ NodeIntegral \/ NodeFractional
  \/ DiveStep \/ DiveFinds \/ RootPump \/ Branch
  \/ AfterLoop \/ SaveCommit \/ SaveFails \/ Report

Environment == Tick \/ Interrupt \/ Crash \/ Resume

\* An answer, or a dead process, is the end.
Over == ~Running /\ UNCHANGED vars

Next == Search \/ Environment \/ Over

\* The search goes on while it runs; nothing makes the environment act.  This is
\* weak fairness of Search, which is enabled exactly while the search runs: no run
\* finds a deadlock.
Fairness == []<>(~Running) \/ []<><<Search>>_vars

Spec == Init /\ [][Next]_vars /\ Fairness

------------------------------------------------------------------------------
(* Properties                                                              *)

Pcs == {"top", "saving", "limits", "test", "entered", "learn", "lp", "heuristics", "solved",
        "dive", "pump", "branch", "after", "report", "done", "dead", "refused"}

InNode == pc \in {"entered", "lp", "heuristics", "solved", "dive", "pump", "branch"}

\* The search has not been given up without an answer.
Live == pc \notin {"dead", "refused"} /\ answer.status # "failed"

\* leave() gives back the root's bounds whatever enter(), propagation, the root
\* dive and strong branching pushed, and wherever the node was left: the next
\* node, and the check of a conflict, start from the model's own box.
DomainsRestored == ~InNode => dom = RootDomain

Covers(chains, e) == \E k \in DOMAIN chains : Meets(e.x, chains[k].chain)

Taken == IF InNode THEN <<cur>> ELSE <<>>

\* Every feasible assignment is in a node still open or no better, to within the
\* absolute gap, than the incumbent: no prune, learned conflict, cut-short
\* relaxation or resume drops one.
NothingLost ==
  Live => \A e \in FeasiblePoints(prob) :
            \/ Covers(open \o Taken, e)
            \/ inc # NoInc /\ e.obj >= inc.obj - Margin

\* Whenever the process dies, the file holds a whole search: all its model's
\* assignments are in a saved node or no better than the saved incumbent.
CheckpointWhole ==
  disk # NoFile => \A e \in FeasiblePoints(disk.prob) :
                     \/ Covers(disk.open, e)
                     \/ disk.inc # NoInc /\ e.obj >= disk.inc.obj - Margin

\* A learned conflict acts on every later node, so no feasible assignment may
\* satisfy all of its decisions.
ConflictsHold ==
  Live => \A k \in DOMAIN conflicts, e \in FeasiblePoints(prob) :
            \E c \in conflicts[k] : ~Satisfies(e.x, c)

\* What run() answers is true of the model, with any limit, gap target, crash and
\* resume on the way: the point is feasible, the bound holds to within the
\* absolute gap, "optimal" is proved to within the gap targets, "infeasible" is.
SoundAnswer ==
  LET best == {e.obj : e \in FeasiblePoints(prob)}
  IN  pc = "done" /\ answer.status # "failed" =>
        /\ answer.x # NoInc => answer.x \in FeasiblePoints(prob)
        /\ answer.status = "infeasible" => best = {}
        /\ answer.status # "infeasible" => \A v \in best : answer.bound - Margin <= v
        /\ answer.status = "optimal" =>
             /\ answer.stoppedBy = "none"
             /\ answer.x.obj - answer.bound <= GapSlack[answer.x.obj]

\* A point outside the pool that has a right to be in it: better than the worst
\* member of a full pool, or room left, and inside pool_gap as `In` says.
Missing(In(_)) ==
  {e \in FeasiblePoints(prob) :
     /\ In(e) /\ ~ \E m \in ToSet(answer.pool) : m.x = e.x /\ m.obj <= e.obj
     /\ Len(answer.pool) < PoolSize \/ e.obj < Last(answer.pool).obj - Margin}

Promised ==
  /\ pc = "done" /\ answer.status = "optimal" /\ opt.complete /\ ~opt.diversity
  /\ PoolSize > 0

GapLimit(f) == f.obj + PoolSlack[f.obj]

\* A complete pool of one uninterrupted search holds the best assignments, and
\* each with its best objective, strictly inside pool_gap - of the answer and of
\* every worse solution, any of which may have been the incumbent a node was
\* pruned against: beyond 1, pool_gap accepts more as a negative objective falls.
PoolIsBest ==
  Promised /\ runs = 1 =>
    LET In(e) == \A f \in FeasiblePoints(prob) :
                   f.obj >= answer.x.obj => e.obj < GapLimit(f) - Margin
    IN  Missing(In) = {}

\* A search that is not killed answers.
Termination == Running ~> ~Running

==============================================================================
