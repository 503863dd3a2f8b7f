------------------------ MODULE ParallelProtocol_proofs ------------------------
(***************************************************************************)
(* What TLAPS proves of the parallel tree search, for any number of        *)
(* workers, any tree, any events and any relaxation that keeps its         *)
(* contract.  First its types, then the inductive invariant from which it  *)
(* follows that no feasible assignment is lost and that what the driver    *)
(* reports is true.  Then that the search implements the work-sharing      *)
(* protocol: every step of it is a step of the protocol or changes nothing *)
(* the protocol speaks of; the protocol's fairness is left to TLC.         *)
(***************************************************************************)
EXTENDS ParallelProtocol, FiniteSetTheorems, TLAPS

\* Rounding and the smaller of two bounds stay integers.
LEMMA BoundArithmetic ==
  /\ \A b \in Bounds : b \in Int /\ Rounded[b] \in Int
  /\ \A a, b \in Int : Lower(a, b) \in Int /\ Lower(a, b) <= a /\ Lower(a, b) <= b
  /\ \A a, b \in Int : Lower(a, b) = a \/ Lower(a, b) = b
BY BoundsAssumption, RoundingAssumption DEF Lower

\* The root, the children of a node and the better of two points are what the
\* variables that hold them hold.
LEMMA RootIsNode == RootNode \in Node /\ RootNode.dom = Points
BY BoundsAssumption DEF RootNode, Node

LEMMA ChildrenAreNodes ==
  ASSUME NEW n \in Node, NEW b \in Bounds, NEW H
  PROVE  Children(n, b, H) \subseteq Node /\ IsFiniteSet(Children(n, b, H))
<1>1. Children(n, b, H) \subseteq Node
  BY DEF Children, Node
<1>2. IsFiniteSet({[dom |-> n.dom \cap H, bound |-> b]})
  BY FS_Singleton
<1>3. IsFiniteSet({[dom |-> n.dom \cap H, bound |-> b]}
                  \cup {[dom |-> n.dom \ H, bound |-> b]})
  BY <1>2, FS_AddElement
<1> QED BY <1>1, <1>3 DEF Children

LEMMA BetterIsPoint ==
  ASSUME NEW p \in Feasible \cup {NoPoint}, NEW q \in Feasible \cup {NoPoint}
  PROVE  Better(p, q) \in Feasible \cup {NoPoint}
BY DEF Better

LEMMA NoAnswerIsAnswer == NoAnswer \in Answers
BY BoundsAssumption DEF NoAnswer, Answers, Statuses, Reasons

LEMMA InitTypeOK == Init => TypeOK
<1> SUFFICES ASSUME Init PROVE TypeOK
  OBVIOUS
<1>1. /\ queue \subseteq Node /\ residual \in Int
      /\ open \in [Workers -> SUBSET Node] /\ cur \in [Workers -> Node]
      /\ lpBound \in [Workers -> Bounds]
  BY RootIsNode, BoundsAssumption DEF Init
<1>2. /\ pc \in [Workers -> WorkerPCs] /\ ret \in [Workers -> {"leave", "finish"}]
      /\ fresh \in [Workers -> {0, 1}] /\ give \in [Workers -> Int]
      /\ why \in [Workers -> Reasons] /\ inc \in [Workers -> Feasible \cup {NoPoint}]
  BY DEF Init, WorkerPCs, Reasons
<1>3. dpc \in DriverPCs /\ answer \in Answers /\ reason \in Reasons
  BY NoAnswerIsAnswer DEF Init, DriverPCs, Reasons
<1>4. \A w \in Workers : IsFiniteSet(open[w])
  BY FS_EmptySet DEF Init
<1>5. idle \in Int /\ busy \in Int /\ exited \in Int /\ nodes \in Nat
  BY DEF Init
<1>6. /\ stopFlag \in BOOLEAN /\ failed \in BOOLEAN /\ thrown \in BOOLEAN
      /\ gapMet \in BOOLEAN /\ expired \in BOOLEAN /\ signal \in BOOLEAN
  BY Zenon DEF Init
<1>7. asleep \subseteq Workers /\ best \in Feasible \cup {NoPoint}
  BY DEF Init
<1> QED BY <1>1, <1>2, <1>3, <1>4, <1>5, <1>6, <1>7 DEF TypeOK

------------------------------------------------------------------------------

\* An open list is replaced by a finite set of nodes.
LEMMA OpenUpdate ==
  ASSUME TypeOK, NEW w \in Workers, NEW S \in SUBSET Node, IsFiniteSet(S),
         open' = [open EXCEPT ![w] = S]
  PROVE  /\ open' \in [Workers -> SUBSET Node]
         /\ \A v \in Workers : IsFiniteSet(open'[v])
BY DEF TypeOK

\* Type correctness is kept by every step of the protocol.
LEMMA TakeTypeOK ==
  ASSUME TypeOK, NEW w \in Workers, Take(w)
  PROVE  TypeOK'
<1> USE DEF TypeOK, vars, sharedVars, stopVars, sumVars, envVars, workVars, driverVars,
            Goto, WorkerPCs, BusyPCs
<1>1. CASE TakeEnter(w)
  BY <1>1 DEF TakeEnter
<1>2. CASE TakeSleep(w)
  BY <1>2 DEF TakeSleep, Awake
<1>3. CASE TakeSubtree(w)
  <2> PICK n \in Smallest(queue) : open' = [open EXCEPT ![w] = {n}] /\ queue' = queue \ {n}
    BY <1>3 DEF TakeSubtree
  <2>1. /\ open' \in [Workers -> SUBSET Node]
        /\ \A v \in Workers : IsFiniteSet(open'[v])
    <3>1. IsFiniteSet({n}) /\ {n} \in SUBSET Node
      BY FS_Singleton DEF Smallest
    <3> QED BY <3>1, OpenUpdate
  <2>2. /\ pc' \in [Workers -> WorkerPCs] /\ why' \in [Workers -> Reasons]
        /\ inc' \in [Workers -> Feasible \cup {NoPoint}]
        /\ fresh' \in [Workers -> {0, 1}] /\ idle' \in Int /\ busy' \in Int
    BY <1>3 DEF TakeSubtree, Reasons
  <2> QED BY <1>3, <2>1, <2>2 DEF TakeSubtree
<1>4. CASE TakeOver(w)
  BY <1>4 DEF TakeOver, Awake
<1>5. CASE WorkerExited(w)
  BY <1>5 DEF WorkerExited
<1>6. CASE FinishedSubtree(w)
  BY <1>6, FS_EmptySet DEF FinishedSubtree
<1> QED BY <1>1, <1>2, <1>3, <1>4, <1>5, <1>6 DEF Take

LEMMA StopTypeOK ==
  ASSUME TypeOK, NEW w \in Workers, StopStep(w)
  PROVE  TypeOK'
<1> USE DEF TypeOK, vars, sharedVars, stopVars, sumVars, envVars, workVars, driverVars,
            Goto, WorkerPCs, BusyPCs
<1>1. CASE StopReason(w)
  BY <1>1 DEF StopReason, FirstReason
<1>2. CASE StopFlag(w)
  BY <1>2 DEF StopFlag
<1>3. CASE StopWake(w)
  <2>1. ret[w] \in WorkerPCs
    BY DEF WorkerPCs
  <2> QED BY <1>3, <2>1 DEF StopWake
<1> QED BY <1>1, <1>2, <1>3 DEF StopStep

LEMMA SyncTypeOK ==
  ASSUME TypeOK, NEW w \in Workers, Sync(w)
  PROVE  TypeOK'
<1> USE DEF TypeOK, vars, sharedVars, stopVars, sumVars, envVars, workVars, driverVars,
            Goto, WorkerPCs, BusyPCs, LeaveWith, Reasons
<1>1. CASE HeadExhausted(w)
  BY <1>1 DEF HeadExhausted
<1>2. CASE HeadTimeLimit(w)
  BY <1>2 DEF HeadTimeLimit
<1>3. CASE SyncStopped(w)
  BY <1>3 DEF SyncStopped
<1>4. CASE SyncReport(w)
  BY <1>4 DEF SyncReport, StopThen
<1>5. CASE SyncAdopt(w)
  BY <1>5, BetterIsPoint DEF SyncAdopt
<1>6. CASE SyncShare(w)
  BY <1>6 DEF SyncShare
<1>7. CASE DonateCount(w)
  <2>1. Cardinality(open[w]) \in Nat
    BY FS_CardinalityType
  <2>2. Lower(idle, Cardinality(open[w]) - Keep) \in Int
    BY <2>1, WorkersAssumption DEF Lower
  <2> QED BY <1>7, <2>2 DEF DonateCount
<1>8. CASE DonatePush(w)
  BY <1>8, FS_RemoveElement DEF DonatePush
<1>9. CASE DonateDone(w)
  BY <1>9 DEF DonateDone
<1> QED BY <1>1, <1>2, <1>3, <1>4, <1>5, <1>6, <1>7, <1>8, <1>9 DEF Sync

LEMMA TestTypeOK ==
  ASSUME TypeOK, NEW w \in Workers, Test(w)
  PROVE  TypeOK'
<1> USE DEF TypeOK, vars, sharedVars, stopVars, sumVars, envVars, workVars, driverVars,
            Goto, WorkerPCs, BusyPCs, LeaveWith, Reasons
<1>1. CASE TestStopped(w)
  BY <1>1 DEF TestStopped
<1>2. CASE TestGap(w)
  BY <1>2 DEF TestGap
<1>3. CASE PickNode(w)
  <2> PICK n \in open[w] :
          /\ open' = [open EXCEPT ![w] = @ \ {n}]
          /\ IF CanPrune(n.bound, inc[w])
             THEN Goto(w, "head") /\ UNCHANGED <<cur, fresh>>
             ELSE /\ Goto(w, "lp")
                  /\ cur' = [cur EXCEPT ![w] = n]
                  /\ fresh' = [fresh EXCEPT ![w] = 1]
    BY <1>3 DEF PickNode
  <2>1. /\ open' \in [Workers -> SUBSET Node]
        /\ \A v \in Workers : IsFiniteSet(open'[v])
    BY OpenUpdate, FS_RemoveElement
  <2>2. /\ pc' \in [Workers -> WorkerPCs] /\ cur' \in [Workers -> Node]
        /\ fresh' \in [Workers -> {0, 1}]
    OBVIOUS
  <2> QED BY <1>3, <2>1, <2>2 DEF PickNode
<1> QED BY <1>1, <1>2, <1>3 DEF Test

LEMMA SolveTypeOK ==
  ASSUME TypeOK, NEW w \in Workers, Solve(w)
  PROVE  TypeOK'
<1> USE DEF TypeOK, vars, sharedVars, stopVars, sumVars, envVars, workVars, driverVars,
            Goto, WorkerPCs, BusyPCs, LeaveWith, Reasons, StopThen
<1>1. CASE NodeClosed(w)
  BY <1>1 DEF NodeClosed
<1>2. CASE NodeLimitHit(w)
  <2> PICK r \in {"time", "interrupt", "iterations"} : LeaveWith(w, r)
    BY <1>2 DEF NodeLimitHit
  <2>1. /\ open' \in [Workers -> SUBSET Node]
        /\ \A v \in Workers : IsFiniteSet(open'[v])
    <3>1. IsFiniteSet(open[w])
      OBVIOUS
    <3>2. IsFiniteSet(open[w] \cup {cur[w]})
      BY <3>1, FS_AddElement
    <3>3. open[w] \cup {cur[w]} \in SUBSET Node
      OBVIOUS
    <3> QED BY <1>2, <3>2, <3>3, OpenUpdate DEF NodeLimitHit
  <2>2. why' \in [Workers -> Reasons]
    OBVIOUS
  <2>3. pc' \in [Workers -> WorkerPCs]
    OBVIOUS
  <2>4. /\ UNCHANGED <<sharedVars, stopVars, sumVars, envVars>>
        /\ UNCHANGED <<cur, lpBound, inc, fresh, give, driverVars, ret>>
    BY <1>2 DEF NodeLimitHit
  <2> HIDE DEF LeaveWith, Goto
  <2> QED BY <2>1, <2>2, <2>3, <2>4
<1>3. CASE NodeFailed(w)
  BY <1>3 DEF NodeFailed
<1>4. CASE WorkerThrows(w)
  <2>1. /\ open' \in [Workers -> SUBSET Node]
        /\ \A v \in Workers : IsFiniteSet(open'[v])
    <3>1. CASE open' = open
      BY <3>1
    <3>2. CASE \E n \in open[w] : open' = [open EXCEPT ![w] = @ \ {n}]
      BY <3>2, OpenUpdate, FS_RemoveElement
    <3> QED BY <1>4, <3>1, <3>2 DEF WorkerThrows
  <2> QED BY <1>4, <2>1 DEF WorkerThrows
<1>5. CASE NodeSolved(w)
  BY <1>5 DEF NodeSolved, RelaxationBounds
<1>6. CASE NodeHeuristic(w)
  BY <1>6, BetterIsPoint DEF NodeHeuristic, Offer
<1>7. CASE NodeIntegral(w)
  BY <1>7, BetterIsPoint DEF NodeIntegral, Offer, IntegralOptima
<1>8. CASE NodeBranch(w)
  <2> PICK H \in BranchSplits(cur[w]) :
          open' = [open EXCEPT ![w] = @ \cup Children(cur[w], lpBound[w], H)]
    BY <1>8 DEF NodeBranch
  <2>2. /\ Children(cur[w], lpBound[w], H) \subseteq Node
        /\ IsFiniteSet(Children(cur[w], lpBound[w], H))
    BY ChildrenAreNodes
  <2>3. IsFiniteSet(open[w] \cup Children(cur[w], lpBound[w], H))
    BY <2>2, FS_Union
  <2>1. /\ open' \in [Workers -> SUBSET Node]
        /\ \A v \in Workers : IsFiniteSet(open'[v])
    BY <2>2, <2>3, OpenUpdate
  <2> QED BY <1>8, <2>1 DEF NodeBranch
<1> QED BY <1>1, <1>2, <1>3, <1>4, <1>5, <1>6, <1>7, <1>8 DEF Solve

LEMMA LeaveTypeOK ==
  ASSUME TypeOK, NEW w \in Workers, Leave(w)
  PROVE  TypeOK'
<1> USE DEF TypeOK, vars, sharedVars, stopVars, sumVars, envVars, workVars, driverVars,
            Goto, WorkerPCs, BusyPCs, Reasons, StopThen, Leave
<1>1. residual' \in Int
  <2>1. \A n \in Node : Lower(residual, Rounded[n.bound]) \in Int
    BY BoundArithmetic DEF Node
  <2> QED BY <2>1 DEF Smallest
<1>2. gapMet' \in BOOLEAN
  OBVIOUS
<1> QED BY <1>1, <1>2, FS_EmptySet

\* What the driver reports is an answer.
LEMMA ReportIsAnswer ==
  ASSUME TypeOK, NEW bound \in LeftOpen
  PROVE  Report(bound) \in Answers
<1>1. bound \in Int
  BY BoundArithmetic DEF LeftOpen, TypeOK, Smallest, Node
<1>2. best # NoPoint => Lower(Obj[best], bound) \in Int
  BY <1>1, BoundArithmetic, BoundsAssumption, PointsAssumption DEF TypeOK
<1> QED BY <1>1, <1>2, BoundsAssumption
        DEF Report, NoAnswer, Answers, Statuses, TypeOK, Reasons

LEMMA DriverTypeOK ==
  ASSUME TypeOK, Driver
  PROVE  TypeOK'
<1> USE DEF TypeOK, vars, sharedVars, stopVars, sumVars, envVars, workVars, driverVars,
            DriverGoto, DriverPCs, Reasons
<1>1. CASE DriverInterrupt
  BY <1>1 DEF DriverInterrupt
<1>2. CASE DriverStopReason
  BY <1>2 DEF DriverStopReason, FirstReason
<1>3. CASE DriverStopFlag
  BY <1>3 DEF DriverStopFlag
<1>4. CASE DriverStopWake
  BY <1>4 DEF DriverStopWake
<1>5. CASE DriverSignal
  BY <1>5 DEF DriverSignal
<1>6. CASE DriverReport
  BY <1>6, ReportIsAnswer DEF DriverReport
<1> QED BY <1>1, <1>2, <1>3, <1>4, <1>5, <1>6 DEF Driver, DriverStop

LEMMA NextTypeOK == TypeOK /\ [Next]_vars => TypeOK'
<1> SUFFICES ASSUME TypeOK, [Next]_vars PROVE TypeOK'
  OBVIOUS
<1>1. ASSUME NEW w \in Workers, Worker(w) PROVE TypeOK'
  BY <1>1, TakeTypeOK, StopTypeOK, SyncTypeOK, TestTypeOK, SolveTypeOK, LeaveTypeOK
  DEF Worker
<1>2. CASE Tick
  BY <1>2 DEF Tick, TypeOK, sharedVars, stopVars, sumVars, workVars, driverVars
<1>3. CASE UNCHANGED vars
  BY <1>3 DEF TypeOK, vars, sharedVars, stopVars, sumVars, envVars, workVars, driverVars
<1> QED BY <1>1, <1>2, <1>3, DriverTypeOK DEF Next, Done

\* Every reachable state of the search is well typed.
THEOREM TypeCorrect == Spec => []TypeOK
BY InitTypeOK, NextTypeOK, PTL DEF Spec

------------------------------------------------------------------------------
(* The inductive invariant                                                 *)

StopPCs == {"stopReason", "stopFlag", "stopWake"}
OutsidePCs == {"take", "waiting", "exiting", "exited"}

\* Where a worker is says what it still holds, and a stop in progress knows
\* its reason unless somebody failed.
ControlInv ==
  /\ \A w \in Workers : pc[w] \in OutsidePCs => open[w] = {}
  /\ \A w \in Workers :
        (pc[w] = "finish" \/ (pc[w] \in StopPCs /\ ret[w] = "finish"))
          => open[w] = {} \/ failed \/ thrown
  /\ \A w \in Workers : pc[w] \in StopPCs /\ ret[w] = "leave" => why[w] # "none"
  /\ \A w \in Workers : pc[w] = "stopReason" /\ why[w] = "none" => failed \/ thrown
  /\ \A w \in Workers : pc[w] = "stopFlag" => reason # "none" \/ failed \/ thrown
  /\ dpc = "stopFlag" => reason # "none"
  /\ stopFlag => reason # "none" \/ failed \/ thrown

\* The counts are those of the threads, and without a stop the first exit means
\* that there is no work left.
CountInv ==
  /\ busy = Cardinality({w \in Workers : pc[w] \in BusyPCs})
  /\ exited = Cardinality({w \in Workers : pc[w] = "exited"})
  /\ ~stopFlag /\ (\E w \in Workers : pc[w] \in {"exiting", "exited"}) =>
        queue = {} /\ \A w \in Workers : pc[w] \notin BusyPCs

\* Every bound in the search is honest.
BoundInv ==
  /\ \A n \in queue : BoundHolds(n)
  /\ \A w \in Workers : \A n \in Held(w) : BoundHolds(n)
  /\ \A w \in Workers : pc[w] = "heur" =>
        \A p \in cur[w].dom \cap Feasible : lpBound[w] <= Obj[p]

\* No worker knows a better point than the shared incumbent.
PointInv ==
  \A w \in Workers : inc[w] # NoPoint => best # NoPoint /\ Obj[best] <= Obj[inc[w]]

\* A subtree that ends without a limit met the gap, so that as long as no limit
\* is known or about to be, the residual is within the gap of the incumbent.
WithinGap(r) == best # NoPoint /\ Obj[best] - GapSlack[Obj[best]] <= r

GapInv ==
  /\ \A w \in Workers : pc[w] = "leave" /\ why[w] = "none" /\ open[w] # {} =>
        \E n \in Smallest(open[w]) : GapMet(n.bound, inc[w])
  /\ reason = "none" /\ (\A w \in Workers : ~(pc[w] = "stopReason" /\ why[w] # "none")) =>
        residual = Inf \/ WithinGap(residual)

IInv ==
  /\ TypeOK
  /\ ControlInv
  /\ CountInv
  /\ BoundInv
  /\ PointInv
  /\ GapInv
  /\ NothingLost
  /\ SoundAnswer
  /\ OptimalIsProved

------------------------------------------------------------------------------
(* ControlInv                                                              *)

LEMMA WorkerControl ==
  ASSUME TypeOK, ControlInv, NEW w \in Workers, Worker(w)
  PROVE  ControlInv'
<1> USE DEF TypeOK, ControlInv, StopPCs, OutsidePCs, sharedVars, stopVars, sumVars,
            envVars, workVars, driverVars, Goto, LeaveWith, StopThen
<1>1. CASE TakeEnter(w)
  BY <1>1 DEF TakeEnter
<1>2. CASE TakeSleep(w)
  BY <1>2 DEF TakeSleep, Awake
<1>3. CASE TakeSubtree(w)
  BY <1>3 DEF TakeSubtree, Awake
<1>4. CASE TakeOver(w)
  BY <1>4 DEF TakeOver, Awake
<1>5. CASE WorkerExited(w)
  BY <1>5 DEF WorkerExited
<1>6. CASE FinishedSubtree(w)
  BY <1>6 DEF FinishedSubtree
<1>7. CASE StopReason(w)
  BY <1>7 DEF StopReason, FirstReason
<1>8. CASE StopFlag(w)
  BY <1>8 DEF StopFlag
<1>9. CASE StopWake(w)
  BY <1>9 DEF StopWake
<1>10. CASE HeadExhausted(w)
  BY <1>10 DEF HeadExhausted
<1>11. CASE HeadTimeLimit(w)
  BY <1>11 DEF HeadTimeLimit
<1>12. CASE SyncStopped(w)
  BY <1>12 DEF SyncStopped
<1>13. CASE SyncReport(w)
  BY <1>13 DEF SyncReport
<1>14. CASE SyncAdopt(w)
  BY <1>14 DEF SyncAdopt
<1>15. CASE SyncShare(w)
  BY <1>15 DEF SyncShare
<1>16. CASE DonateCount(w)
  BY <1>16 DEF DonateCount
<1>17. CASE DonatePush(w)
  BY <1>17 DEF DonatePush
<1>18. CASE DonateDone(w)
  BY <1>18 DEF DonateDone
<1>19. CASE TestStopped(w)
  BY <1>19 DEF TestStopped
<1>20. CASE TestGap(w)
  BY <1>20 DEF TestGap
<1>21. CASE PickNode(w)
  BY <1>21 DEF PickNode
<1>22. CASE NodeClosed(w)
  BY <1>22 DEF NodeClosed
<1>23. CASE NodeLimitHit(w)
  BY <1>23 DEF NodeLimitHit
<1>24. CASE NodeFailed(w)
  BY <1>24 DEF NodeFailed
<1>25. CASE WorkerThrows(w)
  BY <1>25 DEF WorkerThrows
<1>26. CASE NodeSolved(w)
  BY <1>26 DEF NodeSolved
<1>27. CASE NodeHeuristic(w)
  BY <1>27 DEF NodeHeuristic
<1>28. CASE NodeIntegral(w)
  BY <1>28 DEF NodeIntegral
<1>29. CASE NodeBranch(w)
  BY <1>29 DEF NodeBranch
<1>30. CASE Leave(w)
  BY <1>30 DEF Leave
<1> QED BY <1>1, <1>2, <1>3, <1>4, <1>5, <1>6, <1>7, <1>8, <1>9, <1>10, <1>11, <1>12,
           <1>13, <1>14, <1>15, <1>16, <1>17, <1>18, <1>19, <1>20, <1>21, <1>22, <1>23,
           <1>24, <1>25, <1>26, <1>27, <1>28, <1>29, <1>30
        DEF Worker, Take, StopStep, Sync, Test, Solve

LEMMA DriverControl ==
  ASSUME TypeOK, ControlInv, Driver
  PROVE  ControlInv'
<1> USE DEF TypeOK, ControlInv, StopPCs, OutsidePCs, sharedVars, stopVars, sumVars,
            envVars, workVars, driverVars, DriverGoto
<1>1. CASE DriverInterrupt
  BY <1>1 DEF DriverInterrupt
<1>2. CASE DriverStopReason
  BY <1>2 DEF DriverStopReason, FirstReason
<1>3. CASE DriverStopFlag
  BY <1>3 DEF DriverStopFlag
<1>4. CASE DriverStopWake
  BY <1>4 DEF DriverStopWake
<1>5. CASE DriverSignal
  BY <1>5 DEF DriverSignal
<1>6. CASE DriverReport
  BY <1>6 DEF DriverReport
<1> QED BY <1>1, <1>2, <1>3, <1>4, <1>5, <1>6 DEF Driver, DriverStop

------------------------------------------------------------------------------
(* CountInv                                                                *)

\* What one thread's step does to the number of threads at some labels.
LEMMA Counting ==
  ASSUME TypeOK, NEW w \in Workers, NEW l, NEW L, Goto(w, l)
  PROVE  LET now  == {v \in Workers : pc[v] \in L}
             then == {v \in Workers : pc'[v] \in L}
         IN  /\ (pc[w] \in L <=> l \in L) => then = now
             /\ pc[w] \notin L /\ l \in L => Cardinality(then) = Cardinality(now) + 1
             /\ pc[w] \in L /\ l \notin L => Cardinality(then) = Cardinality(now) - 1
<1> DEFINE now  == {v \in Workers : pc[v] \in L}
           then == {v \in Workers : pc'[v] \in L}
<1>1. pc' = [pc EXCEPT ![w] = l] /\ pc \in [Workers -> WorkerPCs]
  BY DEF Goto, TypeOK
<1>2. IsFiniteSet(now)
  BY FS_Subset, WorkersAssumption
<1>3. (pc[w] \in L <=> l \in L) => then = now
  BY <1>1
<1>4. ASSUME pc[w] \notin L, l \in L PROVE Cardinality(then) = Cardinality(now) + 1
  <2>1. then = now \cup {w} /\ w \notin now
    BY <1>1, <1>4
  <2> QED BY <2>1, <1>2, FS_AddElement
<1>5. ASSUME pc[w] \in L, l \notin L PROVE Cardinality(then) = Cardinality(now) - 1
  <2>1. then = now \ {w} /\ w \in now
    BY <1>1, <1>5
  <2> QED BY <2>1, <1>2, FS_RemoveElement
<1> QED BY <1>3, <1>4, <1>5

\* A worker that stays busy changes neither count; if another has exited, the
\* search was stopped.
LEMMA BusyStep ==
  ASSUME TypeOK, CountInv, NEW w \in Workers, pc[w] \in BusyPCs,
         \E l \in BusyPCs : Goto(w, l), UNCHANGED <<busy, exited>>,
         stopFlag => stopFlag'
  PROVE  CountInv'
<1> PICK l \in BusyPCs : Goto(w, l)
  OBVIOUS
<1>1. pc' = [pc EXCEPT ![w] = l] /\ pc \in [Workers -> WorkerPCs]
  BY DEF Goto, TypeOK
<1>2. pc[w] \notin {"exited", "exiting"} /\ l \notin {"exited", "exiting"}
  BY DEF BusyPCs
<1>3. /\ {v \in Workers : pc'[v] \in BusyPCs} = {v \in Workers : pc[v] \in BusyPCs}
      /\ {v \in Workers : pc'[v] = "exited"} = {v \in Workers : pc[v] = "exited"}
  BY <1>1, <1>2
<1>4. stopFlag' \/ \A v \in Workers : pc[v] \notin {"exited", "exiting"}
  BY DEF CountInv
<1>5. stopFlag' \/ \A v \in Workers : pc'[v] \notin {"exited", "exiting"}
  BY <1>1, <1>2, <1>4
<1> QED BY <1>3, <1>5 DEF CountInv

\* Nobody is busy when busy_ is zero.
LEMMA NobodyBusy ==
  ASSUME CountInv, busy = 0
  PROVE  \A v \in Workers : pc[v] \notin BusyPCs
<1>1. IsFiniteSet({v \in Workers : pc[v] \in BusyPCs})
  BY FS_Subset, WorkersAssumption
<1> QED BY <1>1, FS_EmptySet DEF CountInv

LEMMA TakeCount ==
  ASSUME TypeOK, CountInv, NEW w \in Workers, Take(w)
  PROVE  CountInv'
<1> DEFINE Busy == {v \in Workers : pc[v] \in BusyPCs}
           Gone == {v \in Workers : pc[v] \in {"exited"}}
<1>a. \A l : Goto(w, l) => pc' = [pc EXCEPT ![w] = l] /\ pc \in [Workers -> WorkerPCs]
  BY DEF Goto, TypeOK
<1>b. busy = Cardinality(Busy) /\ exited = Cardinality(Gone)
  BY DEF CountInv
<1>1. CASE TakeEnter(w)
  <2>1. pc[w] = "take" /\ Goto(w, "waiting") /\ UNCHANGED <<busy, exited, queue, stopFlag>>
    BY <1>1 DEF TakeEnter, stopVars
  <2>2. Busy' = Busy /\ Gone' = Gone
    BY <2>1, <1>a DEF BusyPCs
  <2> QED BY <2>1, <2>2, <1>a DEF CountInv, BusyPCs
<1>2. CASE TakeSleep(w)
  BY <1>2 DEF TakeSleep, CountInv, stopVars
<1>3. CASE TakeSubtree(w)
  <2>1. /\ pc[w] = "waiting" /\ Goto(w, "head") /\ ~stopFlag /\ queue # {}
        /\ busy' = busy + 1 /\ exited' = exited
    BY <1>3 DEF TakeSubtree, Awake, Smallest
  <2>2. Cardinality(Busy') = Cardinality(Busy) + 1
    <3>1. pc[w] \notin BusyPCs /\ "head" \in BusyPCs
      BY <2>1 DEF BusyPCs
    <3> QED BY <2>1, <3>1, Counting
  <2>3. Gone' = Gone
    BY <2>1, <1>a
  <2>4. \A v \in Workers : pc[v] \notin {"exiting", "exited"}
    BY <2>1 DEF CountInv
  <2>5. \A v \in Workers : pc'[v] \notin {"exiting", "exited"}
    BY <2>1, <2>4, <1>a
  <2> QED BY <2>1, <2>2, <2>3, <2>5, <1>b DEF CountInv
<1>4. CASE TakeOver(w)
  <2>1. /\ pc[w] = "waiting" /\ Goto(w, "exiting")
        /\ stopFlag \/ (queue = {} /\ busy = 0)
        /\ UNCHANGED <<busy, exited, queue, stopFlag>>
    BY <1>4 DEF TakeOver, Awake, stopVars
  <2>2. Busy' = Busy /\ Gone' = Gone
    BY <2>1, <1>a DEF BusyPCs
  <2>3. stopFlag \/ \A v \in Workers : pc[v] \notin BusyPCs
    BY <2>1, NobodyBusy
  <2>4. stopFlag \/ \A v \in Workers : pc'[v] \notin BusyPCs
    BY <2>1, <2>3, <1>a DEF BusyPCs
  <2> QED BY <2>1, <2>2, <2>4 DEF CountInv
<1>5. CASE WorkerExited(w)
  <2>1. /\ pc[w] = "exiting" /\ Goto(w, "exited") /\ exited' = exited + 1
        /\ UNCHANGED <<busy, queue, stopFlag>>
    BY <1>5 DEF WorkerExited, stopVars
  <2>2. Busy' = Busy
    BY <2>1, <1>a DEF BusyPCs
  <2>3. Cardinality(Gone') = Cardinality(Gone) + 1
    BY <2>1, Counting
  <2> QED BY <2>1, <2>2, <2>3, <1>a, <1>b DEF CountInv, BusyPCs
<1>6. CASE FinishedSubtree(w)
  <2>1. /\ pc[w] = "finish" /\ Goto(w, "take") /\ busy' = busy - 1
        /\ UNCHANGED <<exited, queue, stopFlag>>
    BY <1>6 DEF FinishedSubtree, stopVars
  <2>2. Cardinality(Busy') = Cardinality(Busy) - 1
    <3>1. pc[w] \in BusyPCs /\ "take" \notin BusyPCs
      BY <2>1 DEF BusyPCs
    <3> QED BY <2>1, <3>1, Counting
  <2>3. Gone' = Gone
    BY <2>1, <1>a
  <2>4. pc[w] \in BusyPCs
    BY <2>1 DEF BusyPCs
  <2> QED BY <2>1, <2>2, <2>3, <2>4, <1>a, <1>b DEF CountInv
<1> QED BY <1>1, <1>2, <1>3, <1>4, <1>5, <1>6 DEF Take

LEMMA WorkerCount ==
  ASSUME TypeOK, CountInv, NEW w \in Workers, Worker(w)
  PROVE  CountInv'
<1> USE DEF BusyPCs, StopThen, LeaveWith, sharedVars, stopVars
<1>1. CASE StopStep(w)
  <2>1. pc[w] \in BusyPCs /\ UNCHANGED <<busy, exited>> /\ (stopFlag => stopFlag')
    BY <1>1 DEF StopStep, StopReason, StopFlag, StopWake
  <2>2. \E l \in BusyPCs : Goto(w, l)
    BY <1>1 DEF StopStep, StopReason, StopFlag, StopWake, TypeOK
  <2> QED BY <2>1, <2>2, BusyStep
<1>2. CASE Sync(w)
  <2>1. pc[w] \in BusyPCs /\ UNCHANGED <<busy, exited>> /\ (stopFlag => stopFlag')
    BY <1>2 DEF Sync, HeadExhausted, HeadTimeLimit, SyncStopped, SyncReport, SyncAdopt,
                SyncShare, DonateCount, DonatePush, DonateDone
  <2>2. (\E l \in BusyPCs : Goto(w, l)) \/ UNCHANGED pc
    BY <1>2 DEF Sync, HeadExhausted, HeadTimeLimit, SyncStopped, SyncReport, SyncAdopt,
                SyncShare, DonateCount, DonatePush, DonateDone
  <2>3. UNCHANGED pc => Goto(w, pc[w])
    BY DEF Goto, TypeOK
  <2> QED BY <2>1, <2>2, <2>3, BusyStep
<1>3. CASE Test(w)
  <2>1. pc[w] \in BusyPCs /\ UNCHANGED <<busy, exited>> /\ (stopFlag => stopFlag')
    BY <1>3 DEF Test, TestStopped, TestGap, PickNode
  <2>2. \E l \in BusyPCs : Goto(w, l)
    BY <1>3 DEF Test, TestStopped, TestGap, PickNode
  <2> QED BY <2>1, <2>2, BusyStep
<1>4. CASE Solve(w)
  <2>1. pc[w] \in BusyPCs /\ UNCHANGED <<busy, exited>> /\ (stopFlag => stopFlag')
    BY <1>4 DEF Solve, NodeClosed, NodeLimitHit, NodeFailed, WorkerThrows, NodeSolved,
                NodeHeuristic, NodeIntegral, NodeBranch
  <2>2. (\E l \in BusyPCs : Goto(w, l)) \/ UNCHANGED pc
    BY <1>4 DEF Solve, NodeClosed, NodeLimitHit, NodeFailed, WorkerThrows, NodeSolved,
                NodeHeuristic, NodeIntegral, NodeBranch
  <2>3. UNCHANGED pc => Goto(w, pc[w])
    BY DEF Goto, TypeOK
  <2> QED BY <2>1, <2>2, <2>3, BusyStep
<1>5. CASE Leave(w)
  <2>1. pc[w] \in BusyPCs /\ UNCHANGED <<busy, exited>> /\ (stopFlag => stopFlag')
    BY <1>5 DEF Leave
  <2>2. \E l \in BusyPCs : Goto(w, l)
    BY <1>5 DEF Leave
  <2> QED BY <2>1, <2>2, BusyStep
<1> QED BY <1>1, <1>2, <1>3, <1>4, <1>5, TakeCount DEF Worker

LEMMA DriverCount ==
  ASSUME TypeOK, CountInv, Driver
  PROVE  CountInv'
<1>1. UNCHANGED <<pc, busy, exited, queue>> /\ (stopFlag => stopFlag')
  BY DEF Driver, DriverStop, DriverInterrupt, DriverStopReason, DriverStopFlag,
         DriverStopWake, DriverSignal, DriverReport, sharedVars, stopVars
<1> QED BY <1>1 DEF CountInv

------------------------------------------------------------------------------
(* What a step leaves alone                                                *)

\* A worker's step touches no other worker.
LEMMA OthersKept ==
  ASSUME TypeOK, NEW w \in Workers, Worker(w), NEW v \in Workers, v # w
  PROVE  /\ pc'[v] = pc[v] /\ open'[v] = open[v] /\ cur'[v] = cur[v]
         /\ lpBound'[v] = lpBound[v] /\ inc'[v] = inc[v] /\ why'[v] = why[v]
         /\ Held(v)' = Held(v)
<1> USE DEF TypeOK, workVars, Goto, StopThen, LeaveWith
<1> DEFINE Kept == /\ pc'[v] = pc[v] /\ open'[v] = open[v] /\ cur'[v] = cur[v]
                   /\ lpBound'[v] = lpBound[v] /\ inc'[v] = inc[v] /\ why'[v] = why[v]
<1>1. ASSUME Take(w) PROVE Kept
  BY <1>1 DEF Take, TakeEnter, TakeSleep, TakeSubtree, TakeOver, WorkerExited,
              FinishedSubtree
<1>2. ASSUME StopStep(w) PROVE Kept
  BY <1>2 DEF StopStep, StopReason, StopFlag, StopWake
<1>3. ASSUME Sync(w) PROVE Kept
  <2>1. ASSUME HeadExhausted(w) \/ HeadTimeLimit(w) \/ SyncStopped(w) \/ SyncReport(w)
        PROVE  Kept
    BY <2>1 DEF HeadExhausted, HeadTimeLimit, SyncStopped, SyncReport
  <2>2. ASSUME SyncAdopt(w) \/ SyncShare(w) \/ DonateCount(w) \/ DonatePush(w) \/ DonateDone(w)
        PROVE  Kept
    BY <2>2 DEF SyncAdopt, SyncShare, DonateCount, DonatePush, DonateDone
  <2> QED BY <1>3, <2>1, <2>2 DEF Sync
<1>4. ASSUME Test(w) PROVE Kept
  BY <1>4 DEF Test, TestStopped, TestGap, PickNode
<1>5. ASSUME Solve(w) PROVE Kept
  BY <1>5 DEF Solve, NodeClosed, NodeLimitHit, NodeFailed, WorkerThrows, NodeSolved,
              NodeHeuristic, NodeIntegral, NodeBranch, Offer
<1>6. ASSUME Leave(w) PROVE Kept
  BY <1>6 DEF Leave
<1>7. Kept
  BY <1>1, <1>2, <1>3, <1>4, <1>5, <1>6 DEF Worker
<1> QED BY <1>7 DEF Held

\* The steps that move no node.
Quiet(w) ==
  \/ TakeEnter(w) \/ TakeSleep(w) \/ TakeOver(w) \/ WorkerExited(w) \/ StopStep(w)
  \/ HeadExhausted(w) \/ HeadTimeLimit(w) \/ SyncStopped(w) \/ SyncReport(w)
  \/ SyncAdopt(w) \/ SyncShare(w) \/ DonateCount(w) \/ DonateDone(w)
  \/ TestStopped(w) \/ TestGap(w) \/ NodeSolved(w) \/ NodeHeuristic(w)

\* The steps that move one, or more.
Moves(w) ==
  \/ TakeSubtree(w) \/ FinishedSubtree(w) \/ DonatePush(w) \/ PickNode(w)
  \/ NodeClosed(w) \/ NodeLimitHit(w) \/ NodeFailed(w) \/ WorkerThrows(w)
  \/ NodeIntegral(w) \/ NodeBranch(w) \/ Leave(w)

LEMMA QuietOrMoves == ASSUME NEW w, Worker(w) PROVE Quiet(w) \/ Moves(w)
BY DEF Worker, Take, Sync, Test, Solve, Quiet, Moves

LEMMA QuietKeeps ==
  ASSUME TypeOK, NEW w \in Workers, Quiet(w)
  PROVE  /\ queue' = queue /\ residual' = residual /\ open' = open /\ cur' = cur
         /\ Held(w)' = Held(w) /\ gapMet' = gapMet
<1> USE DEF TypeOK, workVars, Goto, StopThen, LeaveWith, sharedVars, sumVars
<1>1. /\ queue' = queue /\ residual' = residual /\ open' = open /\ cur' = cur
      /\ gapMet' = gapMet
  <2>1. CASE TakeEnter(w) \/ TakeSleep(w) \/ TakeOver(w) \/ WorkerExited(w) \/ StopStep(w)
    BY <2>1 DEF TakeEnter, TakeSleep, TakeOver, WorkerExited, StopStep, StopReason, StopFlag,
                StopWake
  <2>2. CASE HeadExhausted(w) \/ HeadTimeLimit(w) \/ SyncStopped(w) \/ SyncReport(w)
             \/ SyncAdopt(w) \/ SyncShare(w) \/ DonateCount(w) \/ DonateDone(w)
    BY <2>2 DEF HeadExhausted, HeadTimeLimit, SyncStopped, SyncReport, SyncAdopt, SyncShare,
                DonateCount, DonateDone
  <2>3. CASE TestStopped(w) \/ TestGap(w) \/ NodeSolved(w) \/ NodeHeuristic(w)
    BY <2>3 DEF TestStopped, TestGap, NodeSolved, NodeHeuristic
  <2> QED BY <2>1, <2>2, <2>3 DEF Quiet
<1>2. pc[w] \in {"lp", "heur"} <=> pc'[w] \in {"lp", "heur"}
  <2>1. CASE TakeEnter(w) \/ TakeSleep(w) \/ TakeOver(w) \/ WorkerExited(w) \/ StopStep(w)
    BY <2>1 DEF TakeEnter, TakeSleep, TakeOver, WorkerExited, StopStep, StopReason, StopFlag,
                StopWake, Awake
  <2>2. CASE HeadExhausted(w) \/ HeadTimeLimit(w) \/ SyncStopped(w) \/ SyncReport(w)
             \/ SyncAdopt(w) \/ SyncShare(w) \/ DonateCount(w) \/ DonateDone(w)
    BY <2>2 DEF HeadExhausted, HeadTimeLimit, SyncStopped, SyncReport, SyncAdopt, SyncShare,
                DonateCount, DonateDone
  <2>3. CASE TestStopped(w) \/ TestGap(w) \/ NodeSolved(w) \/ NodeHeuristic(w)
    BY <2>3 DEF TestStopped, TestGap, NodeSolved, NodeHeuristic
  <2> QED BY <2>1, <2>2, <2>3 DEF Quiet
<1> QED BY <1>1, <1>2 DEF Held

\* The driver and the clock touch neither nodes nor points.
LEMMA DriverKeeps ==
  ASSUME Driver \/ Tick
  PROVE  /\ UNCHANGED <<pc, queue, residual, gapMet, best, workVars>>
         /\ \A v \in Workers : Held(v)' = Held(v)
<1>1. UNCHANGED <<pc, queue, residual, gapMet, best, workVars>>
  BY DEF Driver, DriverStop, DriverInterrupt, DriverStopReason, DriverStopFlag,
         DriverStopWake, DriverSignal, DriverReport, Tick, sharedVars, sumVars
<1> QED BY <1>1 DEF Held, workVars

------------------------------------------------------------------------------
(* BoundInv                                                                *)

LEMMA QuietBound ==
  ASSUME TypeOK, BoundInv, NEW w \in Workers, Worker(w), Quiet(w)
  PROVE  BoundInv'
<1>1. queue' = queue /\ cur' = cur /\ \A v \in Workers : Held(v)' = Held(v)
  BY QuietKeeps, OthersKept
<1>2. ASSUME pc'[w] = "heur"
      PROVE  \A p \in cur'[w].dom \cap Feasible : lpBound'[w] <= Obj[p]
  <2>1. (NodeHeuristic(w) /\ pc[w] = "heur" /\ lpBound' = lpBound) \/ NodeSolved(w)
    BY <1>2 DEF Quiet, TypeOK, workVars, Goto, StopThen, LeaveWith, TakeEnter, TakeSleep,
       TakeOver, WorkerExited, StopStep, StopReason, StopFlag, StopWake, HeadExhausted,
       HeadTimeLimit, SyncStopped, SyncReport, SyncAdopt, SyncShare, DonateCount, DonateDone,
       TestStopped, TestGap, NodeHeuristic, Awake
  <2>2. CASE NodeSolved(w)
    BY <2>2, <1>1 DEF NodeSolved, RelaxationBounds, TypeOK
  <2> QED BY <2>1, <2>2, <1>1 DEF BoundInv
<1> QED BY <1>1, <1>2, OthersKept DEF BoundInv

\* A step that moves nodes brings none whose bound is not honest.
LEMMA MovesBound ==
  ASSUME TypeOK, BoundInv, NEW w \in Workers, Worker(w), Moves(w)
  PROVE  BoundInv'
<1> USE DEF TypeOK, workVars, Goto, StopThen, LeaveWith, sharedVars, sumVars, Held
<1> DEFINE Honest == /\ \A n \in queue' : BoundHolds(n)
                     /\ \A n \in Held(w)' : BoundHolds(n)
                     /\ pc'[w] # "heur"
<1>1. CASE TakeSubtree(w)
  <2>1. PICK n \in Smallest(queue) :
          queue' = queue \ {n} /\ open' = [open EXCEPT ![w] = {n}]
    BY <1>1 DEF TakeSubtree
  <2>2. n \in queue /\ pc'[w] = "head" /\ open'[w] = {n}
    BY <1>1, <2>1 DEF TakeSubtree, Smallest
  <2>3. Honest
    BY <2>1, <2>2 DEF BoundInv
  <2> QED BY <2>3, OthersKept DEF BoundInv
<1>2. CASE FinishedSubtree(w)
  <2>1. Honest
    BY <1>2 DEF FinishedSubtree, BoundInv
  <2> QED BY <2>1, OthersKept DEF BoundInv
<1>3. CASE DonatePush(w)
  <2>1. PICK n \in open[w] :
          queue' = queue \cup {n} /\ open' = [open EXCEPT ![w] = @ \ {n}]
    BY <1>3 DEF DonatePush
  <2>2. Honest
    BY <1>3, <2>1 DEF DonatePush, BoundInv
  <2> QED BY <2>2, OthersKept DEF BoundInv
<1>4. CASE PickNode(w)
  <2>1. PICK n \in open[w] :
          /\ open' = [open EXCEPT ![w] = @ \ {n}]
          /\ \/ pc'[w] = "head"
             \/ pc'[w] = "lp" /\ cur' = [cur EXCEPT ![w] = n]
    BY <1>4 DEF PickNode
  <2>2. Honest
    BY <1>4, <2>1 DEF PickNode, BoundInv
  <2> QED BY <2>2, OthersKept DEF BoundInv
<1>5. CASE NodeClosed(w) \/ NodeIntegral(w)
  <2>1. Honest
    BY <1>5 DEF NodeClosed, NodeIntegral, BoundInv
  <2> QED BY <2>1, OthersKept DEF BoundInv
<1>6. CASE NodeLimitHit(w) \/ NodeFailed(w)
  <2>1. Honest
    BY <1>6 DEF NodeLimitHit, NodeFailed, BoundInv
  <2> QED BY <2>1, OthersKept DEF BoundInv
<1>7. CASE WorkerThrows(w)
  <2>1. Honest
    BY <1>7 DEF WorkerThrows, BoundInv
  <2> QED BY <2>1, OthersKept DEF BoundInv
<1>8. CASE NodeBranch(w)
  <2>1. PICK H \in BranchSplits(cur[w]) :
          open' = [open EXCEPT ![w] = @ \cup Children(cur[w], lpBound[w], H)]
    BY <1>8 DEF NodeBranch
  <2>2. \A n \in Children(cur[w], lpBound[w], H) : BoundHolds(n)
    BY <1>8 DEF NodeBranch, BoundInv, Children, BoundHolds
  <2>3. Honest
    BY <1>8, <2>1, <2>2 DEF NodeBranch, BoundInv
  <2> QED BY <2>3, OthersKept DEF BoundInv
<1>9. CASE Leave(w)
  <2>1. Honest
    BY <1>9 DEF Leave, BoundInv
  <2> QED BY <2>1, OthersKept DEF BoundInv
<1> QED BY <1>1, <1>2, <1>3, <1>4, <1>5, <1>6, <1>7, <1>8, <1>9 DEF Moves

------------------------------------------------------------------------------
(* PointInv                                                                *)

\* Offering a point leaves both incumbents at least as good as they were.
LEMMA OfferImproves ==
  ASSUME TypeOK, PointInv, NEW w \in Workers, NEW p \in Feasible, Offer(w, p)
  PROVE  /\ best # NoPoint => best' # NoPoint /\ Obj[best'] <= Obj[best]
         /\ best' # NoPoint /\ Obj[best'] <= Obj[p]
         /\ inc'[w] # NoPoint /\ Obj[best'] <= Obj[inc'[w]]
<1>1. p \in Points /\ p # NoPoint /\ \A q \in Feasible : Obj[q] \in Int
  BY PointsAssumption, BoundsAssumption
<1> QED BY <1>1 DEF Offer, Better, Improves, TypeOK, PointInv

\* The shared incumbent only improves.
LEMMA BestImproves ==
  ASSUME TypeOK, PointInv, [Next]_vars
  PROVE  best # NoPoint => best' # NoPoint /\ Obj[best'] <= Obj[best]
<1>1. best # NoPoint => Obj[best] \in Int
  BY PointsAssumption, BoundsAssumption DEF TypeOK
<1>2. ASSUME NEW w \in Workers, Worker(w)
      PROVE  best # NoPoint => best' # NoPoint /\ Obj[best'] <= Obj[best]
  <2> USE DEF sumVars
  <2>1. CASE Take(w) \/ StopStep(w) \/ Leave(w)
    BY <2>1, <1>1 DEF Take, TakeEnter, TakeSleep, TakeSubtree, TakeOver, WorkerExited,
        FinishedSubtree, StopStep, StopReason, StopFlag, StopWake, Leave
  <2>2. CASE Sync(w) \/ Test(w)
    BY <2>2, <1>1 DEF Sync, HeadExhausted, HeadTimeLimit, SyncStopped, SyncReport, SyncAdopt,
        SyncShare, DonateCount, DonatePush, DonateDone, Test, TestStopped, TestGap, PickNode
  <2>3. CASE NodeClosed(w) \/ NodeLimitHit(w) \/ NodeFailed(w) \/ WorkerThrows(w)
             \/ NodeSolved(w) \/ NodeBranch(w)
    BY <2>3, <1>1 DEF NodeClosed, NodeLimitHit, NodeFailed, WorkerThrows, NodeSolved, NodeBranch
  <2>4. CASE NodeHeuristic(w) \/ NodeIntegral(w)
    BY <2>4, OfferImproves DEF NodeHeuristic, NodeIntegral, IntegralOptima
  <2> QED BY <1>2, <2>1, <2>2, <2>3, <2>4 DEF Worker, Solve
<1> QED BY <1>1, <1>2, DriverKeeps DEF Next, Done, vars, sumVars

LEMMA PointStep ==
  ASSUME TypeOK, PointInv, NEW w \in Workers, Worker(w),
         inc'[w] # NoPoint => best' # NoPoint /\ Obj[best'] <= Obj[inc'[w]]
  PROVE  PointInv'
<1>1. best # NoPoint => best' # NoPoint /\ Obj[best'] <= Obj[best]
  BY BestImproves DEF Next
<1>2. TypeOK'
  BY NextTypeOK DEF Next
<1>3. \A q \in Feasible : Obj[q] \in Int
  BY PointsAssumption, BoundsAssumption
<1>4. ASSUME NEW v \in Workers, v # w, inc'[v] # NoPoint
      PROVE  best' # NoPoint /\ Obj[best'] <= Obj[inc'[v]]
  <2>1. inc'[v] = inc[v]
    BY <1>4, OthersKept
  <2>2. best # NoPoint /\ Obj[best] <= Obj[inc[v]]
    BY <1>4, <2>1 DEF PointInv
  <2> QED BY <2>1, <2>2, <1>1, <1>2, <1>3, <1>4 DEF TypeOK
<1> QED BY <1>4 DEF PointInv

LEMMA WorkerPoint ==
  ASSUME TypeOK, PointInv, NEW w \in Workers, Worker(w)
  PROVE  PointInv'
<1>1. CASE NodeHeuristic(w) \/ NodeIntegral(w)
  <2>1. PICK p \in Feasible : Offer(w, p)
    BY <1>1 DEF NodeHeuristic, NodeIntegral, IntegralOptima
  <2> QED BY <2>1, OfferImproves, PointStep
<1>2. CASE SyncAdopt(w)
  <2>1. best' = best
    BY <1>2 DEF SyncAdopt, sumVars
  <2>2. \A q \in Feasible : Obj[q] \in Int
    BY PointsAssumption, BoundsAssumption
  <2>3. inc'[w] = IF best # NoPoint THEN Better(best, inc[w]) ELSE inc[w]
    BY <1>2 DEF SyncAdopt, TypeOK
  <2>4. inc'[w] # NoPoint => best' # NoPoint /\ Obj[best'] <= Obj[inc'[w]]
    BY <2>1, <2>2, <2>3 DEF PointInv, Better, TypeOK
  <2> QED BY <2>4, PointStep
<1>3. CASE inc'[w] = NoPoint
  BY <1>3, PointStep
<1>4. CASE inc' = inc /\ best' = best
  BY <1>4, PointStep DEF PointInv
<1>5. \/ NodeHeuristic(w) \/ NodeIntegral(w) \/ SyncAdopt(w) \/ inc'[w] = NoPoint
      \/ (inc' = inc /\ best' = best)
  <2> USE DEF workVars, sumVars, TypeOK
  <2>1. CASE Take(w) \/ StopStep(w) \/ Leave(w)
    BY <2>1 DEF Take, TakeEnter, TakeSleep, TakeSubtree, TakeOver, WorkerExited,
        FinishedSubtree, StopStep, StopReason, StopFlag, StopWake, Leave
  <2>2. CASE Sync(w) \/ Test(w)
    BY <2>2 DEF Sync, HeadExhausted, HeadTimeLimit, SyncStopped, SyncReport,
        SyncShare, DonateCount, DonatePush, DonateDone, Test, TestStopped, TestGap, PickNode
  <2>3. CASE Solve(w)
    BY <2>3 DEF Solve, NodeClosed, NodeLimitHit, NodeFailed, WorkerThrows, NodeSolved, NodeBranch
  <2> QED BY <2>1, <2>2, <2>3 DEF Worker
<1> QED BY <1>1, <1>2, <1>3, <1>4, <1>5

------------------------------------------------------------------------------
(* GapInv                                                                  *)

\* Being within the gap survives an improvement of the incumbent.
LEMMA WithinGapKept ==
  ASSUME TypeOK, TypeOK', NEW r \in Int, WithinGap(r),
         best' # NoPoint /\ Obj[best'] <= Obj[best]
  PROVE  best' # NoPoint /\ Obj[best'] - GapSlack[Obj[best']] <= r
<1>1. best \in Feasible /\ best' \in Feasible
  BY DEF TypeOK, WithinGap
<1>2. \A p \in Feasible : Obj[p] \in Int /\ GapSlack[Obj[p]] \in Int
  BY PointsAssumption, BoundsAssumption, GapAssumption
<1>3. Obj[best'] - GapSlack[Obj[best']] <= Obj[best] - GapSlack[Obj[best]]
  BY <1>1, GapAssumption
<1> QED BY <1>1, <1>2, <1>3 DEF WithinGap

\* A worker that leaves without a limit has nothing open or met the gap.
LEMMA WorkerLeaves ==
  ASSUME TypeOK, ControlInv, GapInv, NEW w \in Workers, Worker(w),
         pc'[w] = "leave", why'[w] = "none", open'[w] # {}
  PROVE  \E n \in Smallest(open'[w]) : GapMet(n.bound, inc'[w])
<1> USE DEF TypeOK, workVars, Goto, StopThen, LeaveWith
<1>1. ~Take(w) /\ ~Leave(w)
  BY DEF Take, TakeEnter, TakeSleep, TakeSubtree, TakeOver, WorkerExited, FinishedSubtree,
         Leave, Awake
<1>2. ~StopStep(w)
  BY DEF StopStep, StopReason, StopFlag, StopWake, ControlInv, StopPCs
<1>3. ~Sync(w)
  BY DEF Sync, HeadExhausted, HeadTimeLimit, SyncStopped, SyncReport, SyncAdopt, SyncShare,
         DonateCount, DonatePush, DonateDone
<1>4. ~Solve(w)
  BY DEF Solve, NodeClosed, NodeLimitHit, NodeFailed, WorkerThrows, NodeSolved,
         NodeHeuristic, NodeIntegral, NodeBranch
<1>5. TestGap(w)
  BY <1>1, <1>2, <1>3, <1>4 DEF Worker, Test, TestStopped, PickNode
<1> QED BY <1>5 DEF TestGap

\* A node with the smallest bound of some nodes.
LEMMA SmallestIsNode ==
  ASSUME NEW S \in SUBSET Node, NEW n \in Smallest(S)
  PROVE  /\ n \in S /\ n \in Node
         /\ n.bound \in Bounds /\ n.bound \in Int /\ Rounded[n.bound] \in Int
         /\ \A m \in S : n.bound <= m.bound /\ m.bound \in Int
<1>1. n \in S /\ \A m \in S : n.bound <= m.bound
  BY DEF Smallest
<1>2. \A m \in Node : m.bound \in Bounds
  BY DEF Node
<1>3. \A b \in Bounds : b \in Int /\ Rounded[b] \in Int
  BY BoundArithmetic
<1> QED BY <1>1, <1>2, <1>3

\* Nodes with the smallest bound have the same bound.
LEMMA SmallestEqual ==
  ASSUME NEW S \in SUBSET Node, NEW m \in Smallest(S), NEW n \in Smallest(S)
  PROVE  m.bound = n.bound
<1>1. m.bound <= n.bound /\ n.bound <= m.bound
  BY DEF Smallest
<1>2. m.bound \in Int /\ n.bound \in Int
  BY BoundsAssumption DEF Smallest, Node
<1> QED BY <1>1, <1>2

\* What a subtree that met the gap leaves behind is within it.
LEMMA LeftWithinGap ==
  ASSUME TypeOK, PointInv, NEW w \in Workers, NEW m \in Smallest(open[w]),
         NEW n \in Smallest(open[w]), GapMet(m.bound, inc[w])
  PROVE  WithinGap(Rounded[n.bound])
<1>1. m.bound = n.bound /\ Rounded[n.bound] \in Int
  <2>1. open[w] \in SUBSET Node
    BY DEF TypeOK
  <2> QED BY <2>1, SmallestEqual, SmallestIsNode
<1>2. inc[w] \in Feasible /\ best \in Feasible /\ Obj[best] <= Obj[inc[w]]
  BY DEF GapMet, PointInv, TypeOK
<1>3. \A p \in Feasible : Obj[p] \in Int /\ GapSlack[Obj[p]] \in Int
  BY PointsAssumption, BoundsAssumption, GapAssumption
<1>4. Obj[inc[w]] - GapSlack[Obj[inc[w]]] <= Rounded[n.bound]
  BY <1>1, <1>2, <1>3 DEF GapMet
<1>5. Obj[best] - GapSlack[Obj[best]] <= Obj[inc[w]] - GapSlack[Obj[inc[w]]]
  BY <1>2, GapAssumption
<1> QED BY <1>1, <1>2, <1>3, <1>4, <1>5, PointsAssumption DEF WithinGap

\* The residual and the stop that may follow a subtree's end.
StopToCome == \E w \in Workers : pc[w] = "stopReason" /\ why[w] # "none"

LEMMA ResidualChange ==
  ASSUME TypeOK, PointInv, GapInv, NEW w \in Workers, Leave(w), why[w] = "none",
         residual = Inf \/ WithinGap(residual)
  PROVE  residual' = Inf \/ WithinGap(residual')
<1>1. CASE open[w] = {}
  BY <1>1 DEF Leave
<1>2. CASE open[w] # {}
  <2>1. PICK n \in Smallest(open[w]) : residual' = Lower(residual, Rounded[n.bound])
    BY <1>2 DEF Leave
  <2>2. PICK m \in Smallest(open[w]) : GapMet(m.bound, inc[w])
    BY <1>2 DEF GapInv, Leave
  <2>3. WithinGap(Rounded[n.bound])
    BY <2>2, LeftWithinGap
  <2>4. residual' = residual \/ residual' = Rounded[n.bound]
    BY <2>1 DEF Lower
  <2> QED BY <2>3, <2>4 DEF WithinGap
<1> QED BY <1>1, <1>2

LEMMA WorkerGap ==
  ASSUME TypeOK, ControlInv, PointInv, GapInv, NEW w \in Workers, Worker(w)
  PROVE  GapInv'
<1> USE DEF workVars, Goto, StopThen, LeaveWith
<1>1. ASSUME NEW v \in Workers, pc'[v] = "leave", why'[v] = "none", open'[v] # {}
      PROVE  \E n \in Smallest(open'[v]) : GapMet(n.bound, inc'[v])
  BY <1>1, OthersKept, WorkerLeaves DEF GapInv
<1>2. ASSUME reason' = "none", ~StopToCome'
      PROVE  residual' = Inf \/ (best' # NoPoint /\ Obj[best'] - GapSlack[Obj[best']] <= residual')
  <2>1. reason = "none"
    <3>1. reason' = reason \/ StopReason(w)
      BY DEF Worker, Take, StopStep, Sync, Test, Solve, TakeEnter, TakeSleep, TakeSubtree,
         TakeOver, WorkerExited, FinishedSubtree, StopFlag, StopWake, HeadExhausted,
         HeadTimeLimit, SyncStopped, SyncReport, SyncAdopt, SyncShare, DonateCount, DonatePush,
         DonateDone, TestStopped, TestGap, PickNode, NodeClosed, NodeLimitHit, NodeFailed,
         WorkerThrows, NodeSolved, NodeHeuristic, NodeIntegral, NodeBranch, Leave, stopVars
    <3> QED BY <1>2, <3>1 DEF StopReason, FirstReason
  <2>2. ~StopToCome
    <3>1. ASSUME NEW v \in Workers, pc[v] = "stopReason", why[v] # "none" PROVE FALSE
      <4>1. v = w
        BY <1>2, <3>1, OthersKept DEF StopToCome
      <4>2. StopReason(w)
        BY <3>1, <4>1 DEF Worker, Take, StopStep, Sync, Test, Solve, TakeEnter, TakeSleep,
           TakeSubtree, TakeOver, WorkerExited, FinishedSubtree, StopFlag, StopWake,
           HeadExhausted, HeadTimeLimit, SyncStopped, SyncReport, SyncAdopt, SyncShare,
           DonateCount, DonatePush, DonateDone, TestStopped, TestGap, PickNode, NodeClosed,
           NodeLimitHit, NodeFailed, WorkerThrows, NodeSolved, NodeHeuristic, NodeIntegral,
           NodeBranch, Leave, Awake
      <4> QED BY <1>2, <3>1, <4>1, <4>2, <2>1 DEF StopReason, FirstReason
    <3> QED BY <3>1 DEF StopToCome
  <2>3. residual = Inf \/ WithinGap(residual)
    BY <2>1, <2>2 DEF GapInv, StopToCome
  <2>4. residual' = Inf \/ WithinGap(residual')
    <3>1. CASE Leave(w)
      <4>1. why[w] = "none"
        BY <3>1, <1>2 DEF Leave, StopToCome, TypeOK
      <4> QED BY <3>1, <4>1, <2>3, ResidualChange
    <3>2. CASE ~Leave(w)
      <4>1. residual' = residual
        BY <3>2 DEF Worker, Take, StopStep, Sync, Test, Solve, TakeEnter, TakeSleep,
           TakeSubtree, TakeOver, WorkerExited, FinishedSubtree, StopReason, StopFlag,
           StopWake, HeadExhausted, HeadTimeLimit, SyncStopped, SyncReport, SyncAdopt,
           SyncShare, DonateCount, DonatePush, DonateDone, TestStopped, TestGap, PickNode,
           NodeClosed, NodeLimitHit, NodeFailed, WorkerThrows, NodeSolved, NodeHeuristic,
           NodeIntegral, NodeBranch, sumVars
      <4> QED BY <4>1, <2>3
    <3> QED BY <3>1, <3>2
  <2>5. TypeOK' /\ residual' \in Int
    BY NextTypeOK DEF Next, TypeOK
  <2>6. best # NoPoint => best' # NoPoint /\ Obj[best'] <= Obj[best]
    BY BestImproves DEF Next
  <2> QED BY <2>4, <2>5, <2>6, WithinGapKept DEF WithinGap
<1> QED BY <1>1, <1>2 DEF GapInv, StopToCome, WithinGap

LEMMA DriverGap ==
  ASSUME TypeOK, GapInv, Driver \/ Tick
  PROVE  GapInv'
<1>1. UNCHANGED <<pc, residual, best, workVars>>
  BY DriverKeeps
<1>2. reason' = "none" => reason = "none"
  BY DEF Driver, DriverStop, DriverInterrupt, DriverStopReason, DriverStopFlag,
         DriverStopWake, DriverSignal, DriverReport, Tick, stopVars, FirstReason
<1> QED BY <1>1, <1>2 DEF GapInv, WithinGap, workVars

------------------------------------------------------------------------------
(* NothingLost                                                             *)

\* What prunes a node accounts for everything inside it.
LEMMA PrunedAccounted ==
  ASSUME TypeOK, PointInv, NEW w \in Workers, NEW b \in Bounds, CanPrune(b, inc[w]),
         NEW p \in Feasible, b <= Obj[p]
  PROVE  best # NoPoint /\ Obj[best] - Margin <= Obj[p]
<1>1. Rounded[b] <= Obj[p] /\ Rounded[b] \in Int
  BY RoundingAssumption
<1>2. inc[w] \in Feasible /\ best \in Feasible /\ best # NoPoint /\ Obj[best] <= Obj[inc[w]]
  BY DEF CanPrune, PointInv, TypeOK
<1>3. \A q \in Feasible : Obj[q] \in Int
  BY PointsAssumption, BoundsAssumption
<1>4. Margin \in Int
  BY GapAssumption
<1>5. Rounded[b] >= Obj[inc[w]] - Margin
  BY DEF CanPrune
<1> QED BY <1>1, <1>2, <1>3, <1>4, <1>5

\* A worker's step loses nothing if what it held and what was queued stays
\* accounted for.
LEMMA AccountedStep ==
  ASSUME TypeOK, PointInv, NEW w \in Workers, Worker(w), NEW p \in Feasible, Accounted(p),
         residual' <= residual,
         \A n \in queue \cup Held(w) : p \in n.dom => Accounted(p)'
  PROVE  Accounted(p)'
<1>1. /\ \A q \in Feasible : Obj[q] \in Int
      /\ Margin \in Int
  BY PointsAssumption, BoundsAssumption, GapAssumption
<1>2. TypeOK'
  BY NextTypeOK DEF Next
<1>3. CASE best # NoPoint /\ Obj[best] - Margin <= Obj[p]
  <2>1. best' # NoPoint /\ Obj[best'] <= Obj[best]
    BY <1>3, BestImproves DEF Next
  <2> QED BY <1>1, <1>2, <1>3, <2>1 DEF TypeOK, Accounted
<1>4. CASE residual <= Obj[p]
  BY <1>1, <1>2, <1>4 DEF TypeOK, Accounted
<1>5. CASE \E n \in queue \cup Held(w) : p \in n.dom
  BY <1>5
<1>6. ASSUME NEW v \in Workers, v # w, NEW n \in Held(v), p \in n.dom
      PROVE  Accounted(p)'
  BY <1>6, OthersKept DEF Accounted
<1> QED BY <1>3, <1>4, <1>5, <1>6 DEF Accounted

LEMMA WorkerLost ==
  ASSUME TypeOK, ControlInv, BoundInv, PointInv, NothingLost, NEW w \in Workers, Worker(w)
  PROVE  NothingLost'
<1> SUFFICES ASSUME ~failed', ~thrown', NEW p \in Feasible PROVE Accounted(p)'
  BY DEF NothingLost
<1> USE DEF workVars, Goto, StopThen, LeaveWith, sharedVars, sumVars
<1>1. ~failed /\ ~thrown
  BY DEF Worker, Take, StopStep, Sync, Test, Solve, TakeEnter, TakeSleep,
         TakeSubtree, TakeOver, WorkerExited, FinishedSubtree, StopReason, StopFlag,
         StopWake, HeadExhausted, HeadTimeLimit, SyncStopped, SyncReport, SyncAdopt,
         SyncShare, DonateCount, DonatePush, DonateDone, TestStopped, TestGap, PickNode,
         NodeClosed, NodeLimitHit, NodeFailed, WorkerThrows, NodeSolved, NodeHeuristic,
         NodeIntegral, NodeBranch, Leave, stopVars
<1>2. Accounted(p)
  BY <1>1 DEF NothingLost
<1>3. Obj[p] \in Int /\ Margin \in Nat /\ residual \in Int
  BY PointsAssumption, BoundsAssumption, GapAssumption DEF TypeOK
<1>4. CASE Quiet(w)
  <2>1. \A v \in Workers : Held(v)' = Held(v)
    BY <1>4, QuietKeeps, OthersKept
  <2> QED BY <1>2, <1>3, <1>4, <2>1, QuietKeeps, AccountedStep DEF Accounted
<1>5. ASSUME residual' = residual, \A n \in queue \cup Held(w) : p \in n.dom => Accounted(p)'
      PROVE  Accounted(p)'
  BY <1>2, <1>3, <1>5, AccountedStep
<1>6. CASE TakeSubtree(w)
  <2>1. PICK n \in queue : queue' = queue \ {n} /\ open' = [open EXCEPT ![w] = {n}]
    BY <1>6 DEF TakeSubtree, Smallest
  <2>2. Held(w) = {} /\ n \in Held(w)' /\ residual' = residual
    BY <1>6, <2>1 DEF TakeSubtree, Awake, ControlInv, OutsidePCs, Held, TypeOK
  <2>3. \A m \in queue : m \in queue' \cup Held(w)'
    BY <2>1, <2>2
  <2> QED BY <1>5, <2>2, <2>3 DEF Accounted
<1>7. CASE FinishedSubtree(w)
  <2>1. Held(w) = {} /\ queue' = queue /\ residual' = residual
    BY <1>7, <1>1 DEF FinishedSubtree, ControlInv, StopPCs, Held
  <2> QED BY <1>5, <2>1 DEF Accounted
<1>8. CASE DonatePush(w)
  <2>1. PICK n \in open[w] :
          queue' = queue \cup {n} /\ open' = [open EXCEPT ![w] = @ \ {n}]
    BY <1>8 DEF DonatePush
  <2>2. \A m \in queue \cup Held(w) : m \in queue' \cup Held(w)'
    BY <1>8, <2>1 DEF DonatePush, Held, TypeOK
  <2>3. residual' = residual
    BY <1>8 DEF DonatePush
  <2> QED BY <1>5, <2>2, <2>3 DEF Accounted
<1>9. CASE PickNode(w)
  <2>1. PICK n \in open[w] :
          /\ open' = [open EXCEPT ![w] = @ \ {n}]
          /\ \/ CanPrune(n.bound, inc[w]) /\ pc'[w] = "head"
             \/ pc'[w] = "lp" /\ cur' = [cur EXCEPT ![w] = n]
    BY <1>9 DEF PickNode, TypeOK
  <2>2. queue' = queue /\ residual' = residual /\ best' = best /\ Held(w) = open[w]
    BY <1>9 DEF PickNode, Held
  <2>3. \A m \in Held(w) \ {n} : m \in Held(w)'
    BY <2>1, <2>2 DEF Held, TypeOK
  <2>4. ASSUME p \in n.dom PROVE Accounted(p)'
    <3>1. CASE CanPrune(n.bound, inc[w])
      <4>1. n.bound \in Bounds /\ n.bound <= Obj[p]
        BY <2>2, <2>4 DEF BoundInv, BoundHolds, TypeOK, Node
      <4> QED BY <3>1, <4>1, <2>2, PrunedAccounted DEF Accounted
    <3>2. CASE n \in Held(w)'
      BY <2>4, <3>2 DEF Accounted
    <3> QED BY <2>1, <3>1, <3>2 DEF Held, TypeOK
  <2> QED BY <1>5, <2>2, <2>3, <2>4 DEF Accounted
<1>10. CASE NodeClosed(w)
  <2>1. /\ queue' = queue /\ residual' = residual /\ best' = best
        /\ Held(w) = open[w] \cup {cur[w]} /\ Held(w)' = open[w]
    BY <1>10 DEF NodeClosed, Held, TypeOK
  <2>2. ASSUME p \in cur[w].dom PROVE Accounted(p)'
    <3>1. PICK b \in RelaxationBounds(cur[w]) : CanPrune(b, inc[w])
      BY <1>10, <2>2 DEF NodeClosed, CanBeInfeasible
    <3>2. b \in Bounds /\ b <= Obj[p]
      BY <2>2 DEF RelaxationBounds
    <3> QED BY <3>1, <3>2, <2>1, PrunedAccounted DEF Accounted
  <2> QED BY <1>5, <2>1, <2>2 DEF Accounted
<1>11. CASE NodeLimitHit(w)
  <2>1. queue' = queue /\ residual' = residual /\ Held(w) \subseteq Held(w)'
    BY <1>11 DEF NodeLimitHit, Held, TypeOK
  <2> QED BY <1>5, <2>1 DEF Accounted
<1>12. CASE NodeFailed(w) \/ WorkerThrows(w)
  BY <1>12 DEF NodeFailed, WorkerThrows
<1>13. CASE NodeIntegral(w)
  <2>1. /\ queue' = queue /\ residual' = residual
        /\ Held(w) = open[w] \cup {cur[w]} /\ Held(w)' = open[w]
    BY <1>13 DEF NodeIntegral, Held, TypeOK
  <2>2. PICK q \in IntegralOptima(cur[w], lpBound[w]) : Offer(w, q)
    BY <1>13 DEF NodeIntegral
  <2>3. q \in Feasible /\ Obj[q] = lpBound[w]
    BY DEF IntegralOptima
  <2>4. best' # NoPoint /\ Obj[best'] <= lpBound[w]
    BY <2>2, <2>3, OfferImproves
  <2>5. best' \in Feasible /\ Obj[best'] \in Int /\ lpBound[w] \in Int
    BY <2>3, <2>4, NextTypeOK, PointsAssumption, BoundsAssumption DEF Next, TypeOK
  <2>6. ASSUME p \in cur[w].dom PROVE Accounted(p)'
    <3>1. lpBound[w] <= Obj[p]
      BY <1>13, <2>6 DEF NodeIntegral, BoundInv
    <3> QED BY <1>3, <2>4, <2>5, <3>1 DEF Accounted
  <2> QED BY <1>5, <2>1, <2>6 DEF Accounted
<1>14. CASE NodeBranch(w)
  <2>1. PICK H \in BranchSplits(cur[w]) :
          open' = [open EXCEPT ![w] = @ \cup Children(cur[w], lpBound[w], H)]
    BY <1>14 DEF NodeBranch
  <2>2. /\ queue' = queue /\ residual' = residual
        /\ Held(w) = open[w] \cup {cur[w]}
        /\ Held(w)' = open[w] \cup Children(cur[w], lpBound[w], H)
    BY <1>14, <2>1 DEF NodeBranch, Held, TypeOK
  <2>3. p \in cur[w].dom => \E n \in Children(cur[w], lpBound[w], H) : p \in n.dom
    BY DEF Children
  <2> QED BY <1>5, <2>2, <2>3 DEF Accounted
<1>15. CASE Leave(w)
  <2>1. queue' = queue /\ Held(w) = open[w]
    BY <1>15 DEF Leave, Held
  <2>2. CASE open[w] = {}
    BY <1>5, <1>15, <2>1, <2>2 DEF Leave, Accounted
  <2>3. CASE open[w] # {}
    <3>1. PICK n \in Smallest(open[w]) : residual' = Lower(residual, Rounded[n.bound])
      BY <1>15, <2>3 DEF Leave
    <3>2. n \in Node /\ Rounded[n.bound] \in Int /\ n.bound \in Int /\ n.bound \in Bounds
      <4>1. open[w] \in SUBSET Node
        BY DEF TypeOK
      <4> QED BY <4>1, SmallestIsNode
    <3>3. residual' <= residual /\ residual' <= Rounded[n.bound] /\ residual' \in Int
      BY <1>3, <3>1, <3>2, BoundArithmetic
    <3>4. ASSUME NEW m \in open[w], p \in m.dom PROVE residual' <= Obj[p]
      <4>1. m.bound <= Obj[p] /\ n.bound <= m.bound /\ m.bound \in Int
        <5>1. open[w] \in SUBSET Node
          BY DEF TypeOK
        <5>2. n.bound <= m.bound /\ m.bound \in Int
          BY <5>1, SmallestIsNode
        <5>3. BoundHolds(m)
          BY <2>1 DEF BoundInv
        <5> QED BY <3>4, <5>2, <5>3 DEF BoundHolds
      <4>2. n.bound <= Obj[p]
        BY <4>1, <3>2, <1>3
      <4>3. Rounded[n.bound] <= Obj[p]
        BY <4>2, <3>2, RoundingAssumption
      <4> QED BY <1>3, <3>2, <3>3, <4>3
    <3> QED BY <1>2, <2>1, <3>3, <3>4, AccountedStep DEF Accounted
  <2> QED BY <2>2, <2>3
<1> QED BY <1>4, <1>6, <1>7, <1>8, <1>9, <1>10, <1>11, <1>12, <1>13, <1>14, <1>15,
           QuietOrMoves DEF Moves

LEMMA DriverLost ==
  ASSUME NothingLost, Driver \/ Tick
  PROVE  NothingLost'
<1>1. UNCHANGED <<failed, thrown, queue, residual, best>>
  BY DriverKeeps DEF Driver, DriverStop, DriverInterrupt, DriverStopReason, DriverStopFlag,
         DriverStopWake, DriverSignal, DriverReport, Tick, stopVars
<1> QED BY <1>1, DriverKeeps DEF NothingLost, Accounted

------------------------------------------------------------------------------
(* The answer                                                              *)

\* When the driver reports, every worker has exited and holds nothing.
LEMMA AllExited ==
  ASSUME TypeOK, ControlInv, CountInv, exited = Cardinality(Workers)
  PROVE  \A w \in Workers : pc[w] = "exited" /\ Held(w) = {}
<1>1. {w \in Workers : pc[w] = "exited"} = Workers
  BY FS_Subset, WorkersAssumption DEF CountInv
<1> QED BY <1>1 DEF ControlInv, OutsidePCs, Held

\* A search no limit and no failure stopped has an empty queue, and a residual
\* only from subtrees that met the gap.
LEMMA ClosedSearch ==
  ASSUME IInv, exited = Cardinality(Workers), ~failed, ~thrown, reason = "none"
  PROVE  queue = {} /\ (residual = Inf \/ WithinGap(residual))
<1> USE DEF IInv
<1>1. \A w \in Workers : pc[w] = "exited"
  BY AllExited
<1>2. ~stopFlag
  BY DEF ControlInv
<1>3. queue = {}
  BY <1>1, <1>2, WorkersAssumption DEF CountInv
<1> QED BY <1>1, <1>3 DEF GapInv

\* The bound the driver finds is below whatever was left open.
LEMMA LeftOpenBound ==
  ASSUME TypeOK, BoundInv, NEW bound \in LeftOpen
  PROVE  /\ bound \in Int /\ bound <= residual
         /\ \A n \in queue, p \in Feasible : p \in n.dom => bound <= Obj[p]
<1>1. residual \in Int /\ queue \in SUBSET Node
  BY DEF TypeOK
<1>2. CASE queue = {}
  BY <1>1, <1>2 DEF LeftOpen
<1>3. CASE queue # {}
  <2>1. PICK m \in Smallest(queue) : bound = Lower(residual, Rounded[m.bound])
    BY <1>3 DEF LeftOpen
  <2>2. m.bound \in Bounds /\ m.bound \in Int /\ Rounded[m.bound] \in Int
    BY <1>1, SmallestIsNode
  <2>3. bound \in Int /\ bound <= residual /\ bound <= Rounded[m.bound]
    BY <1>1, <2>1, <2>2, BoundArithmetic
  <2>4. ASSUME NEW n \in queue, NEW p \in Feasible, p \in n.dom PROVE bound <= Obj[p]
    <3>1. m.bound <= n.bound /\ n.bound \in Int
      BY <1>1, SmallestIsNode
    <3>2. n.bound <= Obj[p]
      BY <2>4 DEF BoundInv, BoundHolds
    <3>3. Obj[p] \in Int
      BY PointsAssumption, BoundsAssumption
    <3>4. m.bound <= Obj[p]
      BY <2>2, <3>1, <3>2, <3>3
    <3>5. Rounded[m.bound] <= Obj[p]
      BY <2>2, <3>4, RoundingAssumption
    <3> QED BY <2>2, <2>3, <3>3, <3>5
  <2> QED BY <2>3, <2>4
<1> QED BY <1>2, <1>3

\* What the driver reports is sound.
LEMMA ReportSound ==
  ASSUME IInv, exited = Cardinality(Workers), NEW bound \in LeftOpen,
         answer' = Report(bound)
  PROVE  SoundAnswer' /\ OptimalIsProved'
<1> USE DEF IInv
<1>1. CASE thrown \/ failed
  BY <1>1 DEF Report, NoAnswer, SoundAnswer, OptimalIsProved
<1>2. CASE ~thrown /\ ~failed
  <2>1. bound \in Int /\ residual \in Int /\ Margin \in Nat /\ Inf \in Int
    BY LeftOpenBound, GapAssumption, BoundsAssumption DEF TypeOK
  <2>2. \A p \in Feasible : Obj[p] \in Int /\ Obj[p] < Inf /\ GapSlack[Obj[p]] \in Nat
                            /\ Margin <= GapSlack[Obj[p]]
    BY PointsAssumption, BoundsAssumption, GapAssumption
  <2>3. ASSUME NEW p \in Feasible
        PROVE  \/ best # NoPoint /\ Obj[best] - Margin <= Obj[p]
               \/ residual <= Obj[p]
               \/ \E n \in queue : p \in n.dom
    BY <1>2, AllExited DEF NothingLost, Accounted
  <2>4. \A p \in Feasible : bound <= Obj[p] \/ (best # NoPoint /\ Obj[best] - Margin <= Obj[p])
    BY <2>1, <2>2, <2>3, LeftOpenBound
  <2>5. reason = "none" => queue = {} /\ (residual = Inf \/ WithinGap(residual))
    BY <1>2, ClosedSearch
  <2>6. CASE best = NoPoint /\ reason = "none"
    <3>1. answer'.status = "infeasible"
      BY <1>2, <2>6 DEF Report
    <3>2. Feasible = {}
      BY <2>1, <2>2, <2>3, <2>5, <2>6 DEF WithinGap
    <3> QED BY <3>1, <3>2 DEF SoundAnswer, OptimalIsProved
  <2>7. CASE best = NoPoint /\ reason # "none"
    <3>1. answer'.status = "limit" /\ answer'.bound = bound
      BY <1>2, <2>7 DEF Report
    <3>2. \A p \in Feasible : answer'.bound - Margin <= Obj[p]
      BY <2>1, <2>2, <2>4, <2>7, <3>1
    <3> QED BY <3>1, <3>2 DEF SoundAnswer, OptimalIsProved
  <2>8. CASE best # NoPoint
    <3>1. best \in Feasible
      BY <2>8 DEF TypeOK
    <3>2. /\ answer'.status = IF reason # "none" THEN "feasible" ELSE "optimal"
          /\ answer'.x = best /\ answer'.bound = Lower(Obj[best], bound)
      BY <1>2, <2>8 DEF Report
    <3>3. /\ answer'.bound \in Int /\ answer'.bound <= bound /\ answer'.bound <= Obj[best]
          /\ answer'.bound = bound \/ answer'.bound = Obj[best]
      BY <2>1, <2>2, <3>1, <3>2, BoundArithmetic
    <3>4. \A p \in Feasible : answer'.bound - Margin <= Obj[p]
      BY <2>1, <2>2, <2>4, <3>1, <3>3
    <3>5. ASSUME reason = "none"
          PROVE  /\ \A p \in Feasible : Obj[best] - GapSlack[Obj[best]] <= Obj[p]
                 /\ Obj[best] - answer'.bound <= GapSlack[Obj[best]]
      <4>1. queue = {} /\ (residual = Inf \/ WithinGap(residual)) /\ bound = residual
        BY <2>5, <3>5 DEF LeftOpen
      <4>2. \A p \in Feasible : Obj[best] - GapSlack[Obj[best]] <= Obj[p]
        BY <2>1, <2>2, <2>3, <3>1, <4>1 DEF WithinGap
      <4>3. Obj[best] - answer'.bound <= GapSlack[Obj[best]]
        BY <2>1, <2>2, <3>1, <3>3, <4>1, <3>2 DEF WithinGap, Lower
      <4> QED BY <4>2, <4>3
    <3> QED BY <2>8, <3>2, <3>4, <3>5 DEF SoundAnswer, OptimalIsProved
  <2> QED BY <2>6, <2>7, <2>8
<1> QED BY <1>1, <1>2

\* Only the report changes the answer.
LEMMA AnswerStep ==
  ASSUME IInv, [Next]_vars
  PROVE  SoundAnswer' /\ OptimalIsProved'
<1>1. CASE DriverReport
  BY <1>1, ReportSound DEF DriverReport
<1>2. CASE answer' = answer
  BY <1>2 DEF IInv, SoundAnswer, OptimalIsProved
<1>3. ASSUME NEW w \in Workers, Worker(w) PROVE answer' = answer
  BY <1>3 DEF Worker, Take, StopStep, Sync, Test, Solve, TakeEnter, TakeSleep,
     TakeSubtree, TakeOver, WorkerExited, FinishedSubtree, StopReason, StopFlag,
     StopWake, HeadExhausted, HeadTimeLimit, SyncStopped, SyncReport, SyncAdopt,
     SyncShare, DonateCount, DonatePush, DonateDone, TestStopped, TestGap, PickNode,
     NodeClosed, NodeLimitHit, NodeFailed, WorkerThrows, NodeSolved, NodeHeuristic,
     NodeIntegral, NodeBranch, Leave, driverVars
<1>4. answer' = answer \/ DriverReport
  BY <1>3 DEF Next, Driver, DriverStop, DriverInterrupt, DriverStopReason, DriverStopFlag,
     DriverStopWake, DriverSignal, Tick, Done, vars, driverVars
<1> QED BY <1>1, <1>2, <1>4

------------------------------------------------------------------------------
(* The invariant holds                                                     *)

LEMMA InitIInv == Init => IInv
<1> SUFFICES ASSUME Init PROVE IInv
  OBVIOUS
<1>1. TypeOK
  BY InitTypeOK
<1>2. ControlInv /\ PointInv
  BY DEF Init, ControlInv, StopPCs, OutsidePCs, PointInv
<1>3. CountInv
  <2>1. {w \in Workers : pc[w] \in BusyPCs} = {} /\ {w \in Workers : pc[w] = "exited"} = {}
    BY DEF Init, BusyPCs
  <2> QED BY <2>1, FS_EmptySet DEF Init, CountInv
<1>4. \A w \in Workers : Held(w) = {}
  BY DEF Init, Held
<1>5. BoundHolds(RootNode)
  <2>1. \A p \in Feasible : NegInf <= Obj[p]
    BY PointsAssumption, BoundsAssumption
  <2> QED BY <2>1 DEF BoundHolds, RootNode
<1>6. BoundInv
  BY <1>4, <1>5 DEF Init, BoundInv
<1>7. GapInv
  BY DEF Init, GapInv
<1>8. NothingLost
  BY RootIsNode, PointsAssumption DEF Init, NothingLost, Accounted
<1>9. SoundAnswer /\ OptimalIsProved
  BY DEF Init, NoAnswer, SoundAnswer, OptimalIsProved
<1> QED BY <1>1, <1>2, <1>3, <1>6, <1>7, <1>8, <1>9 DEF IInv

LEMMA StepIInv == IInv /\ [Next]_vars => IInv'
<1> SUFFICES ASSUME IInv, [Next]_vars PROVE IInv'
  OBVIOUS
<1> USE DEF IInv
<1>1. TypeOK' /\ SoundAnswer' /\ OptimalIsProved'
  BY NextTypeOK, AnswerStep
<1>2. ASSUME NEW w \in Workers, Worker(w)
      PROVE  ControlInv' /\ CountInv' /\ BoundInv' /\ PointInv' /\ GapInv' /\ NothingLost'
  BY <1>2, WorkerControl, WorkerCount, QuietOrMoves, QuietBound, MovesBound, WorkerPoint,
     WorkerGap, WorkerLost
<1>3. ASSUME Driver \/ Tick
      PROVE  ControlInv' /\ CountInv' /\ BoundInv' /\ PointInv' /\ GapInv' /\ NothingLost'
  <2>1. BoundInv' /\ PointInv'
    BY <1>3, DriverKeeps DEF BoundInv, PointInv, workVars
  <2>2. ControlInv'
    BY <1>3, DriverControl DEF Tick, ControlInv, sharedVars, stopVars, sumVars, workVars, driverVars
  <2>3. CountInv'
    BY <1>3, DriverCount DEF Tick, CountInv, sharedVars, stopVars
  <2> QED BY <1>3, <2>1, <2>2, <2>3, DriverGap, DriverLost
<1>4. CASE UNCHANGED vars
  <2>1. \A w \in Workers : Held(w)' = Held(w)
    BY <1>4 DEF Held, vars, workVars
  <2>2. ControlInv' /\ CountInv' /\ PointInv' /\ GapInv'
    BY <1>4 DEF vars, sharedVars, stopVars, sumVars, workVars, driverVars, ControlInv,
                CountInv, PointInv, GapInv, WithinGap
  <2>3. BoundInv' /\ NothingLost'
    BY <1>4, <2>1 DEF vars, sharedVars, stopVars, sumVars, workVars, BoundInv,
                      NothingLost, Accounted
  <2> QED BY <1>1, <2>2, <2>3
<1> QED BY <1>1, <1>2, <1>3, <1>4 DEF Next, Done

LEMMA Invariance == Spec => []IInv
BY InitIInv, StepIInv, PTL DEF Spec

\* No interleaving of the workers loses a feasible assignment.
THEOREM SearchLosesNothing == Spec => []NothingLost
<1>1. IInv => NothingLost
  BY DEF IInv
<1> QED BY <1>1, Invariance, PTL

\* What the driver answers is true of the model.
THEOREM AnswerIsSound == Spec => []SoundAnswer
<1>1. IInv => SoundAnswer
  BY DEF IInv
<1> QED BY <1>1, Invariance, PTL

\* An "optimal" answer comes with a bound within the gap target.
THEOREM OptimalHasProof == Spec => []OptimalIsProved
<1>1. IInv => OptimalIsProved
  BY DEF IInv
<1> QED BY <1>1, Invariance, PTL

\* No step replaces the shared incumbent by a worse one.
THEOREM IncumbentImproves == Spec => IncumbentNeverWorsens
<1>1. IInv /\ [Next]_vars => (best # NoPoint => best' # NoPoint /\ Obj[best'] <= Obj[best])
  BY BestImproves DEF IInv
<1> QED BY <1>1, Invariance, PTL DEF Spec, IncumbentNeverWorsens

------------------------------------------------------------------------------
(* The protocol counts nodes where the search keeps them, so what has to   *)
(* be known of the search is that no node is in two places, and that it    *)
(* explores no more nodes than the protocol allows.                        *)

\* The assignments some nodes cover.
Covered(S) == UNION {n.dom : n \in S}

\* The workers that have a node to report.
Unreported == {w \in Workers : fresh[w] = 1}

\* A node that covers k assignments has at most 2k - 1 nodes below it, itself
\* included: what is explored and what may still be never exceed the root's.
BudgetInv ==
  nodes + Cardinality(Unreported) + 2 * Cardinality(Covered(LiveNodes))
    - Cardinality(LiveNodes) - Cardinality(Solving) <= 2 * Cardinality(Points) - 1

------------------------------------------------------------------------------
(* Sets of nodes that are apart                                            *)

\* There are no more of them than assignments they cover.
LEMMA ApartIsFinite ==
  ASSUME NEW S \in SUBSET Node, Apart(S)
  PROVE  /\ IsFiniteSet(S) /\ IsFiniteSet(Covered(S))
         /\ Cardinality(S) \in Nat /\ Cardinality(Covered(S)) \in Nat
         /\ Cardinality(S) <= Cardinality(Covered(S))
<1> DEFINE f == [n \in S |-> CHOOSE p \in n.dom : TRUE]
<1>1. \A n \in S : n.dom \subseteq Points
  BY DEF Node
<1>2. Covered(S) \in SUBSET Points
  BY <1>1 DEF Covered
<1>3. IsFiniteSet(Covered(S))
  BY <1>2, FS_Subset, PointsAssumption
<1>4. \A n \in S : f[n] \in n.dom
  <2> SUFFICES ASSUME NEW n \in S PROVE f[n] \in n.dom
    OBVIOUS
  <2>1. \E p : p \in n.dom
    BY DEF Apart
  <2>2. (CHOOSE p \in n.dom : TRUE) \in n.dom
    BY <2>1, Zenon
  <2> QED BY <2>2
<1>5. f \in Injection(S, Covered(S))
  <2>1. f \in [S -> Covered(S)]
    BY <1>4 DEF Covered
  <2>2. \A m, n \in S : f[m] = f[n] => m = n
    BY <1>4 DEF Apart
  <2> HIDE DEF f
  <2> QED BY <2>1, <2>2 DEF Injection, IsInjective
<1> HIDE DEF f
<1>6. IsFiniteSet(S) /\ Cardinality(S) <= Cardinality(Covered(S))
  BY <1>3, <1>5, FS_Injection
<1> QED BY <1>3, <1>6, FS_CardinalityType

LEMMA DisjointUnion ==
  ASSUME NEW A, NEW B, IsFiniteSet(A), IsFiniteSet(B), A \cap B = {}
  PROVE  Cardinality(A \cup B) = Cardinality(A) + Cardinality(B)
<1>1. Cardinality(A \cap B) = 0
  BY FS_EmptySet
<1>2. Cardinality(A) \in Nat /\ Cardinality(B) \in Nat
  BY FS_CardinalityType
<1>3. Cardinality(A \cup B) = Cardinality(A) + Cardinality(B) - Cardinality(A \cap B)
  BY FS_Union
<1> QED BY <1>1, <1>2, <1>3

\* Dropping nodes lowers twice the assignments less the nodes, by one at least
\* for every node.
LEMMA DropLowers ==
  ASSUME NEW S \in SUBSET Node, Apart(S), NEW T \in SUBSET S
  PROVE  /\ 2 * Cardinality(Covered(T)) - Cardinality(T)
              <= 2 * Cardinality(Covered(S)) - Cardinality(S)
         /\ T # S => 2 * Cardinality(Covered(T)) - Cardinality(T) + 1
                       <= 2 * Cardinality(Covered(S)) - Cardinality(S)
<1> DEFINE R == S \ T
<1>1. Apart(T) /\ Apart(R) /\ T \in SUBSET Node /\ R \in SUBSET Node
  BY DEF Apart
<1>2. /\ IsFiniteSet(S) /\ IsFiniteSet(T) /\ IsFiniteSet(R)
      /\ Cardinality(S) \in Nat /\ Cardinality(T) \in Nat /\ Cardinality(R) \in Nat
      /\ IsFiniteSet(Covered(S)) /\ IsFiniteSet(Covered(T)) /\ IsFiniteSet(Covered(R))
      /\ Cardinality(Covered(S)) \in Nat /\ Cardinality(Covered(T)) \in Nat
      /\ Cardinality(Covered(R)) \in Nat /\ Cardinality(R) <= Cardinality(Covered(R))
  <2> HIDE DEF R
  <2> QED BY <1>1, ApartIsFinite
<1>3. T \cup R = S /\ T \cap R = {}
  OBVIOUS
<1>4. Covered(T) \cup Covered(R) = Covered(S)
  BY <1>3 DEF Covered
<1>5. Covered(T) \cap Covered(R) = {}
  BY DEF Covered, Apart
<1>6. T # S => R # {}
  OBVIOUS
<1> HIDE DEF R
<1>7. Cardinality(S) = Cardinality(T) + Cardinality(R)
  BY <1>2, <1>3, DisjointUnion
<1>8. Cardinality(Covered(S)) = Cardinality(Covered(T)) + Cardinality(Covered(R))
  BY <1>2, <1>4, <1>5, DisjointUnion
<1>9. T # S => Cardinality(R) >= 1
  BY <1>2, <1>6, FS_EmptySet
<1> QED BY <1>2, <1>7, <1>8, <1>9

\* Two sets of workers that differ in one of them at most.
One(b) == IF b THEN 1 ELSE 0

LEMMA CountChange ==
  ASSUME NEW w \in Workers, NEW S \in SUBSET Workers, NEW T \in SUBSET Workers,
         S \ {w} = T \ {w}
  PROVE  /\ Cardinality(S) \in Nat /\ Cardinality(T) \in Nat
         /\ Cardinality(T) - One(w \in T) = Cardinality(S) - One(w \in S)
<1>1. IsFiniteSet(S) /\ IsFiniteSet(T)
  BY FS_Subset, WorkersAssumption
<1>2. Cardinality(S) \in Nat /\ Cardinality(T) \in Nat
  BY <1>1, FS_CardinalityType
<1>3. Cardinality(S \ {w}) = Cardinality(S) - One(w \in S)
  <2>1. Cardinality(S \ {w}) = IF w \in S THEN Cardinality(S) - 1 ELSE Cardinality(S)
    BY <1>1, FS_RemoveElement
  <2> QED BY <1>2, <2>1 DEF One
<1>4. Cardinality(T \ {w}) = Cardinality(T) - One(w \in T)
  <2>1. Cardinality(T \ {w}) = IF w \in T THEN Cardinality(T) - 1 ELSE Cardinality(T)
    BY <1>1, FS_RemoveElement
  <2> QED BY <1>2, <2>1 DEF One
<1>5. One(w \in S) \in Int /\ One(w \in T) \in Int
  BY DEF One
<1> QED BY <1>2, <1>3, <1>4, <1>5

------------------------------------------------------------------------------
(* No node is in two places                                                *)

\* A worker's step leaves what the others hold, solve and have to report.
LEMMA OthersLive ==
  ASSUME TypeOK, NEW w \in Workers, Worker(w), NEW v \in Workers, v # w
  PROVE  /\ Live(v)' = Live(v) /\ fresh'[v] = fresh[v]
         /\ v \in Solving' <=> v \in Solving
         /\ cur'[v] = cur[v] /\ open'[v] = open[v]
<1>1. pc'[v] = pc[v] /\ Held(v)' = Held(v) /\ cur'[v] = cur[v] /\ open'[v] = open[v]
  BY OthersKept
<1>2. fresh'[v] = fresh[v]
  <2> USE DEF TypeOK, workVars
  <2>1. ASSUME Take(w) \/ StopStep(w) PROVE fresh'[v] = fresh[v]
    BY <2>1 DEF Take, TakeEnter, TakeSleep, TakeSubtree, TakeOver, WorkerExited,
                FinishedSubtree, StopStep, StopReason, StopFlag, StopWake
  <2>2. ASSUME Sync(w) PROVE fresh'[v] = fresh[v]
    BY <2>2 DEF Sync, HeadExhausted, HeadTimeLimit, SyncStopped, SyncReport, SyncAdopt,
                SyncShare, DonateCount, DonatePush, DonateDone
  <2>3. ASSUME Test(w) \/ Leave(w) PROVE fresh'[v] = fresh[v]
    BY <2>3 DEF Test, TestStopped, TestGap, PickNode, Leave
  <2>4. ASSUME Solve(w) PROVE fresh'[v] = fresh[v]
    BY <2>4 DEF Solve, NodeClosed, NodeLimitHit, NodeFailed, WorkerThrows, NodeSolved,
                NodeHeuristic, NodeIntegral, NodeBranch
  <2> QED BY <2>1, <2>2, <2>3, <2>4 DEF Worker
<1> QED BY <1>1, <1>2 DEF Live, Solving

\* A step after which the queue and a worker hold no node they did not hold
\* between them, and never the same one.
Narrows(w) ==
  /\ queue' \cup Live(w)' \subseteq queue \cup Live(w)
  /\ queue' \cap Live(w)' = {}
  /\ w \in Solving' => cur'[w] \notin open'[w]

\* A node is counted when it is entered, and gone when it is left.
Spends(w) ==
  /\ nodes' + fresh'[w] <= nodes + fresh[w] + One(w \notin Solving /\ w \in Solving')
  /\ w \in Solving /\ w \notin Solving' => cur[w] \notin queue' \cup Live(w)'

LEMMA NarrowApart ==
  ASSUME TypeOK, NoNodeTwice, NEW w \in Workers, Worker(w), Narrows(w)
  PROVE  NoNodeTwice' /\ LiveNodes' \subseteq LiveNodes
<1>1. \A v \in Workers : v # w => Live(v)' = Live(v)
  BY OthersLive
<1>2. LiveNodes' \subseteq LiveNodes
  BY <1>1 DEF LiveNodes, Narrows
<1>3. Apart(LiveNodes')
  BY <1>2 DEF NoNodeTwice, Apart
<1>4. \A v \in Workers : v # w => Live(v)' \cap (queue' \cup Live(w)') = {}
  BY <1>1 DEF NoNodeTwice, Narrows
<1>5. \A v \in Workers : Live(v)' \cap queue' = {}
  BY <1>4 DEF Narrows
<1>6. \A u, v \in Workers : u # v => Live(u)' \cap Live(v)' = {}
  BY <1>1, <1>4 DEF NoNodeTwice
<1>7. \A v \in Workers : v \in Solving' => cur'[v] \notin open'[v]
  BY OthersLive DEF NoNodeTwice, Narrows
<1> QED BY <1>2, <1>3, <1>5, <1>6, <1>7 DEF NoNodeTwice, Apart, Solving

\* What a step adds to the count it takes from what is left to explore.
LEMMA NarrowBudget ==
  ASSUME TypeOK, TypeOK', NoNodeTwice, BudgetInv, NEW w \in Workers, Worker(w), Narrows(w),
         Spends(w)
  PROVE  BudgetInv'
<1> DEFINE A == LiveNodes
           F == Unreported
           C == Solving
           potential == 2 * Cardinality(Covered(A)) - Cardinality(A)
<1>1. NoNodeTwice' /\ A' \subseteq A
  BY NarrowApart
<1>2. A \in SUBSET Node /\ A' \in SUBSET Node
  BY <1>1 DEF LiveNodes, Live, Held, TypeOK
<1>3. Apart(A) /\ Apart(A')
  BY <1>1 DEF NoNodeTwice, Apart
<1>4. /\ potential' <= potential
      /\ A' # A => potential' + 1 <= potential
  <2> HIDE DEF A
  <2> QED BY <1>1, <1>2, <1>3, DropLowers
<1>5. potential \in Int /\ potential' \in Int
  <2>1. /\ Cardinality(A) \in Nat /\ Cardinality(Covered(A)) \in Nat
        /\ Cardinality(A') \in Nat /\ Cardinality(Covered(A')) \in Nat
    <3> HIDE DEF A
    <3> QED BY <1>2, <1>3, ApartIsFinite
  <2> QED BY <2>1
<1>6. /\ Cardinality(F) \in Nat /\ Cardinality(F') \in Nat
      /\ Cardinality(F') - fresh'[w] = Cardinality(F) - fresh[w]
  <2>1. F \ {w} = F' \ {w}
    BY OthersLive DEF Unreported
  <2>2. /\ Cardinality(F) \in Nat /\ Cardinality(F') \in Nat
        /\ Cardinality(F') - One(w \in F') = Cardinality(F) - One(w \in F)
    <3>1. F \in SUBSET Workers /\ F' \in SUBSET Workers
      BY DEF Unreported
    <3> HIDE DEF F
    <3> QED BY <2>1, <3>1, CountChange
  <2>3. One(w \in F) = fresh[w] /\ One(w \in F') = fresh'[w]
    BY DEF Unreported, One, TypeOK
  <2> QED BY <2>2, <2>3
<1>7. /\ Cardinality(C) \in Nat /\ Cardinality(C') \in Nat
      /\ Cardinality(C') - One(w \in C') = Cardinality(C) - One(w \in C)
  <2>1. C \in SUBSET Workers /\ C' \in SUBSET Workers
    BY DEF Solving
  <2>2. C \ {w} = C' \ {w}
    <3>1. \A v \in Workers : v # w => (v \in C' <=> v \in C)
      BY OthersLive
    <3> HIDE DEF C
    <3> QED BY <2>1, <3>1
  <2> HIDE DEF C
  <2> QED BY <2>1, <2>2, CountChange
<1>8. w \in C /\ w \notin C' => A' # A
  <2> SUFFICES ASSUME w \in C, w \notin C' PROVE A' # A
    OBVIOUS
  <2>1. cur[w] \in Live(w) /\ cur[w] \in A
    BY DEF Solving, Live, LoopPCs, Held, LiveNodes
  <2>2. cur[w] \notin queue' \cup Live(w)'
    BY DEF Spends
  <2>3. \A v \in Workers : v # w => cur[w] \notin Live(v)'
    BY <2>1, OthersLive DEF NoNodeTwice
  <2>4. cur[w] \notin A'
    BY <2>2, <2>3 DEF LiveNodes
  <2> QED BY <2>1, <2>4
<1>9. /\ nodes \in Nat /\ nodes' \in Nat /\ fresh[w] \in Nat /\ fresh'[w] \in Nat
  BY DEF TypeOK
<1>10. Cardinality(Points) \in Nat
  BY PointsAssumption, FS_CardinalityType
<1>11. nodes' + fresh'[w] <= nodes + fresh[w] + One(w \notin C /\ w \in C')
  BY DEF Spends
<1>12. nodes + Cardinality(F) + potential - Cardinality(C) <= 2 * Cardinality(Points) - 1
  <2>1. /\ Cardinality(A) \in Nat /\ Cardinality(Covered(A)) \in Nat
    <3> HIDE DEF A
    <3> QED BY <1>2, <1>3, ApartIsFinite
  <2> QED BY <2>1, <1>6, <1>7, <1>9, <1>10 DEF BudgetInv
<1>13. nodes' + Cardinality(F') + potential' - Cardinality(C') <= 2 * Cardinality(Points) - 1
  <2> HIDE DEF A, F, C
  <2>1. CASE w \in C /\ w \notin C'
    <3>1. Cardinality(C') = Cardinality(C) - 1 /\ potential' + 1 <= potential
      BY <2>1, <1>4, <1>7, <1>8 DEF One
    <3>2. nodes' + fresh'[w] <= nodes + fresh[w]
      BY <2>1, <1>9, <1>11 DEF One
    <3> QED BY <3>1, <3>2, <1>5, <1>6, <1>7, <1>9, <1>10, <1>12
  <2>2. CASE w \notin C /\ w \in C'
    <3>1. Cardinality(C') = Cardinality(C) + 1
      BY <2>2, <1>7 DEF One
    <3>2. nodes' + fresh'[w] <= nodes + fresh[w] + 1
      BY <2>2, <1>11 DEF One
    <3> QED BY <3>1, <3>2, <1>4, <1>5, <1>6, <1>7, <1>9, <1>10, <1>12
  <2>3. CASE w \in C <=> w \in C'
    <3>1. Cardinality(C') = Cardinality(C)
      BY <2>3, <1>7 DEF One
    <3>2. nodes' + fresh'[w] <= nodes + fresh[w]
      BY <2>3, <1>9, <1>11 DEF One
    <3> QED BY <3>1, <3>2, <1>4, <1>5, <1>6, <1>7, <1>9, <1>10, <1>12
  <2> QED BY <2>1, <2>2, <2>3
<1> QED
  <2>1. /\ Cardinality(A') \in Nat /\ Cardinality(Covered(A')) \in Nat
    <3> HIDE DEF A
    <3> QED BY <1>2, <1>3, ApartIsFinite
  <2> QED BY <2>1, <1>6, <1>7, <1>9, <1>10, <1>13 DEF BudgetInv

\* Steps that move no node, as long as the worker stays where it goes on with
\* its nodes; when it leaves, it may drop them.
LEMMA QuietNarrows ==
  ASSUME TypeOK, NoNodeTwice, NEW w \in Workers, Quiet(w)
  PROVE  Narrows(w) /\ Spends(w)
<1>1. queue' = queue /\ Held(w)' = Held(w) /\ open' = open /\ cur' = cur
  BY QuietKeeps
<1>2. /\ w \in Solving <=> w \in Solving'
      /\ nodes' + fresh'[w] = nodes + fresh[w]
      /\ pc'[w] \in LoopPCs => pc[w] \in LoopPCs
  <2> USE DEF TypeOK, workVars, sumVars, Goto, StopThen, LeaveWith, Solving, LoopPCs
  <2>1. CASE TakeEnter(w) \/ TakeSleep(w) \/ TakeOver(w) \/ WorkerExited(w)
    BY <2>1 DEF TakeEnter, TakeSleep, TakeOver, WorkerExited, Awake
  <2>2. CASE StopStep(w)
    <3>1. ret[w] \in {"leave", "finish"}
      OBVIOUS
    <3> QED BY <2>2, <3>1 DEF StopStep, StopReason, StopFlag, StopWake
  <2>3. CASE HeadExhausted(w) \/ HeadTimeLimit(w) \/ SyncStopped(w) \/ SyncReport(w)
    BY <2>3 DEF HeadExhausted, HeadTimeLimit, SyncStopped, SyncReport
  <2>4. CASE SyncAdopt(w) \/ SyncShare(w) \/ DonateCount(w) \/ DonateDone(w)
    BY <2>4 DEF SyncAdopt, SyncShare, DonateCount, DonateDone
  <2>5. CASE TestStopped(w) \/ TestGap(w) \/ NodeSolved(w) \/ NodeHeuristic(w)
    BY <2>5 DEF TestStopped, TestGap, NodeSolved, NodeHeuristic
  <2> QED BY <2>1, <2>2, <2>3, <2>4, <2>5 DEF Quiet
<1>3. Live(w)' \subseteq Live(w)
  BY <1>1, <1>2 DEF Live
<1>4. Narrows(w)
  BY <1>1, <1>2, <1>3 DEF Narrows, NoNodeTwice
<1>5. nodes + fresh[w] \in Int
  BY DEF TypeOK
<1>6. Spends(w)
  BY <1>2, <1>5 DEF Spends, One
<1> QED BY <1>4, <1>6

\* A subtree is taken from the queue, a node given to it.
LEMMA PassingNarrows ==
  ASSUME TypeOK, NoNodeTwice, NEW w \in Workers, TakeSubtree(w) \/ DonatePush(w)
  PROVE  Narrows(w) /\ Spends(w)
<1> USE DEF TypeOK, workVars, sumVars, Goto
<1>1. CASE TakeSubtree(w)
  <2>1. PICK n \in Smallest(queue) :
          queue' = queue \ {n} /\ open' = [open EXCEPT ![w] = {n}]
    BY <1>1 DEF TakeSubtree
  <2>2. /\ pc[w] = "waiting" /\ pc'[w] = "head" /\ open'[w] = {n} /\ n \in queue
        /\ nodes' = nodes /\ fresh'[w] = 0
    BY <1>1, <2>1 DEF TakeSubtree, Awake, Smallest
  <2>3. Live(w)' = {n} /\ w \notin Solving /\ w \notin Solving'
    BY <2>2 DEF Live, Held, LoopPCs, Solving
  <2>4. fresh[w] \in 0 .. 1
    OBVIOUS
  <2>5. nodes' + fresh'[w] <= nodes + fresh[w]
    BY <2>2, <2>4
  <2> QED BY <2>1, <2>2, <2>3, <2>5 DEF Narrows, Spends, One
<1>2. CASE DonatePush(w)
  <2>1. PICK n \in open[w] :
          queue' = queue \cup {n} /\ open' = [open EXCEPT ![w] = @ \ {n}]
    BY <1>2 DEF DonatePush
  <2>2. /\ pc[w] = "push" /\ pc'[w] = "push" /\ open'[w] = open[w] \ {n}
        /\ nodes' = nodes /\ fresh'[w] = fresh[w]
    BY <1>2, <2>1 DEF DonatePush
  <2>3. Live(w) = open[w] /\ Live(w)' = open[w] \ {n} /\ w \notin Solving /\ w \notin Solving'
    BY <2>2 DEF Live, Held, LoopPCs, Solving
  <2>4. Live(w) \cap queue = {}
    BY DEF NoNodeTwice
  <2>5. nodes' + fresh'[w] <= nodes + fresh[w]
    BY <2>2
  <2> QED BY <2>1, <2>3, <2>4, <2>5 DEF Narrows, Spends, One
<1> QED BY <1>1, <1>2

\* The node a worker enters comes from its open list; a node it is done with is
\* in nobody's.
LEMMA NodeStepsNarrow ==
  ASSUME TypeOK, NoNodeTwice, NEW w \in Workers,
         \/ PickNode(w) \/ NodeClosed(w) \/ NodeIntegral(w) \/ NodeLimitHit(w)
         \/ NodeFailed(w) \/ WorkerThrows(w)
  PROVE  Narrows(w) /\ Spends(w)
<1> USE DEF TypeOK, workVars, sumVars, sharedVars, Goto, StopThen, LeaveWith
<1>a. Live(w) \cap queue = {} /\ (w \in Solving => cur[w] \notin open[w])
  BY DEF NoNodeTwice
<1>1. CASE PickNode(w)
  <2>1. PICK n \in open[w] :
          /\ open' = [open EXCEPT ![w] = @ \ {n}]
          /\ \/ Goto(w, "head") /\ UNCHANGED <<cur, fresh>>
             \/ /\ Goto(w, "lp")
                /\ cur' = [cur EXCEPT ![w] = n]
                /\ fresh' = [fresh EXCEPT ![w] = 1]
    BY <1>1 DEF PickNode
  <2>2. /\ pc[w] = "test" /\ queue' = queue /\ nodes' = nodes /\ open'[w] = open[w] \ {n}
        /\ \/ pc'[w] = "head" /\ fresh'[w] = fresh[w]
           \/ pc'[w] = "lp" /\ cur'[w] = n /\ fresh'[w] = 1
    BY <1>1, <2>1 DEF PickNode
  <2>3. /\ Live(w) = open[w] /\ Live(w)' \subseteq open[w] /\ w \notin Solving
        /\ w \in Solving' <=> pc'[w] = "lp"
    BY <2>2 DEF Live, Held, LoopPCs, Solving
  <2>4. Narrows(w)
    BY <2>2, <2>3, <1>a DEF Narrows
  <2>5. fresh[w] \in 0 .. 1 /\ nodes \in Nat
    OBVIOUS
  <2>6. Spends(w)
    BY <2>2, <2>3, <2>5 DEF Spends, One
  <2> QED BY <2>4, <2>6
<1>2. CASE NodeClosed(w) \/ NodeIntegral(w)
  <2>1. /\ pc[w] \in {"lp", "heur"} /\ pc'[w] = "head" /\ queue' = queue /\ open' = open
        /\ nodes' = nodes /\ fresh' = fresh
    BY <1>2 DEF NodeClosed, NodeIntegral
  <2>2. /\ Live(w) = open[w] \cup {cur[w]} /\ Live(w)' = open[w]
        /\ w \in Solving /\ w \notin Solving'
    BY <2>1 DEF Live, Held, LoopPCs, Solving
  <2> QED BY <2>1, <2>2, <1>a DEF Narrows, Spends, One
<1>3. CASE NodeLimitHit(w) \/ NodeFailed(w)
  <2>1. /\ pc[w] = "lp" /\ pc'[w] \in {"leave", "stopReason"} /\ queue' = queue
        /\ nodes' = nodes /\ fresh' = fresh
    BY <1>3 DEF NodeLimitHit, NodeFailed
  <2>2. Live(w)' = {} /\ cur[w] \in Live(w) /\ w \in Solving /\ w \notin Solving'
    BY <2>1 DEF Live, Held, LoopPCs, Solving
  <2> QED BY <2>1, <2>2, <1>a DEF Narrows, Spends, One
<1>4. CASE WorkerThrows(w)
  <2>1. /\ pc[w] \in {"lp", "push"} /\ pc'[w] = "stopReason" /\ queue' = queue
        /\ nodes' = nodes /\ fresh' = fresh
    BY <1>4 DEF WorkerThrows
  <2>2. /\ Live(w)' = {} /\ w \notin Solving'
        /\ w \in Solving => cur[w] \in Live(w)
    BY <2>1 DEF Live, Held, LoopPCs, Solving
  <2> QED BY <2>1, <2>2, <1>a DEF Narrows, Spends, One
<1> QED BY <1>1, <1>2, <1>3, <1>4

\* What is left at the end of a subtree was no longer live.
LEMMA EndingNarrows ==
  ASSUME TypeOK, NoNodeTwice, NEW w \in Workers, FinishedSubtree(w) \/ Leave(w)
  PROVE  Narrows(w) /\ Spends(w)
<1> USE DEF TypeOK, workVars, sumVars, sharedVars, Goto, StopThen
<1>1. /\ pc[w] \in {"finish", "leave"} /\ pc'[w] \in {"take", "stopReason", "finish"}
      /\ queue' = queue
      /\ nodes' + fresh'[w] <= nodes + fresh[w]
  BY DEF FinishedSubtree, Leave
<1>2. Live(w) = {} /\ Live(w)' = {} /\ w \notin Solving /\ w \notin Solving'
  BY <1>1 DEF Live, LoopPCs, Solving
<1> QED BY <1>1, <1>2 DEF Narrows, Spends, One

LEMMA NoBranchNarrows ==
  ASSUME TypeOK, NoNodeTwice, NEW w \in Workers, Worker(w), ~NodeBranch(w)
  PROVE  Narrows(w) /\ Spends(w)
<1>1. CASE Quiet(w)
  BY <1>1, QuietNarrows
<1>2. CASE Moves(w)
  BY <1>2, PassingNarrows, NodeStepsNarrow, EndingNarrows DEF Moves
<1> QED BY <1>1, <1>2, QuietOrMoves

------------------------------------------------------------------------------
(* Branching                                                               *)

\* The two children split the assignments of the node between them.
LEMMA ChildrenSplit ==
  ASSUME NEW n \in Node, NEW b \in Bounds, NEW H \in BranchSplits(n)
  PROVE  LET m == [dom |-> n.dom \cap H, bound |-> b]
             k == [dom |-> n.dom \ H, bound |-> b]
         IN  /\ Children(n, b, H) = {m, k} /\ m \in Node /\ k \in Node
             /\ m.dom # {} /\ k.dom # {} /\ m.dom \cap k.dom = {}
             /\ m.dom \cup k.dom = n.dom
<1>1. n.dom \in SUBSET Points
  BY DEF Node
<1> QED BY <1>1 DEF Children, BranchSplits, Node

\* What a branching step does to the live nodes: the node gives way to its two
\* children, and one is not the other nor any node that was there.
LEMMA BranchReplaces ==
  ASSUME TypeOK, NoNodeTwice, NEW w \in Workers, Worker(w), NodeBranch(w)
  PROVE  \E m, k \in Node :
           /\ m.dom # {} /\ k.dom # {} /\ m.dom \cap k.dom = {}
           /\ m.dom \cup k.dom = cur[w].dom
           /\ m # k /\ {m, k} \cap (LiveNodes \ {cur[w]}) = {}
           /\ cur[w] \in LiveNodes /\ cur[w] \notin open[w] /\ open[w] \subseteq LiveNodes
           /\ queue' = queue /\ open' = [open EXCEPT ![w] = @ \cup {m, k}]
           /\ Live(w) = open[w] \cup {cur[w]} /\ Live(w)' = open[w] \cup {m, k}
           /\ LiveNodes' = (LiveNodes \ {cur[w]}) \cup {m, k}
<1> PICK H \in BranchSplits(cur[w]) :
      open' = [open EXCEPT ![w] = @ \cup Children(cur[w], lpBound[w], H)]
  BY DEF NodeBranch
<1>1. cur[w] \in Node /\ lpBound[w] \in Bounds
  BY DEF TypeOK
<1> DEFINE m == [dom |-> cur[w].dom \cap H, bound |-> lpBound[w]]
           k == [dom |-> cur[w].dom \ H, bound |-> lpBound[w]]
<1>2. /\ Children(cur[w], lpBound[w], H) = {m, k} /\ m \in Node /\ k \in Node
      /\ m.dom # {} /\ k.dom # {} /\ m.dom \cap k.dom = {}
      /\ m.dom \cup k.dom = cur[w].dom
  BY <1>1, ChildrenSplit
<1>3. open'[w] = open[w] \cup {m, k} /\ open' = [open EXCEPT ![w] = @ \cup {m, k}]
  BY <1>2 DEF TypeOK
<1> HIDE DEF m, k
<1>4. pc[w] = "heur" /\ pc'[w] = "head" /\ queue' = queue
  BY DEF NodeBranch, Goto, TypeOK, sharedVars
<1>5. /\ Live(w) = open[w] \cup {cur[w]} /\ Live(w)' = open[w] \cup {m, k}
      /\ cur[w] \notin open[w]
  BY <1>3, <1>4 DEF Live, Held, LoopPCs, Solving, NoNodeTwice
<1>6. cur[w] \in LiveNodes /\ open[w] \subseteq LiveNodes
  BY <1>5 DEF LiveNodes
<1>7. m # k
  BY <1>2
<1>8. ASSUME NEW n \in LiveNodes, n # cur[w] PROVE n # m /\ n # k
  <2>1. n.dom \cap cur[w].dom = {}
    BY <1>6, <1>8 DEF NoNodeTwice, Apart
  <2> QED BY <2>1, <1>2
<1>9. LiveNodes' = (LiveNodes \ {cur[w]}) \cup {m, k}
  <2>1. \A v \in Workers : v # w => Live(v)' = Live(v) /\ cur[w] \notin Live(v)
    BY <1>5, OthersLive DEF NoNodeTwice
  <2>2. cur[w] \notin queue
    BY <1>5 DEF NoNodeTwice
  <2>3. \A n \in LiveNodes' : n \in (LiveNodes \ {cur[w]}) \cup {m, k}
    BY <1>4, <1>5, <2>1, <2>2 DEF LiveNodes
  <2>4. \A n \in LiveNodes \ {cur[w]} : n \in LiveNodes'
    BY <1>4, <1>5, <2>1 DEF LiveNodes
  <2>5. m \in LiveNodes' /\ k \in LiveNodes'
    BY <1>5 DEF LiveNodes
  <2> QED BY <2>3, <2>4, <2>5
<1> QED BY <1>2, <1>3, <1>4, <1>5, <1>6, <1>7, <1>8, <1>9

LEMMA BranchApart ==
  ASSUME TypeOK, NoNodeTwice, NEW w \in Workers, Worker(w), NodeBranch(w)
  PROVE  NoNodeTwice'
<1> PICK m \in Node, k \in Node :
           /\ m.dom # {} /\ k.dom # {} /\ m.dom \cap k.dom = {}
           /\ m.dom \cup k.dom = cur[w].dom
           /\ m # k /\ {m, k} \cap (LiveNodes \ {cur[w]}) = {}
           /\ cur[w] \in LiveNodes /\ cur[w] \notin open[w] /\ open[w] \subseteq LiveNodes
           /\ queue' = queue
           /\ Live(w) = open[w] \cup {cur[w]} /\ Live(w)' = open[w] \cup {m, k}
           /\ LiveNodes' = (LiveNodes \ {cur[w]}) \cup {m, k}
  BY BranchReplaces
<1>1. \A n \in LiveNodes \ {cur[w]} : n.dom \cap m.dom = {} /\ n.dom \cap k.dom = {}
  BY DEF NoNodeTwice, Apart
<1>2. Apart(LiveNodes')
  BY <1>1 DEF NoNodeTwice, Apart
<1>3. \A v \in Workers : v # w => Live(v)' = Live(v)
  BY OthersLive
<1>4. \A v \in Workers : v # w => Live(v) \cap {m, k} = {}
  <2> SUFFICES ASSUME NEW v \in Workers, v # w PROVE Live(v) \cap {m, k} = {}
    OBVIOUS
  <2>1. cur[w] \notin Live(v)
    BY DEF NoNodeTwice
  <2>2. Live(v) \subseteq LiveNodes \ {cur[w]}
    BY <2>1 DEF LiveNodes
  <2> QED BY <2>2
<1>5. \A v \in Workers : v # w => Live(v)' \cap Live(w)' = {}
  BY <1>3, <1>4 DEF NoNodeTwice
<1>6. \A u, v \in Workers : u # v => Live(u)' \cap Live(v)' = {}
  BY <1>3, <1>5 DEF NoNodeTwice
<1>7. Live(w)' \cap queue' = {}
  <2>1. queue \subseteq LiveNodes \ {cur[w]}
    BY DEF LiveNodes, NoNodeTwice
  <2> QED BY <2>1 DEF NoNodeTwice
<1>8. \A v \in Workers : Live(v)' \cap queue' = {}
  BY <1>3, <1>7 DEF NoNodeTwice
<1>9. \A v \in Workers : v \in Solving' => cur'[v] \notin open'[v]
  <2>1. w \notin Solving'
    BY DEF NodeBranch, Goto, TypeOK, Solving
  <2> QED BY <2>1, OthersLive DEF NoNodeTwice
<1> QED BY <1>2, <1>6, <1>8, <1>9 DEF NoNodeTwice, Apart, Solving

\* One more node is live, and one worker less is solving one.
LEMMA BranchBudget ==
  ASSUME TypeOK, NoNodeTwice, BudgetInv, NEW w \in Workers, Worker(w), NodeBranch(w)
  PROVE  BudgetInv'
<1> PICK m \in Node, k \in Node :
           /\ m.dom \cup k.dom = cur[w].dom
           /\ m # k /\ {m, k} \cap (LiveNodes \ {cur[w]}) = {}
           /\ cur[w] \in LiveNodes
           /\ LiveNodes' = (LiveNodes \ {cur[w]}) \cup {m, k}
  BY BranchReplaces
<1>1. Covered(LiveNodes') = Covered(LiveNodes)
  BY DEF Covered
<1>2. IsFiniteSet(LiveNodes) /\ Cardinality(LiveNodes) \in Nat
      /\ Cardinality(Covered(LiveNodes)) \in Nat
  <2>1. LiveNodes \in SUBSET Node /\ Apart(LiveNodes)
    BY DEF LiveNodes, Live, Held, TypeOK, NoNodeTwice
  <2> QED BY <2>1, ApartIsFinite
<1>3. Cardinality(LiveNodes') = Cardinality(LiveNodes) + 1
  <2> DEFINE R == LiveNodes \ {cur[w]}
  <2>1. IsFiniteSet(R) /\ Cardinality(R) = Cardinality(LiveNodes) - 1
    BY <1>2, FS_RemoveElement
  <2>2. m \notin R /\ k \notin R \cup {m}
    OBVIOUS
  <2> HIDE DEF R
  <2>3. IsFiniteSet(R \cup {m}) /\ Cardinality(R \cup {m}) = Cardinality(R) + 1
    BY <2>1, <2>2, FS_AddElement
  <2>4. Cardinality((R \cup {m}) \cup {k}) = Cardinality(R \cup {m}) + 1
    BY <2>2, <2>3, FS_AddElement
  <2>5. LiveNodes' = (R \cup {m}) \cup {k}
    BY DEF R
  <2>6. Cardinality(LiveNodes') = Cardinality(R \cup {m}) + 1
    BY <2>4, <2>5
  <2>7. Cardinality(R \cup {m}) = Cardinality(LiveNodes)
    BY <1>2, <2>1, <2>3
  <2> QED BY <2>6, <2>7
<1>4. Cardinality(Solving) \in Nat /\ Cardinality(Solving') = Cardinality(Solving) - 1
  <2>1. w \in Solving /\ w \notin Solving'
    BY DEF NodeBranch, Goto, TypeOK, Solving
  <2>2. Solving \in SUBSET Workers /\ Solving' \in SUBSET Workers
    BY DEF Solving
  <2>3. Solving \ {w} = Solving' \ {w}
    <3>1. \A v \in Workers : v # w => (v \in Solving' <=> v \in Solving)
      BY OthersLive
    <3> QED BY <2>2, <3>1
  <2>4. /\ Cardinality(Solving) \in Nat /\ Cardinality(Solving') \in Nat
        /\ Cardinality(Solving') - One(w \in Solving') = Cardinality(Solving) - One(w \in Solving)
    BY <2>2, <2>3, CountChange
  <2> QED BY <2>1, <2>4 DEF One
<1>5. nodes' = nodes /\ Unreported' = Unreported
  BY DEF NodeBranch, sumVars, Unreported
<1>6. nodes \in Nat /\ Cardinality(Unreported) \in Nat /\ Cardinality(Points) \in Nat
  <2>1. IsFiniteSet(Unreported)
    BY FS_Subset, WorkersAssumption DEF Unreported
  <2> QED BY <2>1, FS_CardinalityType, PointsAssumption DEF TypeOK
<1> QED BY <1>1, <1>2, <1>3, <1>4, <1>5, <1>6 DEF BudgetInv

\* While a worker solves a node, that node's children are still to be counted.
LEMMA BudgetLeft ==
  ASSUME TypeOK, NoNodeTwice, BudgetInv
  PROVE  nodes < 2 * Cardinality(Points)
<1>1. LiveNodes \in SUBSET Node /\ Apart(LiveNodes)
  BY DEF LiveNodes, Live, Held, TypeOK, NoNodeTwice
<1>2. /\ IsFiniteSet(LiveNodes) /\ Cardinality(LiveNodes) \in Nat
      /\ Cardinality(Covered(LiveNodes)) \in Nat
      /\ Cardinality(LiveNodes) <= Cardinality(Covered(LiveNodes))
  BY <1>1, ApartIsFinite
<1>3. Cardinality(Solving) \in Nat /\ Cardinality(Solving) <= Cardinality(LiveNodes)
  <2> DEFINE f == [v \in Solving |-> cur[v]]
  <2>1. \A v \in Solving : v \in Workers /\ cur[v] \in Live(v) /\ cur[v] \in LiveNodes
    BY DEF Solving, Live, LoopPCs, Held, LiveNodes
  <2>2. f \in Injection(Solving, LiveNodes)
    <3>1. f \in [Solving -> LiveNodes]
      BY <2>1
    <3>2. \A u, v \in Solving : f[u] = f[v] => u = v
      BY <2>1 DEF NoNodeTwice
    <3> HIDE DEF f
    <3> QED BY <3>1, <3>2 DEF Injection, IsInjective
  <2> HIDE DEF f
  <2>3. IsFiniteSet(Solving) /\ Cardinality(Solving) <= Cardinality(LiveNodes)
    BY <1>2, <2>2, FS_Injection
  <2> QED BY <2>3, FS_CardinalityType
<1>4. nodes \in Nat /\ Cardinality(Unreported) \in Nat /\ Cardinality(Points) \in Nat
  <2>1. IsFiniteSet(Unreported)
    BY FS_Subset, WorkersAssumption DEF Unreported
  <2> QED BY <2>1, FS_CardinalityType, PointsAssumption DEF TypeOK
<1> QED BY <1>2, <1>3, <1>4 DEF BudgetInv

------------------------------------------------------------------------------
(* The invariant                                                           *)

\* The search's own invariant, that nothing is searched twice, and the budget.
\* Branching keeps the second, the second and the choice of what is kept give the
\* third, and the third is what the protocol's bound on its nodes asks for.
SharingInv == IInv /\ NoNodeTwice /\ BudgetInv

LEMMA InitSharing == Init => SharingInv
<1> SUFFICES ASSUME Init PROVE SharingInv
  OBVIOUS
<1>1. \A w \in Workers : Live(w) = {} /\ w \notin Solving /\ w \notin Unreported
  BY DEF Init, Live, LoopPCs, Solving, Unreported
<1>2. LiveNodes = {RootNode} /\ Solving = {} /\ Unreported = {}
  BY <1>1 DEF Init, LiveNodes, Solving, Unreported
<1>3. NoNodeTwice
  BY <1>1, <1>2, RootIsNode, PointsAssumption DEF NoNodeTwice, Apart
<1>4. Covered(LiveNodes) = Points
  BY <1>2, RootIsNode DEF Covered
<1>5. /\ Cardinality(LiveNodes) = 1 /\ Cardinality(Solving) = 0 /\ Cardinality(Unreported) = 0
      /\ Cardinality(Points) \in Nat
  BY <1>2, FS_Singleton, FS_EmptySet, FS_CardinalityType, PointsAssumption
<1>6. BudgetInv
  BY <1>4, <1>5 DEF BudgetInv, Init
<1> QED BY <1>3, <1>6, InitIInv DEF SharingInv

LEMMA StepSharing == SharingInv /\ [Next]_vars => SharingInv'
<1> SUFFICES ASSUME SharingInv, [Next]_vars PROVE SharingInv'
  OBVIOUS
<1>1. IInv /\ IInv' /\ TypeOK /\ TypeOK' /\ NoNodeTwice /\ BudgetInv
  BY StepIInv DEF SharingInv, IInv
<1>2. ASSUME NEW w \in Workers, Worker(w) PROVE NoNodeTwice' /\ BudgetInv'
  <2>1. CASE NodeBranch(w)
    BY <1>1, <1>2, <2>1, BranchApart, BranchBudget
  <2>2. CASE ~NodeBranch(w)
    BY <1>1, <1>2, <2>2, NoBranchNarrows, NarrowApart, NarrowBudget
  <2> QED BY <2>1, <2>2
<1>3. CASE Driver \/ Tick \/ UNCHANGED vars
  <2>1. /\ UNCHANGED <<pc, queue, open, cur, fresh, nodes>>
        /\ \A w \in Workers : Held(w)' = Held(w)
    BY <1>3 DEF Driver, DriverStop, DriverInterrupt, DriverStopReason, DriverStopFlag,
       DriverStopWake, DriverSignal, DriverReport, Tick, sharedVars, sumVars, workVars, vars, Held
  <2>2. \A w \in Workers : Live(w)' = Live(w)
    BY <2>1 DEF Live
  <2>3. LiveNodes' = LiveNodes /\ Solving' = Solving /\ Unreported' = Unreported
    BY <2>1, <2>2 DEF LiveNodes, Solving, Unreported
  <2>4. NoNodeTwice'
    BY <1>1, <2>1, <2>2, <2>3 DEF NoNodeTwice, Apart
  <2>5. BudgetInv'
    BY <1>1, <2>1, <2>3 DEF BudgetInv, Covered
  <2> QED BY <1>1, <2>4, <2>5 DEF SharingInv
<1> QED BY <1>1, <1>2, <1>3 DEF Next, Done, SharingInv

LEMMA SharingInvariance == Spec => []SharingInv
BY InitSharing, StepSharing, PTL DEF Spec

\* A node that is given away is not kept, one that is entered is not still open,
\* and no two nodes anybody may still enter cover a common assignment: no subtree
\* is searched twice, whatever is given away, taken, stopped or left.
THEOREM NothingIsSearchedTwice == Spec => []NoNodeTwice
<1>1. SharingInv => NoNodeTwice
  BY DEF SharingInv
<1> QED BY <1>1, SharingInvariance, PTL

\* The search's queue and open lists are finite.
LEMMA ListsAreFinite ==
  ASSUME SharingInv
  PROVE  /\ IsFiniteSet(queue) /\ Cardinality(queue) \in Nat
         /\ \A w \in Workers : IsFiniteSet(open[w]) /\ Cardinality(open[w]) \in Nat
<1>1. LiveNodes \in SUBSET Node /\ Apart(LiveNodes)
  BY DEF LiveNodes, Live, Held, TypeOK, NoNodeTwice, SharingInv, IInv
<1>2. IsFiniteSet(LiveNodes)
  BY <1>1, ApartIsFinite
<1>3. IsFiniteSet(queue)
  <2>1. queue \in SUBSET LiveNodes
    BY DEF LiveNodes
  <2> QED BY <1>2, <2>1, FS_Subset
<1>4. \A w \in Workers : IsFiniteSet(open[w])
  BY DEF SharingInv, IInv, TypeOK
<1> QED BY <1>3, <1>4, FS_CardinalityType

------------------------------------------------------------------------------
(* Every step of the search is a step of the protocol                      *)

\* A worker that goes on at a label does so in the protocol.
LEMMA GotoMaps ==
  ASSUME TypeOK, NEW w \in Workers, NEW l, Goto(w, l)
  PROVE  Protocol!Goto(w, ProtocolPC(l))
<1>1. pc' = [pc EXCEPT ![w] = l] /\ pc \in [Workers -> WorkerPCs]
  BY DEF Goto, TypeOK
<1> HIDE DEF Goto
<1> QED BY <1>1 DEF Protocol!Goto

\* An open list becomes its length.
LEMMA OpenMaps ==
  ASSUME TypeOK, NEW w \in Workers, NEW S, open' = [open EXCEPT ![w] = S]
  PROVE  Protocol!SetOpen(w, Cardinality(S))
<1>1. open \in [Workers -> SUBSET Node]
  BY DEF TypeOK
<1> QED BY <1>1 DEF Protocol!SetOpen

\* A label of the protocol names one label here, except for the two that are
\* parts of another.
LEMMA LabelMaps ==
  ASSUME NEW l
  PROVE  /\ l \notin {"adopt", "heur"} => ProtocolPC(l) = l
         /\ ProtocolPC("adopt") = "share" /\ ProtocolPC("heur") = "lp"
BY DEF ProtocolPC

LEMMA TakeMaps ==
  ASSUME SharingInv, NEW w \in Workers, Take(w)
  PROVE  Protocol!Worker(w)
<1>t. TypeOK
  BY DEF SharingInv, IInv
<1>f. IsFiniteSet(queue) /\ Cardinality(queue) \in Nat
  BY ListsAreFinite
<1>e. queue = {} <=> Cardinality(queue) = 0
  BY <1>f, FS_EmptySet
<1> USE DEF stopVars, envVars, workVars, driverVars, sumVars, sharedVars,
            Protocol!poolVars, Protocol!stopVars, Protocol!envVars, Protocol!workVars
<1>1. CASE TakeEnter(w)
  <2>1. Protocol!Goto(w, "waiting")
    BY <1>t, <1>1, GotoMaps, LabelMaps DEF TakeEnter
  <2>2. Protocol!TakeEnter(w)
    BY <1>1, <2>1, LabelMaps DEF TakeEnter, Protocol!TakeEnter
  <2> QED BY <2>2 DEF Protocol!Worker
<1>2. CASE TakeSleep(w)
  <2>1. Protocol!TakeSleep(w)
    BY <1>2, <1>e, LabelMaps DEF TakeSleep, Awake, Protocol!TakeSleep, Protocol!Awake
  <2> QED BY <2>1 DEF Protocol!Worker
<1>3. CASE TakeSubtree(w)
  <2>1. PICK n \in Smallest(queue) :
          queue' = queue \ {n} /\ open' = [open EXCEPT ![w] = {n}]
    BY <1>3 DEF TakeSubtree
  <2>2. n \in queue
    BY DEF Smallest
  <2>3. Cardinality(queue') = Cardinality(queue) - 1 /\ Cardinality(queue) > 0
    <3>1. Cardinality(queue \ {n}) = Cardinality(queue) - 1
      BY <1>f, <2>2, FS_RemoveElement
    <3>2. Cardinality(queue) # 0
      BY <1>e, <2>2
    <3> QED BY <1>f, <2>1, <3>1, <3>2
  <2>4. Protocol!SetOpen(w, 1)
    <3>1. Cardinality({n}) = 1
      BY FS_Singleton
    <3> QED BY <1>t, <2>1, <3>1, OpenMaps
  <2>5. Protocol!Goto(w, "head")
    BY <1>t, <1>3, GotoMaps, LabelMaps DEF TakeSubtree
  <2>6. Protocol!TakeSubtree(w)
    BY <1>3, <2>3, <2>4, <2>5, LabelMaps
    DEF TakeSubtree, Awake, Protocol!TakeSubtree, Protocol!Awake, Protocol!SetWhy
  <2> QED BY <2>6 DEF Protocol!Worker
<1>4. CASE TakeOver(w)
  <2>1. Protocol!Goto(w, "exiting")
    BY <1>t, <1>4, GotoMaps, LabelMaps DEF TakeOver
  <2>2. Protocol!TakeOver(w)
    BY <1>4, <1>e, <2>1, LabelMaps DEF TakeOver, Awake, Protocol!TakeOver, Protocol!Awake
  <2> QED BY <2>2 DEF Protocol!Worker
<1>5. CASE WorkerExited(w)
  <2>1. Protocol!Goto(w, "exited")
    BY <1>t, <1>5, GotoMaps, LabelMaps DEF WorkerExited
  <2>2. Protocol!WorkerExited(w)
    BY <1>5, <2>1, LabelMaps DEF WorkerExited, Protocol!WorkerExited
  <2> QED BY <2>2 DEF Protocol!Worker
<1>6. CASE FinishedSubtree(w)
  <2>1. Protocol!Goto(w, "take")
    BY <1>t, <1>6, GotoMaps, LabelMaps DEF FinishedSubtree
  <2>2. Protocol!SetOpen(w, 0)
    <3>1. Cardinality({}) = 0
      BY FS_EmptySet
    <3> QED BY <1>t, <1>6, <3>1, OpenMaps DEF FinishedSubtree
  <2>3. Protocol!FinishedSubtree(w)
    BY <1>6, <2>1, <2>2, LabelMaps DEF FinishedSubtree, Protocol!FinishedSubtree
  <2> QED BY <2>3 DEF Protocol!Worker
<1> QED BY <1>1, <1>2, <1>3, <1>4, <1>5, <1>6 DEF Take

LEMMA StopMaps ==
  ASSUME SharingInv, NEW w \in Workers, StopStep(w)
  PROVE  Protocol!Worker(w)
<1>t. TypeOK
  BY DEF SharingInv, IInv
<1> USE DEF stopVars, envVars, workVars, driverVars, sumVars, sharedVars,
            Protocol!poolVars, Protocol!stopVars, Protocol!envVars, Protocol!workVars
<1>1. CASE StopReason(w)
  <2>1. Protocol!Goto(w, "stopFlag")
    BY <1>t, <1>1, GotoMaps, LabelMaps DEF StopReason
  <2>2. Protocol!StopReason(w)
    BY <1>1, <2>1, LabelMaps DEF StopReason, FirstReason, Protocol!StopReason,
                                 Protocol!FirstReason
  <2> QED BY <2>2 DEF Protocol!Worker
<1>2. CASE StopFlag(w)
  <2>1. Protocol!Goto(w, "stopWake")
    BY <1>t, <1>2, GotoMaps, LabelMaps DEF StopFlag
  <2>2. Protocol!StopFlag(w)
    BY <1>2, <2>1, LabelMaps DEF StopFlag, Protocol!StopFlag
  <2> QED BY <2>2 DEF Protocol!Worker
<1>3. CASE StopWake(w)
  <2>1. ProtocolPC(ret[w]) = ret[w]
    BY <1>t DEF TypeOK, ProtocolPC
  <2>2. Protocol!Goto(w, ret[w])
    BY <1>t, <1>3, <2>1, GotoMaps DEF StopWake
  <2>3. Protocol!StopWake(w)
    BY <1>3, <2>2, LabelMaps DEF StopWake, Protocol!StopWake
  <2> QED BY <2>3 DEF Protocol!Worker
<1> QED BY <1>1, <1>2, <1>3 DEF StopStep

\* What the protocol speaks of, unchanged.
LEMMA StutterMaps ==
  ASSUME TypeOK, NEW w \in Workers, NEW l, Goto(w, l), ProtocolPC(l) = ProtocolPC(pc[w]),
         UNCHANGED <<sharedVars, stopVars, nodes, envVars, open, fresh, give, why, ret, dpc>>
  PROVE  UNCHANGED Protocol!vars
<1>1. pc' = [pc EXCEPT ![w] = l] /\ pc \in [Workers -> WorkerPCs]
  BY DEF Goto, TypeOK
<1>2. \A v \in Workers : ProtocolPC(pc'[v]) = ProtocolPC(pc[v])
  BY <1>1
<1>3. [v \in Workers |-> ProtocolPC(pc'[v])] = [v \in Workers |-> ProtocolPC(pc[v])]
  BY <1>2
<1> QED BY <1>3 DEF Protocol!vars, Protocol!poolVars, Protocol!stopVars, Protocol!envVars,
                    Protocol!workVars, sharedVars, stopVars, envVars

\* A node given away is one that is not queued.
LEMMA PushMaps ==
  ASSUME SharingInv, NEW w \in Workers, DonatePush(w)
  PROVE  Protocol!DonatePush(w)
<1>t. TypeOK
  BY DEF SharingInv, IInv
<1>1. PICK n \in open[w] :
        queue' = queue \cup {n} /\ open' = [open EXCEPT ![w] = @ \ {n}]
  BY DEF DonatePush
<1>2. n \notin queue
  <2>1. Live(w) \cap queue = {} /\ open[w] \subseteq Live(w)
    BY DEF SharingInv, NoNodeTwice, Live, Held, LoopPCs, DonatePush
  <2> QED BY <2>1
<1>3. Cardinality(queue') = Cardinality(queue) + 1
  <2>1. IsFiniteSet(queue)
    BY ListsAreFinite
  <2>2. Cardinality(queue \cup {n}) = Cardinality(queue) + 1
    BY <1>2, <2>1, FS_AddElement
  <2> QED BY <1>1, <2>2
<1>4. Protocol!SetOpen(w, Cardinality(open[w]) - 1)
  <2>1. IsFiniteSet(open[w])
    BY ListsAreFinite
  <2>2. Cardinality(open[w] \ {n}) = Cardinality(open[w]) - 1
    BY <2>1, FS_RemoveElement
  <2>3. open' = [open EXCEPT ![w] = open[w] \ {n}]
    BY <1>1
  <2> QED BY <1>t, <2>2, <2>3, OpenMaps
<1> QED BY <1>3, <1>4, LabelMaps
        DEF DonatePush, Protocol!DonatePush, stopVars, envVars, driverVars, sumVars,
            Protocol!stopVars, Protocol!envVars

LEMMA SyncMaps ==
  ASSUME SharingInv, NEW w \in Workers, Sync(w)
  PROVE  Protocol!Worker(w) \/ UNCHANGED Protocol!vars
<1>t. TypeOK
  BY DEF SharingInv, IInv
<1>f. IsFiniteSet(open[w]) /\ Cardinality(open[w]) \in Nat /\ IsFiniteSet(queue)
  BY ListsAreFinite
<1>e. (open[w] = {} <=> Cardinality(open[w]) = 0) /\ (queue = {} <=> Cardinality(queue) = 0)
  BY <1>f, FS_EmptySet
<1>p. open[w] # {} => Cardinality(open[w]) > 0
  BY <1>f, <1>e
<1> USE DEF stopVars, envVars, workVars, driverVars, sumVars, sharedVars,
            Protocol!poolVars, Protocol!stopVars, Protocol!envVars, Protocol!workVars
<1>1. CASE HeadExhausted(w)
  <2>1. Protocol!Goto(w, "leave")
    BY <1>t, <1>1, GotoMaps, LabelMaps DEF HeadExhausted
  <2>2. Protocol!HeadExhausted(w)
    BY <1>1, <1>e, <2>1, LabelMaps DEF HeadExhausted, Protocol!HeadExhausted
  <2> QED BY <2>2 DEF Protocol!Worker
<1>2. CASE HeadTimeLimit(w) \/ SyncStopped(w)
  <2>1. Protocol!Goto(w, "leave")
    BY <1>t, <1>2, GotoMaps, LabelMaps DEF HeadTimeLimit, SyncStopped, LeaveWith
  <2>2. Protocol!HeadStopped(w)
    BY <1>2, <1>p, <2>1, LabelMaps
    DEF HeadTimeLimit, SyncStopped, LeaveWith, Protocol!HeadStopped, Protocol!SetWhy
  <2> QED BY <2>2 DEF Protocol!Worker
<1>3. CASE SyncReport(w)
  <2>1. Goto(w, "stopReason") => Protocol!Goto(w, "stopReason")
    BY <1>t, GotoMaps, LabelMaps
  <2>2. Goto(w, "adopt") => Protocol!Goto(w, "share")
    BY <1>t, GotoMaps, LabelMaps
  <2>3. Protocol!SyncReport(w)
    BY <1>3, <1>p, <2>1, <2>2, LabelMaps
    DEF SyncReport, StopThen, Protocol!SyncReport, Protocol!StopThen, Protocol!SetWhy
  <2> QED BY <2>3 DEF Protocol!Worker
<1>4. CASE SyncAdopt(w)
  <2>1. ProtocolPC("share") = ProtocolPC(pc[w])
    BY <1>4, LabelMaps DEF SyncAdopt
  <2> QED BY <1>t, <1>4, <2>1, StutterMaps DEF SyncAdopt
<1>5. CASE SyncShare(w)
  <2>1. Hungry <=> Protocol!Hungry
    BY <1>e DEF Hungry, Protocol!Hungry
  <2>2. \A l \in {"donate", "test"} : Goto(w, l) => Protocol!Goto(w, l)
    BY <1>t, GotoMaps, LabelMaps
  <2>3. Protocol!SyncShare(w)
    BY <1>5, <2>1, <2>2, LabelMaps DEF SyncShare, Protocol!SyncShare
  <2> QED BY <2>3 DEF Protocol!Worker
<1>6. CASE DonateCount(w)
  <2>1. Protocol!Goto(w, "push")
    BY <1>t, <1>6, GotoMaps, LabelMaps DEF DonateCount
  <2>2. Protocol!DonateCount(w)
    BY <1>6, <2>1, LabelMaps DEF DonateCount, Lower, Protocol!DonateCount
  <2> QED BY <2>2 DEF Protocol!Worker
<1>7. CASE DonatePush(w)
  BY <1>7, PushMaps DEF Protocol!Worker
<1>8. CASE DonateDone(w)
  <2>1. Protocol!Goto(w, "test")
    BY <1>t, <1>8, GotoMaps, LabelMaps DEF DonateDone
  <2>2. Protocol!DonateDone(w)
    BY <1>8, <2>1, LabelMaps DEF DonateDone, Protocol!DonateDone
  <2> QED BY <2>2 DEF Protocol!Worker
<1> QED BY <1>1, <1>2, <1>3, <1>4, <1>5, <1>6, <1>7, <1>8 DEF Sync

LEMMA TestMaps ==
  ASSUME SharingInv, NEW w \in Workers, Test(w)
  PROVE  Protocol!Worker(w)
<1>t. TypeOK
  BY DEF SharingInv, IInv
<1> USE DEF stopVars, envVars, workVars, driverVars, sumVars, sharedVars,
            Protocol!poolVars, Protocol!stopVars, Protocol!envVars, Protocol!workVars
<1>1. CASE TestStopped(w)
  <2>1. Protocol!Goto(w, "leave")
    BY <1>t, <1>1, GotoMaps, LabelMaps DEF TestStopped, LeaveWith
  <2>2. Protocol!TestStopped(w)
    BY <1>1, <2>1, LabelMaps
    DEF TestStopped, LeaveWith, Protocol!TestStopped, Protocol!SetWhy
  <2> QED BY <2>2 DEF Protocol!Worker
<1>2. CASE TestGap(w)
  <2>1. Protocol!Goto(w, "leave")
    BY <1>t, <1>2, GotoMaps, LabelMaps DEF TestGap
  <2>2. Protocol!TestGap(w)
    BY <1>2, <2>1, LabelMaps DEF TestGap, Protocol!TestGap
  <2> QED BY <2>2 DEF Protocol!Worker
<1>3. CASE PickNode(w)
  <2>1. PICK n \in open[w] :
          /\ open' = [open EXCEPT ![w] = @ \ {n}]
          /\ \/ Goto(w, "head") /\ UNCHANGED <<cur, fresh>>
             \/ Goto(w, "lp") /\ fresh' = [fresh EXCEPT ![w] = 1]
    BY <1>3 DEF PickNode
  <2>2. Protocol!SetOpen(w, Cardinality(open[w]) - 1)
    <3>1. IsFiniteSet(open[w])
      BY ListsAreFinite
    <3>2. Cardinality(open[w] \ {n}) = Cardinality(open[w]) - 1
      BY <3>1, FS_RemoveElement
    <3>3. open' = [open EXCEPT ![w] = open[w] \ {n}]
      BY <2>1
    <3> QED BY <1>t, <3>2, <3>3, OpenMaps
  <2>3. \A l \in {"head", "lp"} : Goto(w, l) => Protocol!Goto(w, l)
    BY <1>t, GotoMaps, LabelMaps
  <2>4. Protocol!PickNode(w)
    BY <1>3, <2>1, <2>2, <2>3, LabelMaps DEF PickNode, Protocol!PickNode
  <2> QED BY <2>4 DEF Protocol!Worker
<1> QED BY <1>1, <1>2, <1>3 DEF Test

\* The children are new to the worker's list.
LEMMA BranchMaps ==
  ASSUME SharingInv, NEW w \in Workers, Worker(w), NodeBranch(w)
  PROVE  Protocol!NodeBranch(w)
<1>t. TypeOK /\ NoNodeTwice /\ BudgetInv
  BY DEF SharingInv, IInv
<1> PICK m \in Node, k \in Node :
           /\ m # k /\ {m, k} \cap (LiveNodes \ {cur[w]}) = {}
           /\ cur[w] \notin open[w] /\ open[w] \subseteq LiveNodes
           /\ open' = [open EXCEPT ![w] = @ \cup {m, k}]
  BY <1>t, BranchReplaces
<1>1. IsFiniteSet(open[w]) /\ Cardinality(open[w]) \in Nat
  BY ListsAreFinite
<1>2. m \notin open[w] /\ k \notin open[w] \cup {m}
  OBVIOUS
<1>3. IsFiniteSet(open[w] \cup {m}) /\ Cardinality(open[w] \cup {m}) = Cardinality(open[w]) + 1
  BY <1>1, <1>2, FS_AddElement
<1>4. Cardinality((open[w] \cup {m}) \cup {k}) = Cardinality(open[w] \cup {m}) + 1
  BY <1>2, <1>3, FS_AddElement
<1>5. Cardinality((open[w] \cup {m}) \cup {k}) = Cardinality(open[w]) + 2
  BY <1>1, <1>3, <1>4
<1>6. open' = [open EXCEPT ![w] = (open[w] \cup {m}) \cup {k}]
  <2>1. open[w] \cup {m, k} = (open[w] \cup {m}) \cup {k}
    OBVIOUS
  <2> QED BY <2>1
<1>7. Protocol!SetOpen(w, Cardinality(open[w]) + 2)
  BY <1>t, <1>5, <1>6, OpenMaps
<1>8. Protocol!Goto(w, "head")
  BY <1>t, GotoMaps, LabelMaps DEF NodeBranch
<1>9. nodes < 2 * Cardinality(Points)
  BY <1>t, BudgetLeft
<1> QED BY <1>7, <1>8, <1>9, LabelMaps
        DEF NodeBranch, Protocol!NodeBranch, sharedVars, stopVars, envVars, driverVars, sumVars,
            Protocol!poolVars, Protocol!stopVars, Protocol!envVars

\* The node whose LP met a limit goes back where it came from.
LEMMA LimitMaps ==
  ASSUME SharingInv, NEW w \in Workers, NodeLimitHit(w)
  PROVE  Protocol!NodeLimitHit(w)
<1>t. TypeOK
  BY DEF SharingInv, IInv
<1>1. cur[w] \notin open[w]
  BY DEF SharingInv, NoNodeTwice, Solving, NodeLimitHit
<1>2. Protocol!SetOpen(w, Cardinality(open[w]) + 1)
  <2>1. IsFiniteSet(open[w])
    BY ListsAreFinite
  <2>2. Cardinality(open[w] \cup {cur[w]}) = Cardinality(open[w]) + 1
    BY <1>1, <2>1, FS_AddElement
  <2>3. open' = [open EXCEPT ![w] = open[w] \cup {cur[w]}]
    BY DEF NodeLimitHit
  <2> QED BY <1>t, <2>2, <2>3, OpenMaps
<1>3. Protocol!Goto(w, "leave")
  BY <1>t, GotoMaps, LabelMaps DEF NodeLimitHit, LeaveWith
<1> QED BY <1>2, <1>3, LabelMaps
        DEF NodeLimitHit, LeaveWith, Protocol!NodeLimitHit, Protocol!SetWhy, sharedVars,
            stopVars, envVars, driverVars, sumVars, Protocol!poolVars, Protocol!stopVars,
            Protocol!envVars

\* fail() and record_exception() are one thing to the other workers.
LEMMA FailureMaps ==
  ASSUME SharingInv, NEW w \in Workers, NodeFailed(w) \/ WorkerThrows(w)
  PROVE  Protocol!SubtreeFails(w)
<1>t. TypeOK
  BY DEF SharingInv, IInv
<1>1. (failed \/ thrown)' = TRUE
  BY DEF NodeFailed, WorkerThrows
<1>2. Protocol!Goto(w, "stopReason")
  BY <1>t, GotoMaps, LabelMaps DEF NodeFailed, WorkerThrows, StopThen
<1>3. Protocol!StopThen(w, "none", "finish")
  BY <1>2 DEF NodeFailed, WorkerThrows, StopThen, Protocol!StopThen, Protocol!SetWhy
<1>4. \/ pc[w] = "lp" /\ {"failure", "exception"} \cap Events # {} /\ open' = open
      \/ /\ pc[w] = "push" /\ "exception" \in Events
         /\ open' = open \/ (Cardinality(open[w]) > 0
                             /\ Protocol!SetOpen(w, Cardinality(open[w]) - 1))
  <2>1. CASE NodeFailed(w)
    BY <2>1 DEF NodeFailed
  <2>2. CASE WorkerThrows(w) /\ open' = open
    BY <2>2 DEF WorkerThrows
  <2>3. CASE WorkerThrows(w) /\ open' # open
    <3>1. PICK n \in open[w] : pc[w] = "push" /\ open' = [open EXCEPT ![w] = @ \ {n}]
      BY <2>3 DEF WorkerThrows
    <3>2. IsFiniteSet(open[w]) /\ Cardinality(open[w]) \in Nat
      BY ListsAreFinite
    <3>3. Cardinality(open[w] \ {n}) = Cardinality(open[w]) - 1
      BY <3>2, FS_RemoveElement
    <3>4. Cardinality(open[w]) # 0
      BY <3>2, FS_EmptySet
    <3>5. open' = [open EXCEPT ![w] = open[w] \ {n}]
      BY <3>1
    <3>6. Protocol!SetOpen(w, Cardinality(open[w]) - 1)
      BY <1>t, <3>3, <3>5, OpenMaps
    <3> QED BY <2>3, <3>1, <3>2, <3>4, <3>6 DEF WorkerThrows
  <2> QED BY <2>1, <2>2, <2>3
<1> QED BY <1>1, <1>3, <1>4, LabelMaps
        DEF NodeFailed, WorkerThrows, Protocol!SubtreeFails, sharedVars, sumVars, envVars,
            driverVars, Protocol!poolVars, Protocol!envVars

LEMMA SolveMaps ==
  ASSUME SharingInv, NEW w \in Workers, Solve(w)
  PROVE  Protocol!Worker(w) \/ UNCHANGED Protocol!vars
<1>t. TypeOK
  BY DEF SharingInv, IInv
<1> USE DEF stopVars, envVars, workVars, driverVars, sumVars, sharedVars
<1>1. CASE NodeClosed(w) \/ NodeIntegral(w)
  <2>1. Protocol!Goto(w, "head")
    BY <1>t, <1>1, GotoMaps, LabelMaps DEF NodeClosed, NodeIntegral
  <2>2. Protocol!NodeClosed(w)
    BY <1>1, <2>1, LabelMaps
    DEF NodeClosed, NodeIntegral, Protocol!NodeClosed, Protocol!poolVars, Protocol!stopVars,
        Protocol!envVars, Protocol!workVars
  <2> QED BY <2>2 DEF Protocol!Worker
<1>2. CASE NodeSolved(w)
  <2>1. ProtocolPC("heur") = ProtocolPC(pc[w])
    BY <1>2, LabelMaps DEF NodeSolved
  <2> QED BY <1>t, <1>2, <2>1, StutterMaps DEF NodeSolved
<1>3. CASE NodeHeuristic(w)
  <2>1. Goto(w, pc[w])
    BY <1>t, <1>3 DEF NodeHeuristic, Goto, TypeOK
  <2> QED BY <1>t, <1>3, <2>1, StutterMaps DEF NodeHeuristic
<1>4. CASE NodeLimitHit(w)
  BY <1>4, LimitMaps DEF Protocol!Worker
<1>5. CASE NodeFailed(w) \/ WorkerThrows(w)
  BY <1>5, FailureMaps DEF Protocol!Worker
<1>6. CASE NodeBranch(w)
  BY <1>6, BranchMaps DEF Worker, Protocol!Worker
<1> QED BY <1>1, <1>2, <1>3, <1>4, <1>5, <1>6 DEF Solve

LEMMA LeaveMaps ==
  ASSUME SharingInv, NEW w \in Workers, Leave(w)
  PROVE  Protocol!Worker(w)
<1>t. TypeOK
  BY DEF SharingInv, IInv
<1>1. Protocol!SetOpen(w, 0)
  <2>1. Cardinality({}) = 0
    BY FS_EmptySet
  <2> QED BY <1>t, <2>1, OpenMaps DEF Leave
<1>2. \A l \in {"stopReason", "finish"} : Goto(w, l) => Protocol!Goto(w, l)
  BY <1>t, GotoMaps, LabelMaps
<1>3. Protocol!Leave(w)
  BY <1>1, <1>2, LabelMaps
  DEF Leave, StopThen, Protocol!Leave, Protocol!StopThen, Protocol!SetWhy, stopVars, envVars,
      driverVars, sharedVars, Protocol!poolVars, Protocol!stopVars, Protocol!envVars
<1> QED BY <1>3 DEF Protocol!Worker

\* The protocol counts the workers as the search does.
LEMMA SameCount == Protocol!Cardinality(Workers) = Cardinality(Workers)
BY Zenon DEF Cardinality, Protocol!Cardinality

\* The driver and the clock do to the protocol what they do to the search.
LEMMA OutsideMaps ==
  ASSUME Driver \/ Tick
  PROVE  Protocol!DriverInterrupt \/ Protocol!DriverStep \/ Protocol!Tick
<1> USE DEF stopVars, envVars, workVars, driverVars, sumVars, sharedVars, DriverGoto,
            Protocol!poolVars, Protocol!stopVars, Protocol!envVars, Protocol!workVars
<1>1. CASE DriverInterrupt
  BY <1>1, SameCount DEF DriverInterrupt, Protocol!DriverInterrupt
<1>2. CASE DriverStopReason
  <2>1. Protocol!DriverStopReason
    BY <1>2 DEF DriverStopReason, FirstReason, Protocol!DriverStopReason, Protocol!FirstReason
  <2> QED BY <2>1 DEF Protocol!DriverStep
<1>3. CASE DriverStopFlag
  <2>1. Protocol!DriverStopFlag
    BY <1>3 DEF DriverStopFlag, Protocol!DriverStopFlag
  <2> QED BY <2>1 DEF Protocol!DriverStep
<1>4. CASE DriverStopWake
  <2>1. Protocol!DriverStopWake
    BY <1>4 DEF DriverStopWake, Protocol!DriverStopWake
  <2> QED BY <2>1 DEF Protocol!DriverStep
<1>5. CASE DriverSignal
  <2>1. Protocol!DriverSignal
    BY <1>5 DEF DriverSignal, Protocol!DriverSignal
  <2> QED BY <2>1 DEF Protocol!DriverStep
<1>6. CASE DriverReport
  <2>1. Protocol!DriverReport
    BY <1>6, SameCount DEF DriverReport, Protocol!DriverReport
  <2> QED BY <2>1 DEF Protocol!DriverStep
<1>7. CASE Tick
  BY <1>7 DEF Tick, Protocol!Tick
<1> QED BY <1>1, <1>2, <1>3, <1>4, <1>5, <1>6, <1>7 DEF Driver, DriverStop

LEMMA InitMaps == Init => Protocol!Init
<1> SUFFICES ASSUME Init PROVE Protocol!Init
  OBVIOUS
<1>1. Cardinality(queue) = 1 /\ Cardinality({}) = 0
  BY FS_Singleton, FS_EmptySet DEF Init
<1>2. [w \in Workers |-> Cardinality(open[w])] = [w \in Workers |-> 0]
  BY <1>1 DEF Init
<1>3. [w \in Workers |-> ProtocolPC(pc[w])] = [w \in Workers |-> "take"]
  BY LabelMaps DEF Init
<1>4. (failed \/ thrown) = FALSE
  BY DEF Init
<1> QED BY <1>1, <1>2, <1>3, <1>4 DEF Init, Protocol!Init

LEMMA StepMaps == SharingInv /\ [Next]_vars => [Protocol!Next]_Protocol!vars
<1> SUFFICES ASSUME SharingInv, [Next]_vars
             PROVE  Protocol!Next \/ UNCHANGED Protocol!vars
  OBVIOUS
<1>1. ASSUME NEW w \in Workers, Worker(w)
      PROVE  Protocol!Worker(w) \/ UNCHANGED Protocol!vars
  BY <1>1, TakeMaps, StopMaps, SyncMaps, TestMaps, SolveMaps, LeaveMaps DEF Worker
<1>2. CASE Driver \/ Tick
  BY <1>2, OutsideMaps DEF Protocol!Next
<1>3. CASE UNCHANGED vars
  BY <1>3 DEF vars, sharedVars, stopVars, sumVars, envVars, workVars, driverVars,
     Protocol!vars, Protocol!poolVars, Protocol!stopVars, Protocol!envVars, Protocol!workVars
<1> QED BY <1>1, <1>2, <1>3 DEF Next, Done, Protocol!Next

\* The parallel search implements the protocol of its workers: whatever the tree,
\* giving nodes away, taking them, stopping and leaving is what WorkSharing says.
THEOREM SearchKeepsTheProtocol == Spec => Protocol!Spec
BY InitMaps, StepMaps, SharingInvariance, PTL DEF Protocol!Spec, Spec

------------------------------------------------------------------------------
(* What is proved of the protocol holds of the search                      *)

\* WorkSharing with its theorems, under the mapping of ParallelProtocol.
Shared == INSTANCE WorkSharing_proofs WITH
  TreeNodes <- 2 * Cardinality(Points),
  queue <- Cardinality(queue),
  failed <- failed \/ thrown,
  pc <- [w \in Workers |-> ProtocolPC(pc[w])],
  open <- [w \in Workers |-> Cardinality(open[w])]

\* The protocol asks nothing of its parameters that the search does not.
LEMMA SharedAssumption == Shared!WorkSharingAssumption
<1>1. Shared!IsFiniteSet(Workers)
  BY WorkersAssumption, Zenon DEF IsFiniteSet, Shared!IsFiniteSet
<1>2. 2 * Cardinality(Points) \in Nat
  BY PointsAssumption, FS_CardinalityType
<1> QED BY WorkersAssumption, <1>1, <1>2 DEF Shared!WorkSharingAssumption

\* Both instances are the same module, a worker's step for a worker's step.
LEMMA SharedWorker == ASSUME NEW w PROVE Protocol!Worker(w) => Shared!Worker(w)
BY Zenon
   DEF Protocol!Goto, Protocol!SetWhy, Protocol!SetOpen, Protocol!poolVars,
       Protocol!stopVars, Protocol!envVars, Protocol!workVars, Protocol!Awake,
       Protocol!TakeEnter, Protocol!TakeSleep, Protocol!TakeSubtree, Protocol!TakeOver,
       Protocol!WorkerExited, Protocol!FinishedSubtree, Protocol!FirstReason,
       Protocol!StopThen, Protocol!StopReason, Protocol!StopFlag, Protocol!StopWake,
       Protocol!HeadExhausted, Protocol!HeadStopped, Protocol!SyncReport, Protocol!Hungry,
       Protocol!SyncShare, Protocol!DonateCount, Protocol!DonatePush, Protocol!DonateDone,
       Protocol!TestStopped, Protocol!TestGap, Protocol!PickNode, Protocol!NodeClosed,
       Protocol!NodeBranch, Protocol!NodeLimitHit, Protocol!SubtreeFails, Protocol!Leave,
       Protocol!Worker, Shared!Goto, Shared!SetWhy, Shared!SetOpen, Shared!poolVars,
       Shared!stopVars, Shared!envVars, Shared!workVars, Shared!Awake, Shared!TakeEnter,
       Shared!TakeSleep, Shared!TakeSubtree, Shared!TakeOver, Shared!WorkerExited,
       Shared!FinishedSubtree, Shared!FirstReason, Shared!StopThen, Shared!StopReason,
       Shared!StopFlag, Shared!StopWake, Shared!HeadExhausted, Shared!HeadStopped,
       Shared!SyncReport, Shared!Hungry, Shared!SyncShare, Shared!DonateCount,
       Shared!DonatePush, Shared!DonateDone, Shared!TestStopped, Shared!TestGap,
       Shared!PickNode, Shared!NodeClosed, Shared!NodeBranch, Shared!NodeLimitHit,
       Shared!SubtreeFails, Shared!Leave, Shared!Worker

LEMMA SharedStep == [Protocol!Next]_Protocol!vars => [Shared!Next]_Shared!vars
<1>1. UNCHANGED Protocol!vars => UNCHANGED Shared!vars
  BY Zenon
     DEF Protocol!vars, Protocol!poolVars, Protocol!stopVars, Protocol!envVars,
         Protocol!workVars, Shared!vars, Shared!poolVars, Shared!stopVars, Shared!envVars,
         Shared!workVars
<1>2. Protocol!DriverInterrupt \/ Protocol!DriverStep \/ Protocol!Tick
        => Shared!DriverInterrupt \/ Shared!DriverStep \/ Shared!Tick
  BY Zenon
     DEF Protocol!DriverInterrupt, Protocol!DriverStopReason, Protocol!DriverStopFlag,
         Protocol!DriverStopWake, Protocol!DriverSignal, Protocol!DriverReport,
         Protocol!DriverStep, Protocol!Tick, Protocol!Cardinality, Protocol!FirstReason,
         Protocol!poolVars, Protocol!stopVars, Protocol!envVars, Protocol!workVars,
         Shared!DriverInterrupt, Shared!DriverStopReason, Shared!DriverStopFlag,
         Shared!DriverStopWake, Shared!DriverSignal, Shared!DriverReport, Shared!DriverStep,
         Shared!Tick, Shared!Cardinality, Shared!FirstReason, Shared!poolVars,
         Shared!stopVars, Shared!envVars, Shared!workVars
<1>3. Protocol!Next => Shared!Next \/ UNCHANGED Shared!vars
  BY <1>1, <1>2, SharedWorker, Zenon DEF Protocol!Next, Shared!Next, Protocol!Done
<1> QED BY <1>1, <1>3, Zenon

LEMMA SharedSpec == Spec => Shared!Spec
<1>1. Protocol!Init => Shared!Init
  BY Zenon DEF Protocol!Init, Shared!Init
<1> QED BY <1>1, SharedStep, SearchKeepsTheProtocol, PTL DEF Protocol!Spec, Shared!Spec

\* In the search itself, whatever the tree: idle_, busy_ and exited_ count the
\* threads they are named for.
THEOREM SearchCountsItsWorkers == Spec => []Protocol!CountersAgree
<1>1. Shared!Spec => []Shared!CountersAgree
  BY Shared!CountersAreTrue, SharedAssumption, PTL
<1>2. Shared!CountersAgree => Protocol!CountersAgree
  BY Zenon DEF Protocol!CountersAgree, Shared!CountersAgree, Protocol!At, Shared!At,
     Protocol!BusyPCs, Shared!BusyPCs, Protocol!Cardinality, Shared!Cardinality
<1> QED BY <1>1, <1>2, SharedSpec, PTL

\* No worker leaves while another has a subtree it could give away.
THEOREM SearchKeepsItsWorkers == Spec => []Protocol!NoEarlyExit
<1>1. Shared!Spec => []Shared!NoEarlyExit
  BY Shared!NobodyLeavesEarly, SharedAssumption, PTL
<1>2. Shared!NoEarlyExit => Protocol!NoEarlyExit
  BY Zenon DEF Protocol!NoEarlyExit, Shared!NoEarlyExit, Protocol!At, Shared!At,
     Protocol!BusyPCs, Shared!BusyPCs
<1> QED BY <1>1, <1>2, SharedSpec, PTL

\* No worker sleeps through a subtree it could take or a stop it should obey.
THEOREM SearchWakesItsWorkers == Spec => []Protocol!NobodySleepsThrough
<1>1. Shared!Spec => []Shared!NobodySleepsThrough
  BY Shared!NoWakeUpIsLost, SharedAssumption, PTL
<1>2. Shared!NobodySleepsThrough => Protocol!NobodySleepsThrough
  BY Zenon DEF Protocol!NobodySleepsThrough, Shared!NobodySleepsThrough, Protocol!At, Shared!At
<1> QED BY <1>1, <1>2, SharedSpec, PTL
================================================================================
