------------------------- MODULE WorkSharing_proofs -------------------------
(***************************************************************************)
(* What TLAPS proves of the workers' protocol, for any number of workers   *)
(* and any limits: the counts take() and hungry() decide on are true, so   *)
(* nobody leaves early, and no change is slept through.                    *)
(***************************************************************************)
EXTENDS WorkSharing, FiniteSetTheorems, TLAPS

\* Where a worker can be; stop() returns only into the loop it was called from.
Placed ==
  /\ pc \in [Workers -> WorkerPCs]
  /\ ret \in [Workers -> {"leave", "finish"}]
  /\ asleep \subseteq Workers

IInv == Placed /\ CountersAgree /\ NoEarlyExit /\ NobodySleepsThrough

-----------------------------------------------------------------------------
\* Counting threads

LEMMA AtIsFinite ==
  ASSUME NEW L
  PROVE  IsFiniteSet(At(L)) /\ Cardinality(At(L)) \in Nat
<1>1. At(L) \subseteq Workers
  BY DEF At
<1>2. IsFiniteSet(At(L))
  BY <1>1, FS_Subset, WorkSharingAssumption
<1> QED BY <1>2, FS_CardinalityType

LEMMA NobodyThere ==
  ASSUME NEW L, Cardinality(At(L)) = 0
  PROVE  At(L) = {}
BY AtIsFinite, FS_EmptySet

\* What one move of a thread does to the count of a place.
LEMMA MoveCounts ==
  ASSUME NEW w \in Workers, NEW l, NEW L, Placed, Goto(w, l)
  PROVE  /\ l \in L /\ pc[w] \in L => At(L)' = At(L)
         /\ l \notin L /\ pc[w] \notin L => At(L)' = At(L)
         /\ l \in L /\ pc[w] \notin L =>
              At(L)' = At(L) \cup {w} /\ Cardinality(At(L)') = Cardinality(At(L)) + 1
         /\ l \notin L /\ pc[w] \in L =>
              At(L)' = At(L) \ {w} /\ Cardinality(At(L)') = Cardinality(At(L)) - 1
<1>1. pc' = [pc EXCEPT ![w] = l] /\ pc \in [Workers -> WorkerPCs]
  BY DEF Goto, Placed
<1>2. \A v \in Workers : pc'[v] = IF v = w THEN l ELSE pc[v]
  BY <1>1
<1>3. At(L)' = {v \in Workers : pc'[v] \in L}
  BY DEF At
<1>4. IsFiniteSet(At(L))
  BY AtIsFinite
<1>5. CASE l \in L /\ pc[w] \in L
  BY <1>2, <1>3, <1>5 DEF At
<1>6. CASE l \notin L /\ pc[w] \notin L
  BY <1>2, <1>3, <1>6 DEF At
<1>7. CASE l \in L /\ pc[w] \notin L
  <2>1. At(L)' = At(L) \cup {w} /\ w \notin At(L)
    BY <1>2, <1>3, <1>7 DEF At
  <2> QED BY <1>4, <1>7, <2>1, FS_AddElement
<1>8. CASE l \notin L /\ pc[w] \in L
  <2>1. At(L)' = At(L) \ {w} /\ w \in At(L)
    BY <1>2, <1>3, <1>8 DEF At
  <2> QED BY <1>4, <1>8, <2>1, FS_RemoveElement
<1> QED BY <1>5, <1>6, <1>7, <1>8

\* A move inside the loop, or no move at all, changes no count.
LEMMA StaysBusy ==
  ASSUME NEW w \in Workers, NEW l \in BusyPCs, pc[w] \in BusyPCs, Placed, CountersAgree,
         Goto(w, l), UNCHANGED <<idle, busy, exited>>
  PROVE  /\ CountersAgree' /\ pc' \in [Workers -> WorkerPCs]
         /\ At(BusyPCs)' = At(BusyPCs)
         /\ At({"exiting", "exited"})' = At({"exiting", "exited"})
<1>1. /\ l \notin {"waiting"} /\ l \notin {"exited"} /\ l \notin {"exiting", "exited"}
      /\ pc[w] \notin {"waiting"} /\ pc[w] \notin {"exited"}
      /\ pc[w] \notin {"exiting", "exited"} /\ l \in WorkerPCs
  BY DEF BusyPCs, WorkerPCs
<1>2. /\ At(BusyPCs)' = At(BusyPCs) /\ At({"waiting"})' = At({"waiting"})
      /\ At({"exited"})' = At({"exited"})
      /\ At({"exiting", "exited"})' = At({"exiting", "exited"})
  BY <1>1, MoveCounts
<1>3. pc' \in [Workers -> WorkerPCs]
  BY <1>1 DEF Goto, Placed
<1> QED BY <1>2, <1>3 DEF CountersAgree

-----------------------------------------------------------------------------
\* The steps

\* Most of what a worker does with its subtree concerns nobody else.
LEMMA InTheLoop ==
  ASSUME IInv, NEW w \in Workers, NEW l \in BusyPCs, pc[w] \in BusyPCs \ {"stopWake"},
         Goto(w, l), ret' \in [Workers -> {"leave", "finish"}],
         UNCHANGED <<queue, idle, busy, exited, asleep, stopFlag, dpc>>
  PROVE  IInv'
<1>1. Placed /\ CountersAgree /\ NoEarlyExit /\ NobodySleepsThrough
  BY DEF IInv
<1>2. /\ CountersAgree' /\ pc' \in [Workers -> WorkerPCs]
      /\ At(BusyPCs)' = At(BusyPCs)
      /\ At({"exiting", "exited"})' = At({"exiting", "exited"})
  BY <1>1, StaysBusy
<1>3. Placed' /\ NoEarlyExit'
  BY <1>1, <1>2 DEF Placed, NoEarlyExit
<1>4. At({"stopWake"}) # {} => At({"stopWake"})' # {}
  <2> SUFFICES ASSUME NEW v \in At({"stopWake"}) PROVE At({"stopWake"})' # {}
    OBVIOUS
  <2>1. v \in Workers /\ pc[v] = "stopWake" /\ v # w
    BY DEF At
  <2>2. pc'[v] = "stopWake"
    BY <1>1, <2>1 DEF Goto, Placed
  <2> QED BY <2>1, <2>2 DEF At
<1>5. NobodySleepsThrough'
  BY <1>1, <1>4 DEF NobodySleepsThrough
<1> QED BY <1>2, <1>3, <1>5 DEF IInv

LEMMA LoopStepsKeep ==
  ASSUME IInv, NEW w \in Workers,
         \/ StopReason(w) \/ HeadExhausted(w) \/ HeadStopped(w) \/ SyncReport(w)
         \/ SyncShare(w) \/ DonateCount(w) \/ DonateDone(w) \/ TestStopped(w) \/ TestGap(w)
         \/ PickNode(w) \/ NodeClosed(w) \/ NodeBranch(w) \/ NodeLimitHit(w)
         \/ SubtreeFails(w) \/ Leave(w)
  PROVE  IInv'
<1>1. ret \in [Workers -> {"leave", "finish"}]
  BY DEF IInv, Placed
<1>2. CASE StopReason(w)
  BY <1>1, <1>2, InTheLoop DEF StopReason, BusyPCs, poolVars
<1>3. CASE HeadExhausted(w) \/ HeadStopped(w)
  BY <1>1, <1>3, InTheLoop DEF HeadExhausted, HeadStopped, BusyPCs, poolVars, stopVars
<1>4. CASE SyncReport(w)
  BY <1>1, <1>4, InTheLoop DEF SyncReport, StopThen, BusyPCs, poolVars, stopVars
<1>5. CASE SyncShare(w) \/ DonateCount(w) \/ DonateDone(w)
  BY <1>1, <1>5, InTheLoop DEF SyncShare, DonateCount, DonateDone, BusyPCs, poolVars, stopVars
<1>6. CASE TestStopped(w) \/ TestGap(w) \/ PickNode(w)
  BY <1>1, <1>6, InTheLoop DEF TestStopped, TestGap, PickNode, BusyPCs, poolVars, stopVars
<1>7. CASE NodeClosed(w) \/ NodeBranch(w) \/ NodeLimitHit(w)
  BY <1>1, <1>7, InTheLoop DEF NodeClosed, NodeBranch, NodeLimitHit, BusyPCs, poolVars, stopVars
<1>8. CASE SubtreeFails(w)
  BY <1>1, <1>8, InTheLoop DEF SubtreeFails, StopThen, BusyPCs, poolVars
<1>9. CASE Leave(w)
  BY <1>1, <1>9, InTheLoop DEF Leave, StopThen, BusyPCs, poolVars, stopVars
<1> QED BY <1>2, <1>3, <1>4, <1>5, <1>6, <1>7, <1>8, <1>9

\* A stop makes sleeping wrong, and is about to say so; then it says so.
LEMMA StopStepsKeep ==
  ASSUME IInv, NEW w \in Workers, StopFlag(w) \/ StopWake(w)
  PROVE  IInv'
<1>1. Placed /\ CountersAgree /\ NoEarlyExit
  BY DEF IInv
<1>2. CASE StopFlag(w)
  <2>1. CountersAgree' /\ pc' \in [Workers -> WorkerPCs]
    BY <1>1, <1>2, StaysBusy DEF StopFlag, BusyPCs, poolVars
  <2>2. Placed' /\ NoEarlyExit'
    BY <1>1, <1>2, <2>1 DEF StopFlag, Placed, NoEarlyExit, poolVars
  <2>3. w \in At({"stopWake"})'
    BY <1>1, <1>2 DEF StopFlag, Goto, Placed, At
  <2> QED BY <2>1, <2>2, <2>3 DEF IInv, NobodySleepsThrough
<1>3. CASE StopWake(w)
  <2>1. ret[w] \in BusyPCs
    BY <1>1 DEF Placed, BusyPCs
  <2>2. /\ CountersAgree' /\ pc' \in [Workers -> WorkerPCs]
        /\ At(BusyPCs)' = At(BusyPCs)
        /\ At({"exiting", "exited"})' = At({"exiting", "exited"})
    BY <1>1, <1>3, <2>1, StaysBusy DEF StopWake, BusyPCs
  <2>3. Placed' /\ NoEarlyExit' /\ NobodySleepsThrough'
    BY <1>1, <1>3, <2>2 DEF StopWake, stopVars, Placed, NoEarlyExit, NobodySleepsThrough
  <2> QED BY <2>2, <2>3 DEF IInv
<1> QED BY <1>2, <1>3

\* Where there is a busy worker nobody has left, so it may push.
LEMMA DonatePushKeeps ==
  ASSUME IInv, NEW w \in Workers, DonatePush(w)
  PROVE  IInv'
<1>1. pc' = pc /\ stopFlag' = stopFlag /\ asleep' = {} /\ UNCHANGED <<idle, busy, exited, ret>>
  BY DEF DonatePush, stopVars
<1>2. \A L : At(L)' = At(L)
  BY <1>1 DEF At
<1>3. w \in At(BusyPCs)
  BY DEF DonatePush, At, BusyPCs
<1>4. NoEarlyExit'
  BY <1>1, <1>2, <1>3 DEF IInv, NoEarlyExit
<1>5. CountersAgree' /\ Placed' /\ NobodySleepsThrough'
  BY <1>1, <1>2 DEF IInv, CountersAgree, Placed, NobodySleepsThrough
<1> QED BY <1>4, <1>5 DEF IInv

LEMMA TakeEnterKeeps ==
  ASSUME IInv, NEW w \in Workers, TakeEnter(w)
  PROVE  IInv'
<1>1. Placed /\ CountersAgree /\ NoEarlyExit /\ NobodySleepsThrough
  BY DEF IInv
<1>2. /\ pc[w] = "take" /\ Goto(w, "waiting") /\ idle' = idle + 1
      /\ UNCHANGED <<queue, busy, exited, asleep, stopFlag, ret, dpc>>
  BY DEF TakeEnter, stopVars
<1>3. /\ At(BusyPCs)' = At(BusyPCs) /\ At({"exited"})' = At({"exited"})
      /\ At({"exiting", "exited"})' = At({"exiting", "exited"})
      /\ At({"stopWake"})' = At({"stopWake"})
      /\ Cardinality(At({"waiting"})') = Cardinality(At({"waiting"})) + 1
  <2>1. /\ "take" \notin BusyPCs /\ "waiting" \notin BusyPCs
        /\ "take" \notin {"waiting"} /\ "waiting" \in {"waiting"}
        /\ "take" \notin {"exited"} /\ "waiting" \notin {"exited"}
        /\ "take" \notin {"exiting", "exited"} /\ "waiting" \notin {"exiting", "exited"}
        /\ "take" \notin {"stopWake"} /\ "waiting" \notin {"stopWake"}
    BY DEF BusyPCs
  <2> QED BY <1>1, <1>2, <2>1, MoveCounts
<1>4. CountersAgree'
  BY <1>1, <1>2, <1>3 DEF CountersAgree
<1>5. Placed'
  BY <1>1, <1>2 DEF Placed, Goto, WorkerPCs
<1>6. NoEarlyExit' /\ NobodySleepsThrough'
  BY <1>1, <1>2, <1>3 DEF NoEarlyExit, NobodySleepsThrough
<1> QED BY <1>4, <1>5, <1>6 DEF IInv

LEMMA TakeSleepKeeps ==
  ASSUME IInv, NEW w \in Workers, TakeSleep(w)
  PROVE  IInv'
<1>1. /\ pc' = pc /\ queue = 0 /\ busy # 0 /\ ~stopFlag /\ asleep' = asleep \cup {w}
      /\ UNCHANGED <<queue, idle, busy, exited, stopFlag, ret, dpc>>
  BY DEF TakeSleep, stopVars
<1>2. \A L : At(L)' = At(L)
  BY <1>1 DEF At
<1>3. busy > 0
  BY <1>1, AtIsFinite DEF IInv, CountersAgree
<1>4. NobodySleepsThrough'
  BY <1>1, <1>3 DEF NobodySleepsThrough
<1>5. CountersAgree' /\ Placed' /\ NoEarlyExit'
  BY <1>1, <1>2 DEF IInv, CountersAgree, Placed, NoEarlyExit
<1> QED BY <1>4, <1>5 DEF IInv

\* While a subtree is queued nobody has left.
LEMMA TakeSubtreeKeeps ==
  ASSUME IInv, NEW w \in Workers, TakeSubtree(w)
  PROVE  IInv'
<1>1. Placed /\ CountersAgree /\ NoEarlyExit /\ NobodySleepsThrough
  BY DEF IInv
<1>2. /\ pc[w] = "waiting" /\ Goto(w, "head") /\ queue > 0 /\ ~stopFlag
      /\ idle' = idle - 1 /\ busy' = busy + 1
      /\ UNCHANGED <<exited, asleep, stopFlag, ret, dpc>>
  BY DEF TakeSubtree, Awake, stopVars
<1>3. /\ At({"exited"})' = At({"exited"})
      /\ At({"exiting", "exited"})' = At({"exiting", "exited"})
      /\ At({"stopWake"})' = At({"stopWake"})
      /\ Cardinality(At(BusyPCs)') = Cardinality(At(BusyPCs)) + 1
      /\ Cardinality(At({"waiting"})') = Cardinality(At({"waiting"})) - 1
  <2>1. /\ "waiting" \notin BusyPCs /\ "head" \in BusyPCs
        /\ "waiting" \in {"waiting"} /\ "head" \notin {"waiting"}
        /\ "waiting" \notin {"exited"} /\ "head" \notin {"exited"}
        /\ "waiting" \notin {"exiting", "exited"} /\ "head" \notin {"exiting", "exited"}
        /\ "waiting" \notin {"stopWake"} /\ "head" \notin {"stopWake"}
    BY DEF BusyPCs
  <2> QED BY <1>1, <1>2, <2>1, MoveCounts
<1>4. CountersAgree'
  BY <1>1, <1>2, <1>3 DEF CountersAgree
<1>5. Placed'
  BY <1>1, <1>2 DEF Placed, Goto, WorkerPCs, BusyPCs
<1>6. NoEarlyExit' /\ NobodySleepsThrough'
  BY <1>1, <1>2, <1>3 DEF NoEarlyExit, NobodySleepsThrough
<1> QED BY <1>4, <1>5, <1>6 DEF IInv

\* The first to leave read a count of no busy worker, and the count was true.
LEMMA TakeOverKeeps ==
  ASSUME IInv, NEW w \in Workers, TakeOver(w)
  PROVE  IInv'
<1>1. Placed /\ CountersAgree /\ NoEarlyExit
  BY DEF IInv
<1>2. /\ pc[w] = "waiting" /\ Goto(w, "exiting") /\ (stopFlag \/ (queue = 0 /\ busy = 0))
      /\ idle' = idle - 1 /\ asleep' = {}
      /\ UNCHANGED <<queue, busy, exited, stopFlag, ret, dpc>>
  BY DEF TakeOver, Awake, stopVars
<1>3. /\ At({"exited"})' = At({"exited"}) /\ At(BusyPCs)' = At(BusyPCs)
      /\ Cardinality(At({"waiting"})') = Cardinality(At({"waiting"})) - 1
  <2>1. /\ "waiting" \notin BusyPCs /\ "exiting" \notin BusyPCs
        /\ "waiting" \in {"waiting"} /\ "exiting" \notin {"waiting"}
        /\ "waiting" \notin {"exited"} /\ "exiting" \notin {"exited"}
    BY DEF BusyPCs
  <2>2. At({"exited"})' = At({"exited"})
    BY <1>1, <1>2, <2>1, MoveCounts
  <2>3. At(BusyPCs)' = At(BusyPCs)
    BY <1>1, <1>2, <2>1, MoveCounts
  <2>4. Cardinality(At({"waiting"})') = Cardinality(At({"waiting"})) - 1
    BY <1>1, <1>2, <2>1, MoveCounts
  <2> QED BY <2>2, <2>3, <2>4
<1>4. CountersAgree'
  BY <1>1, <1>2, <1>3 DEF CountersAgree
<1>5. Placed' /\ NobodySleepsThrough'
  BY <1>1, <1>2 DEF Placed, Goto, WorkerPCs, NobodySleepsThrough
<1>6. NoEarlyExit'
  <2>1. ~stopFlag => queue = 0 /\ At(BusyPCs) = {}
    BY <1>1, <1>2, NobodyThere DEF CountersAgree
  <2> QED BY <1>2, <1>3, <2>1 DEF NoEarlyExit
<1> QED BY <1>4, <1>5, <1>6 DEF IInv

LEMMA WorkerExitedKeeps ==
  ASSUME IInv, NEW w \in Workers, WorkerExited(w)
  PROVE  IInv'
<1>1. Placed /\ CountersAgree /\ NoEarlyExit
  BY DEF IInv
<1>2. /\ pc[w] = "exiting" /\ Goto(w, "exited") /\ exited' = exited + 1 /\ asleep' = {}
      /\ UNCHANGED <<queue, idle, busy, stopFlag, ret, dpc>>
  BY DEF WorkerExited, stopVars
<1>3. /\ At({"waiting"})' = At({"waiting"}) /\ At(BusyPCs)' = At(BusyPCs)
      /\ At({"exiting", "exited"})' = At({"exiting", "exited"})
      /\ Cardinality(At({"exited"})') = Cardinality(At({"exited"})) + 1
  <2>1. /\ "exiting" \notin BusyPCs /\ "exited" \notin BusyPCs
        /\ "exiting" \notin {"waiting"} /\ "exited" \notin {"waiting"}
        /\ "exiting" \notin {"exited"} /\ "exited" \in {"exited"}
        /\ "exiting" \in {"exiting", "exited"} /\ "exited" \in {"exiting", "exited"}
    BY DEF BusyPCs
  <2> QED BY <1>1, <1>2, <2>1, MoveCounts
<1>4. CountersAgree'
  BY <1>1, <1>2, <1>3 DEF CountersAgree
<1>5. Placed' /\ NoEarlyExit' /\ NobodySleepsThrough'
  BY <1>1, <1>2, <1>3 DEF Placed, Goto, WorkerPCs, NoEarlyExit, NobodySleepsThrough
<1> QED BY <1>4, <1>5 DEF IInv

LEMMA FinishedSubtreeKeeps ==
  ASSUME IInv, NEW w \in Workers, FinishedSubtree(w)
  PROVE  IInv'
<1>1. Placed /\ CountersAgree /\ NoEarlyExit
  BY DEF IInv
<1>2. /\ pc[w] = "finish" /\ Goto(w, "take") /\ busy' = busy - 1 /\ asleep' = {}
      /\ UNCHANGED <<queue, idle, exited, stopFlag, ret, dpc>>
  BY DEF FinishedSubtree, stopVars
<1>3. /\ At({"waiting"})' = At({"waiting"}) /\ At({"exited"})' = At({"exited"})
      /\ At({"exiting", "exited"})' = At({"exiting", "exited"})
      /\ At(BusyPCs)' = At(BusyPCs) \ {w}
      /\ Cardinality(At(BusyPCs)') = Cardinality(At(BusyPCs)) - 1
  <2>1. /\ "finish" \in BusyPCs /\ "take" \notin BusyPCs
        /\ "finish" \notin {"waiting"} /\ "take" \notin {"waiting"}
        /\ "finish" \notin {"exited"} /\ "take" \notin {"exited"}
        /\ "finish" \notin {"exiting", "exited"} /\ "take" \notin {"exiting", "exited"}
    BY DEF BusyPCs
  <2>2. At({"waiting"})' = At({"waiting"})
    BY <1>1, <1>2, <2>1, MoveCounts
  <2>3. At({"exited"})' = At({"exited"})
    BY <1>1, <1>2, <2>1, MoveCounts
  <2>4. At({"exiting", "exited"})' = At({"exiting", "exited"})
    BY <1>1, <1>2, <2>1, MoveCounts
  <2>5. /\ At(BusyPCs)' = At(BusyPCs) \ {w}
        /\ Cardinality(At(BusyPCs)') = Cardinality(At(BusyPCs)) - 1
    BY <1>1, <1>2, <2>1, MoveCounts
  <2> QED BY <2>2, <2>3, <2>4, <2>5
<1>4. CountersAgree'
  BY <1>1, <1>2, <1>3 DEF CountersAgree
<1>5. Placed' /\ NoEarlyExit' /\ NobodySleepsThrough'
  BY <1>1, <1>2, <1>3 DEF Placed, Goto, WorkerPCs, NoEarlyExit, NobodySleepsThrough
<1> QED BY <1>4, <1>5 DEF IInv

\* The driver, the clock and the end move no worker.
LEMMA OutsideStepsKeep ==
  ASSUME IInv, DriverInterrupt \/ DriverStep \/ Tick \/ UNCHANGED vars
  PROVE  IInv'
<1>1. pc' = pc /\ ret' = ret /\ UNCHANGED <<queue, idle, busy, exited>>
  BY DEF DriverInterrupt, DriverStep, DriverStopReason, DriverStopFlag, DriverStopWake,
         DriverSignal, DriverReport, Tick, vars, poolVars
<1>2. \A L : At(L)' = At(L)
  BY <1>1 DEF At
<1>3. \/ asleep' = asleep /\ stopFlag' = stopFlag /\ (dpc = "stopWake" => dpc' = "stopWake")
      \/ asleep' = asleep /\ stopFlag' /\ dpc' = "stopWake"
      \/ asleep' = {} /\ stopFlag' = stopFlag
  BY DEF DriverInterrupt, DriverStep, DriverStopReason, DriverStopFlag, DriverStopWake,
         DriverSignal, DriverReport, Tick, vars, poolVars, stopVars
<1>4. CountersAgree' /\ Placed'
  BY <1>1, <1>2, <1>3 DEF IInv, CountersAgree, Placed
<1>5. NoEarlyExit' /\ NobodySleepsThrough'
  BY <1>1, <1>2, <1>3 DEF IInv, NoEarlyExit, NobodySleepsThrough
<1> QED BY <1>4, <1>5 DEF IInv

-----------------------------------------------------------------------------
\* The theorems

LEMMA InitHolds == Init => IInv
<1> SUFFICES ASSUME Init PROVE IInv
  OBVIOUS
<1>1. \A w \in Workers : pc[w] = "take"
  BY DEF Init
<1>2. At(BusyPCs) = {} /\ At({"waiting"}) = {} /\ At({"exited"}) = {}
      /\ At({"exiting", "exited"}) = {}
  BY <1>1 DEF At, BusyPCs
<1>3. CountersAgree
  BY <1>2, FS_EmptySet DEF CountersAgree, Init
<1>4. Placed /\ NoEarlyExit /\ NobodySleepsThrough
  BY <1>2 DEF Placed, WorkerPCs, NoEarlyExit, NobodySleepsThrough, Init
<1> QED BY <1>3, <1>4 DEF IInv

LEMMA Invariance == Spec => []IInv
<1>1. IInv /\ [Next]_vars => IInv'
  <2> SUFFICES ASSUME IInv, [Next]_vars PROVE IInv'
    OBVIOUS
  <2>1. ASSUME NEW w \in Workers, Worker(w) PROVE IInv'
    BY <2>1, LoopStepsKeep, StopStepsKeep, DonatePushKeeps, TakeEnterKeeps, TakeSleepKeeps,
       TakeSubtreeKeeps, TakeOverKeeps, WorkerExitedKeeps, FinishedSubtreeKeeps DEF Worker
  <2>2. CASE DriverInterrupt \/ DriverStep \/ Tick \/ Done \/ UNCHANGED vars
    BY <2>2, OutsideStepsKeep DEF Done
  <2> QED BY <2>1, <2>2 DEF Next
<1> QED BY InitHolds, <1>1, PTL DEF Spec

\* idle_, busy_ and exited_ count the threads they are named for, whatever way a thread takes
\* through take(), finished_subtree(), stop() and worker_exited().
THEOREM CountersAreTrue == Spec => []CountersAgree
BY Invariance, PTL DEF IInv

\* take() lets the first worker go only when no subtree is queued or can still be pushed.
THEOREM NobodyLeavesEarly == Spec => []NoEarlyExit
BY Invariance, PTL DEF IInv

\* Every change a sleeper waits for is followed by the notify that wakes it: queue_changed_
\* loses no wake-up.
THEOREM NoWakeUpIsLost == Spec => []NobodySleepsThrough
BY Invariance, PTL DEF IInv
=============================================================================
