------------------------ MODULE SolvePipeline_proofs ------------------------
(***************************************************************************)
(* What TLAPS proves of one call of solve(), for every set of calls, every *)
(* limit and any engine that keeps the contract of EngineAnswers.          *)
(***************************************************************************)
EXTENDS SolvePipeline, ModelHandle, TLAPS

Held == {"numbers", "nan", "nothing"}    \* what a point is before the guards
Proved == {"none", "holds", "fails", "flipped"}
Reasons == {"none", "time", "iterations", "nodes", "interrupt"}

\* Mixed-integer and quadratic models have engines of their own.
OtherEngines == {"convex-qp", "branch-and-bound"}

Answer ==
  [status : Statuses, point : Held \cup {"cleared"}, score : Int, bad : SUBSET Measures,
   stoppedBy : Reasons, proof : Proved, found : BOOLEAN]

\* What a stage before the guards may rely on, whichever engine answered: the point is known
\* to be there or not, only an infeasibility has a sign to turn, a limit is given no other
\* limit's reason, only the user interrupts, and the clock stops nothing that has none.
Sane(a) ==
  /\ a \in Answer /\ a.point \in Held
  /\ a.found <=> a.point # "nothing"
  /\ a.proof = "flipped" => a.status = "infeasible"
  /\ a.stoppedBy = "none" \/ (a.stoppedBy = "time" /\ a.status \in {"feasible", "time_limit"})
  /\ a.status = "interrupted" => interrupt

Clocked(a) == a.status = "time_limit" \/ a.stoppedBy = "time" => call.limit # Forever

Carried(a) == Sane(a) /\ Clocked(a)

Working == {"validate", "select", "direct", "warm", "presolve", "engine", "polish",
            "crossover", "postsolve", "guard"}

\* Which way the call took.  Only a linear program is certified, so only its proofs are
\* verified: the answers of the other classes must reach the guards without one.
Routed ==
  /\ pc = "direct" => call.entry = "registry"
  /\ call.class # "lp" =>
       /\ pc \notin {"warm", "polish", "crossover", "iis"}
       /\ pc \in {"presolve", "engine"} => engine \in OtherEngines
       /\ pc \in {"postsolve", "guard"} => ans.proof = "none"

\* What the guards leave.
Honest(a) ==
  a.status \in {"optimal", "feasible"} =>
    /\ a.point = "numbers" /\ a.found
    /\ a.bad \cap {"primal", "integrality"} = {}
    /\ a.status = "optimal" /\ call.class = "lp" =>
         a.bad \cap {"dual", "complementarity"} = {}
Given(a) == ClaimsAPoint(a.status) => a.found \/ a.point = "cleared"
Certified(a) == a.status \in {"infeasible", "unbounded"} => a.proof \in {"none", "holds"}
Explained(a) ==
  /\ a.status \in LimitStatuses => a.stoppedBy = ReasonOf(a.status)
  /\ a.stoppedBy = "time" => call.limit # Forever
  /\ a.stoppedBy = "interrupt" => interrupt

IInv ==
  /\ pc \in Working => Carried(ans)
  /\ Routed
  /\ pc \in {"iis", "done"} => Honest(ans) /\ Given(ans) /\ Certified(ans)
  /\ pc \in {"iis", "done"} /\ call.entry = "solve" => Explained(ans)

-----------------------------------------------------------------------------
\* Engines

\* Whatever a call of an engine hands back is carried, and an engine that certifies nothing
\* attaches no certificate.
LEMMA EngineAnswersAreSane ==
  ASSUME NEW e, NEW t \in BOOLEAN, NEW a \in EngineAnswers(e, t)
  PROVE  /\ Sane(a)
         /\ (t => call.limit # Forever) => Clocked(a)
         /\ e # "branch-and-bound" => a.stoppedBy = "none"
         /\ ~Capabilities[e].certificates => a.proof = "none"
<1>1. PICK status \in StatusesNow(e, t) :
        a \in {EngineAnswer(status, p, proof, stop) :
                p \in Points(e, status), proof \in Proofs(e, status),
                stop \in StopsNamed(e, status, t)}
  BY DEF EngineAnswers
<1>2. PICK p \in Points(e, status), proof \in Proofs(e, status),
           stop \in StopsNamed(e, status, t) :
        a = EngineAnswer(status, p, proof, stop)
  BY <1>1
<1>3. a = [status |-> status, point |-> p.point, score |-> p.score, bad |-> {},
           stoppedBy |-> stop, proof |-> proof, found |-> p.point # "nothing"]
  BY <1>2 DEF EngineAnswer
<1>4. p.point \in Held /\ p.score \in Int
  BY DEF Points, Held
<1>5. /\ status \in Statuses
      /\ status = "time_limit" => t
      /\ status = "interrupted" => interrupt
  BY DEF StatusesNow, EngineStatuses, Statuses, LimitStatuses
<1>6. \/ stop = "none"
      \/ stop = "time" /\ t /\ status \in {"feasible", "time_limit"} /\ e = "branch-and-bound"
  BY DEF StopsNamed
<1>7. /\ proof \in Proved /\ (~Capabilities[e].certificates => proof = "none")
      /\ proof = "flipped" => status = "infeasible"
  BY DEF Proofs, Proved
<1>8. a \in Answer
  BY <1>3, <1>4, <1>5, <1>6, <1>7 DEF Answer, Reasons
<1>9. a.found <=> a.point # "nothing"
  BY <1>3
<1> QED BY <1>3, <1>4, <1>5, <1>6, <1>7, <1>8, <1>9 DEF Sane, Clocked

\* A budget made from an absent limit is absent, so no clock can run out on it.
LEMMA AbsentLimitIsAbsentBudget ==
  ASSUME call.limit = Forever
  PROVE  /\ TimeLeft = Forever /\ FirstPassShare(TimeLeft) = Forever /\ PushBudget = Forever
         /\ \A n : ScaledShare(Forever) = Forever /\ Remaining(Forever, n) = Forever
BY DEF TimeLeft, Remaining, FirstPassShare, PushBudget, ScaledShare

LEMMA AttemptsAreCarried ==
  ASSUME NEW e, NEW b, b # Forever => call.limit # Forever, NEW o \in Attempts(e, b)
  PROVE  /\ Carried(o.answer)
         /\ ~Capabilities[e].certificates => o.answer.proof = "none"
<1>1. PICK d \in Durations(b) :
        o \in [spent : {d}, answer : EngineAnswers(e, b # Forever /\ d = b)]
  BY DEF Attempts
<1>2. o.answer \in EngineAnswers(e, b # Forever /\ d = b)
  BY <1>1
<1>3. (b # Forever /\ d = b) \in BOOLEAN
  OBVIOUS
<1> QED BY <1>2, <1>3, EngineAnswersAreSane DEF Carried

\* The portfolio reports one of its two attempts, so it promises what an attempt does.
LEMMA OutcomesAreCarried ==
  ASSUME NEW e, NEW b, b # Forever => call.limit # Forever, NEW o \in Outcomes(e, b)
  PROVE  /\ Carried(o.answer)
         /\ ~Capabilities[e].certificates => o.answer.proof = "none"
<1>1. CASE o \in Attempts(e, b)
  BY <1>1, AttemptsAreCarried
<1>2. CASE o \in Portfolio(e, b)
  <2>1. ScaledShare(b) # Forever => call.limit # Forever
    BY AbsentLimitIsAbsentBudget
  <2>2. PICK first \in Attempts(e, ScaledShare(b)) :
          \/ o = first
          \/ \E retry \in Attempts(e, Remaining(b, first.spent)) :
               o \in [spent : {first.spent + retry.spent},
                      answer : Kept(first.answer, retry.answer)]
    BY <1>2 DEF Portfolio
  <2>3. CASE o = first
    BY <2>1, <2>3, AttemptsAreCarried
  <2>4. ASSUME NEW retry \in Attempts(e, Remaining(b, first.spent)),
               o \in [spent : {first.spent + retry.spent},
                      answer : Kept(first.answer, retry.answer)]
        PROVE  /\ Carried(o.answer)
               /\ ~Capabilities[e].certificates => o.answer.proof = "none"
    <3>1. o.answer \in {first.answer, retry.answer}
      BY <2>4 DEF Kept
    <3>2. Remaining(b, first.spent) # Forever => call.limit # Forever
      BY AbsentLimitIsAbsentBudget
    <3> QED BY <2>1, <3>1, <3>2, AttemptsAreCarried
  <2> QED BY <2>2, <2>3, <2>4
<1> QED BY <1>1, <1>2 DEF Outcomes

LEMMA PushOutcomesAreCarried ==
  ASSUME NEW o \in PushOutcomes
  PROVE  Carried(o.answer)
<1>1. PICK d \in 0 .. LongestPhase :
        o \in [spent : {d},
               answer : EngineAnswers("simplex", PushBudget # Forever /\ d >= PushBudget)]
  BY DEF PushOutcomes
<1>2. o.answer \in EngineAnswers("simplex", PushBudget # Forever /\ d >= PushBudget)
  BY <1>1
<1>3. (PushBudget # Forever /\ d >= PushBudget) \in BOOLEAN
  OBVIOUS
<1>4. PushBudget # Forever => call.limit # Forever
  BY AbsentLimitIsAbsentBudget
<1> QED BY <1>2, <1>3, <1>4, EngineAnswersAreSane DEF Carried

\* The registered engines of the other classes certify nothing, and are neither the interior
\* point nor a first-order method.
LEMMA OtherClassesHaveOtherEngines ==
  /\ \A e \in OtherEngines : ~Capabilities[e].certificates
  /\ \A c : c # "lp" => Candidates(c) \subseteq OtherEngines
  /\ OtherEngines \cap {"ipm", "pdhg", "pdhg-gpu"} = {}
<1> DEFINE lpEngines == {"simplex", "dual-simplex", "pdhg", "ipm"}
                          \cup (IF Cuda THEN {"pdhg-gpu"} ELSE {})
           names == lpEngines \cup {"convex-qp", "branch-and-bound"}
<1>1. lpEngines \cap OtherEngines = {}
  BY DEF OtherEngines
<1>2. DOMAIN Capabilities = names
  BY DEF Capabilities
<1>3. \A e \in lpEngines : Capabilities[e].classes = {"lp"}
  BY DEF Capabilities
<1>4. \A c : c # "lp" => Candidates(c) \subseteq OtherEngines
  BY <1>2, <1>3 DEF Candidates, Registered, Accepts, OtherEngines
<1>5. \A e \in OtherEngines : ~Capabilities[e].certificates
  BY DEF Capabilities, OtherEngines
<1> QED BY <1>4, <1>5 DEF OtherEngines

-----------------------------------------------------------------------------
\* The guards

\* Reconciled and refused, an answer is honest about its point, keeps its proof and its
\* reason, and has become no limit and no verdict it was not.
LEMMA RefusalSettles ==
  ASSUME NEW a, Carried(a)
  PROVE  LET g == RefuseNonFinite(Reconcile(a, CheckDual)) IN
         /\ g \in Answer /\ Honest(g) /\ Given(g)
         /\ g.proof = a.proof /\ g.stoppedBy = a.stoppedBy
         /\ g.status \in LimitStatuses \cup {"infeasible", "unbounded"} => g.status = a.status
<1> DEFINE r == Reconcile(a, CheckDual)
           g == RefuseNonFinite(r)
<1>1. /\ r \in Answer /\ r.point = a.point /\ r.found = a.found /\ r.bad = a.bad
      /\ r.proof = a.proof /\ r.stoppedBy = a.stoppedBy
  BY DEF Reconcile, Carried, Sane, Clocked, Answer, Statuses
<1>2. r.status \in {a.status, "numerical_error", "feasible"}
  BY DEF Reconcile, Carried, Sane, Clocked, Answer
<1>3. r.status \in {"optimal", "feasible"} => r.bad \cap {"primal", "integrality"} = {}
  <2>1. CASE a.bad \cap {"primal", "integrality"} = {}
    BY <1>1, <2>1
  <2>2. CASE a.bad \cap {"primal", "integrality"} # {} /\ a.status \in {"optimal", "feasible"}
    BY <2>2 DEF Reconcile, Carried, Sane, Clocked, Answer
  <2>3. CASE a.status \notin {"optimal", "feasible"}
    <3>1. r.status = a.status
      BY <2>3 DEF Reconcile, Carried, Sane, Clocked, Answer
    <3> QED BY <2>3, <3>1
  <2> QED BY <2>1, <2>2, <2>3
<1>4. r.status = "optimal" /\ call.class = "lp" =>
        r.bad \cap {"dual", "complementarity"} = {}
  BY DEF Reconcile, Carried, Sane, Clocked, Answer, CheckDual
<1>5. r.point \in Held /\ (r.found <=> r.point # "nothing")
  BY <1>1 DEF Carried, Sane, Clocked
<1> HIDE DEF r
<1>6. /\ g \in Answer /\ g.bad = r.bad /\ g.found = r.found
      /\ g.proof = r.proof /\ g.stoppedBy = r.stoppedBy
  BY <1>1 DEF RefuseNonFinite, Answer, Statuses
<1>7. \/ g = r /\ (~ClaimsAPoint(r.status) \/ r.point = "numbers")
      \/ g.status \in LimitStatuses \cup {"numerical_error"} /\ g.point = "cleared"
           /\ g.status \in {r.status, "numerical_error"}
  BY <1>1, <1>5 DEF RefuseNonFinite, Answer, Held
<1> HIDE DEF g
<1>8. Honest(g)
  BY <1>3, <1>4, <1>5, <1>6, <1>7 DEF Honest, ClaimsAPoint, LimitStatuses
<1>9. Given(g)
  BY <1>5, <1>6, <1>7 DEF Given
<1>10. g.status \in LimitStatuses \cup {"infeasible", "unbounded"} => g.status = a.status
  BY <1>2, <1>7 DEF LimitStatuses
<1> QED BY <1>1, <1>6, <1>8, <1>9, <1>10 DEF g, r

\* Verified, a verdict carries a proof that holds or none; nothing else moves.
LEMMA VerifiedIsCertified ==
  ASSUME NEW a \in Answer, a.proof = "flipped" => a.status # "unbounded"
  PROVE  LET v == VerifyCertificate(a) IN
         /\ v \in Answer /\ Certified(v)
         /\ v.status = a.status /\ v.point = a.point /\ v.found = a.found
         /\ v.bad = a.bad /\ v.stoppedBy = a.stoppedBy
<1> DEFINE v == VerifyCertificate(a)
<1>1. /\ v \in Answer /\ v.status = a.status /\ v.point = a.point /\ v.found = a.found
      /\ v.bad = a.bad /\ v.stoppedBy = a.stoppedBy
  BY DEF VerifyCertificate, Answer, Proved
<1>2. Certified(v)
  BY DEF VerifyCertificate, Answer, Proved, Certified
<1> QED BY <1>1, <1>2

\* The guards as solve() applies them, to an answer that reached them.
LEMMA GuardsSettle ==
  ASSUME NEW a, Carried(a), call.class # "lp" => a.proof = "none"
  PROVE  LET g == Guarded(a) IN Honest(g) /\ Given(g) /\ Certified(g) /\ Explained(g)
<1> DEFINE s == RefuseNonFinite(Reconcile(a, CheckDual))
           w == RecordWhyItStopped(s)
           g == Guarded(a)
<1>1. /\ s \in Answer /\ Honest(s) /\ Given(s)
      /\ s.proof = a.proof /\ s.stoppedBy = a.stoppedBy
      /\ s.status \in LimitStatuses \cup {"infeasible", "unbounded"} => s.status = a.status
      /\ s.proof = "flipped" => s.status # "unbounded"
  BY RefusalSettles DEF Carried, Sane, Clocked
<1> HIDE DEF s
<1>2. /\ w \in Answer /\ w.status = s.status /\ w.point = s.point /\ w.found = s.found
      /\ w.bad = s.bad /\ w.proof = s.proof
      /\ w.stoppedBy = IF s.stoppedBy = "none" THEN ReasonOf(s.status) ELSE s.stoppedBy
  BY <1>1 DEF RecordWhyItStopped, Answer, Reasons, ReasonOf
<1>3. Explained(w)
  BY <1>1, <1>2 DEF Explained, Carried, Sane, Clocked, ReasonOf, LimitStatuses
<1>4. g = w \/ g = VerifyCertificate(w)
  BY DEF Guarded, s
<1> HIDE DEF w
<1>5. /\ g \in Answer /\ g.status = w.status /\ g.point = w.point /\ g.found = w.found
      /\ g.bad = w.bad /\ g.stoppedBy = w.stoppedBy
  BY <1>1, <1>2, <1>4, VerifiedIsCertified
<1>6. Certified(g)
  <2>1. CASE call.class = "lp"
    BY <1>1, <1>2, <2>1, VerifiedIsCertified DEF Guarded, w, s
  <2>2. CASE call.class # "lp"
    BY <1>1, <1>2, <2>2 DEF Guarded, Certified, w, s
  <2> QED BY <2>1, <2>2
<1> HIDE DEF g
<1>7. Honest(g) /\ Given(g) /\ Explained(g)
  BY <1>1, <1>2, <1>3, <1>5 DEF Honest, Given, Explained
<1> QED BY <1>6, <1>7 DEF g

-----------------------------------------------------------------------------
\* The stages

LEMMA BlankIsCarried == Carried(Blank)
BY DEF Carried, Sane, Clocked, Blank, Answer, Statuses, Held, Reasons, Proved

\* An answer that claims nothing settles everything a final answer owes.
LEMMA NoClaimOwesNothing ==
  ASSUME NEW a, a.status \notin LimitStatuses, a.stoppedBy = "none",
         a.status \in {"optimal", "feasible", "unbounded"} => FALSE,
         a.status = "infeasible" => a.proof \in {"none", "holds"}
  PROVE  Honest(a) /\ Given(a) /\ Certified(a) /\ Explained(a)
BY DEF Honest, Given, Certified, Explained, ClaimsAPoint

\* A stage that is not the last hands an answer on.
LEMMA HandedOn ==
  ASSUME Carried(ans'), call' = call, interrupt' = interrupt, Routed',
         pc' \notin {"iis", "done"}
  PROVE  IInv'
<1>1. Carried(ans)'
  BY DEF Carried, Sane, Clocked
<1> QED BY <1>1 DEF IInv

\* A stage that ends the call leaves what is final; no class matters any more.
LEMMA HandedOut ==
  ASSUME Honest(ans'), Given(ans'), Certified(ans'),
         call.entry = "solve" => Explained(ans'),
         call' = call, interrupt' = interrupt, pc' \in {"iis", "done"},
         pc' = "iis" => call.class = "lp"
  PROVE  IInv'
<1>1. Honest(ans)' /\ Given(ans)' /\ Certified(ans)'
  BY DEF Honest, Given, Certified
<1>2. call'.entry = "solve" => Explained(ans)'
  BY DEF Explained
<1>3. Routed'
  BY DEF Routed
<1>4. pc' \notin Working
  BY DEF Working
<1> QED BY <1>1, <1>2, <1>3, <1>4 DEF IInv

LEMMA ValidateKeeps == IInv /\ Validate => IInv'
<1> SUFFICES ASSUME IInv, Validate PROVE IInv'
  OBVIOUS
<1>1. Carried(ans) /\ call' = call /\ interrupt' = interrupt
  BY DEF Validate, IInv, Working
<1>2. CASE call.valid
  <2>1. pc' = "select" /\ ans' = ans
    BY <1>2 DEF Validate
  <2>2. Routed'
    BY <1>1, <2>1 DEF Routed
  <2> QED BY <1>1, <2>1, <2>2, HandedOn
<1>3. CASE ~call.valid
  <2>1. pc' = "done" /\ ans' = [Blank EXCEPT !.status = "model_error"]
    BY <1>3 DEF Validate, Finish
  <2>2. ans'.status = "model_error" /\ ans'.stoppedBy = "none"
    BY <2>1 DEF Blank
  <2>3. Honest(ans') /\ Given(ans') /\ Certified(ans') /\ Explained(ans')
    BY <2>2, NoClaimOwesNothing DEF LimitStatuses
  <2> QED BY <1>1, <2>1, <2>3, HandedOut
<1> QED BY <1>2, <1>3

LEMMA RefuseRequestKeeps == IInv /\ RefuseRequest => IInv'
<1> SUFFICES ASSUME IInv, RefuseRequest PROVE IInv'
  OBVIOUS
<1>1. pc' = "done" /\ ans' = Blank /\ call' = call /\ interrupt' = interrupt
  BY DEF RefuseRequest, Finish
<1>2. ans'.status = "not_solved" /\ ans'.stoppedBy = "none"
  BY <1>1 DEF Blank
<1>3. Honest(ans') /\ Given(ans') /\ Certified(ans') /\ Explained(ans')
  BY <1>2, NoClaimOwesNothing DEF LimitStatuses
<1> QED BY <1>1, <1>3, HandedOut

LEMMA ChooseEngineKeeps == IInv /\ ChooseEngine => IInv'
<1> SUFFICES ASSUME IInv, ChooseEngine PROVE IInv'
  OBVIOUS
<1>1. Carried(ans) /\ ans' = ans /\ call' = call /\ interrupt' = interrupt
  BY DEF ChooseEngine, IInv, Working
<1>2. pc' \in {"direct", "warm", "presolve"}
  BY DEF ChooseEngine
<1>3. ASSUME call.class # "lp"
      PROVE  pc' # "warm" /\ (pc' = "presolve" => engine' \in OtherEngines)
  <2>1. pc' # "warm"
    BY <1>3 DEF ChooseEngine
  <2>2. ASSUME pc' = "presolve" PROVE engine' \in OtherEngines
    <3>1. call.entry # "registry"
      BY <2>2 DEF ChooseEngine
    <3>2. Candidates(call.class) # {} /\ engine' = CHOOSE e \in Candidates(call.class) : TRUE
      BY <1>3, <3>1 DEF ChooseEngine, Refused
    <3>3. engine' \in Candidates(call.class)
      BY <3>2
    <3> QED BY <1>3, <3>3, OtherClassesHaveOtherEngines
  <2> QED BY <2>1, <2>2
<1>4. pc' = "direct" => call.entry = "registry"
  BY DEF ChooseEngine
<1>5. Routed'
  BY <1>1, <1>2, <1>3, <1>4 DEF Routed
<1> QED BY <1>1, <1>2, <1>5, HandedOn

LEMMA DirectSolveKeeps == IInv /\ DirectSolve => IInv'
<1> SUFFICES ASSUME IInv, DirectSolve PROVE IInv'
  OBVIOUS
<1> DEFINE checked(o) == IF Capabilities[engine].certificates
                         THEN VerifyCertificate(o.answer) ELSE o.answer
<1>1. PICK o \in Outcomes(engine, call.limit), bad \in SUBSET Measures :
        /\ pc' = "done"
        /\ ans' = RefuseNonFinite(Reconcile([checked(o) EXCEPT !.bad = bad], CheckDual))
  BY Zenon DEF DirectSolve, Finish
<1>2. call' = call /\ interrupt' = interrupt
  BY DEF DirectSolve
<1>3. Carried(o.answer) /\ (~Capabilities[engine].certificates => o.answer.proof = "none")
  <2>1. call.limit # Forever => call.limit # Forever
    OBVIOUS
  <2> QED BY <2>1, OutcomesAreCarried
<1>4. /\ checked(o) \in Answer /\ Certified(checked(o))
      /\ checked(o).status = o.answer.status /\ checked(o).point = o.answer.point
      /\ checked(o).found = o.answer.found /\ checked(o).stoppedBy = o.answer.stoppedBy
      /\ checked(o).proof = "flipped" => checked(o).status = "infeasible"
  <2>1. o.answer \in Answer /\ (o.answer.proof = "flipped" => o.answer.status = "infeasible")
    BY <1>3 DEF Carried, Sane, Clocked
  <2>2. CASE Capabilities[engine].certificates
    <3>1. checked(o) = VerifyCertificate(o.answer)
      BY <2>2
    <3>2. checked(o).proof = "flipped" => checked(o).status = "infeasible"
      BY <2>1, <3>1 DEF VerifyCertificate, Answer
    <3> QED BY <2>1, <3>1, <3>2, VerifiedIsCertified
  <2>3. CASE ~Capabilities[engine].certificates
    BY <1>3, <2>1, <2>3 DEF Certified
  <2> QED BY <2>2, <2>3
<1> HIDE DEF checked
<1> DEFINE m == [checked(o) EXCEPT !.bad = bad]
<1>5. Carried(m) /\ Certified(m)
  <2>1. /\ m \in Answer /\ m.status = checked(o).status /\ m.point = checked(o).point
        /\ m.found = checked(o).found /\ m.stoppedBy = checked(o).stoppedBy
        /\ m.proof = checked(o).proof
    BY <1>4 DEF Answer
  <2> QED BY <1>3, <1>4, <2>1 DEF Carried, Sane, Clocked, Certified
<1> HIDE DEF m
<1>6. Honest(ans') /\ Given(ans') /\ Certified(ans')
  <2>1. ans' = RefuseNonFinite(Reconcile(m, CheckDual))
    BY <1>1 DEF m
  <2> QED BY <1>5, <2>1, RefusalSettles DEF Certified
<1>7. call.entry # "solve"
  BY DEF DirectSolve, IInv, Routed
<1> QED BY <1>1, <1>2, <1>6, <1>7, HandedOut

LEMMA WarmSolveKeeps == IInv /\ WarmSolve => IInv'
<1> SUFFICES ASSUME IInv, WarmSolve PROVE IInv'
  OBVIOUS
<1>1. PICK o \in Outcomes(engine, call.limit) : ans' = o.answer
  BY DEF WarmSolve
<1>2. Carried(ans')
  <2>1. call.limit # Forever => call.limit # Forever
    OBVIOUS
  <2> QED BY <1>1, <2>1, OutcomesAreCarried
<1>3. pc' = "postsolve" /\ call' = call /\ interrupt' = interrupt /\ call.class = "lp"
  BY DEF WarmSolve, IInv, Routed
<1>4. Routed'
  BY <1>3 DEF Routed
<1> QED BY <1>2, <1>3, <1>4, HandedOn

LEMMA SkipPresolveKeeps == IInv /\ SkipPresolve => IInv'
<1> SUFFICES ASSUME IInv, SkipPresolve PROVE IInv'
  OBVIOUS
<1>1. Carried(ans) /\ ans' = ans /\ call' = call /\ interrupt' = interrupt
  BY DEF SkipPresolve, IInv, Working
<1>2. pc = "presolve" /\ pc' = "engine" /\ engine' = engine
  BY DEF SkipPresolve
<1>3. Routed'
  BY <1>1, <1>2 DEF Routed, IInv
<1> QED BY <1>1, <1>2, <1>3, HandedOn

LEMMA PresolveKeeps == IInv /\ Presolve => IInv'
<1> SUFFICES ASSUME IInv, Presolve PROVE IInv'
  OBVIOUS
<1>1. /\ Carried(ans) /\ call' = call /\ interrupt' = interrupt
      /\ pc = "presolve" /\ engine' = engine
  BY DEF Presolve, IInv, Working
<1>2. CASE pc' = "engine" /\ ans' = ans
  <2>1. Routed'
    BY <1>1, <1>2 DEF Routed, IInv
  <2> QED BY <1>1, <1>2, <2>1, HandedOn
<1>3. ASSUME NEW candidate \in Proved, Finish(VerifyCertificate(ProvedInfeasible(candidate)))
      PROVE  IInv'
  <2> DEFINE a == ProvedInfeasible(candidate)
  <2>1. a \in Answer /\ a.status = "infeasible" /\ a.stoppedBy = "none"
    BY DEF ProvedInfeasible, EngineAnswer, Answer, Statuses, Held, Reasons
  <2>2. pc' = "done" /\ ans' = VerifyCertificate(a)
    BY <1>3 DEF Finish
  <2> HIDE DEF a
  <2>3. Certified(ans') /\ ans'.status = "infeasible" /\ ans'.stoppedBy = "none"
    BY <2>1, <2>2, VerifiedIsCertified
  <2>4. Honest(ans') /\ Given(ans') /\ Certified(ans') /\ Explained(ans')
    BY <2>3, NoClaimOwesNothing DEF LimitStatuses, Certified
  <2> QED BY <1>1, <2>2, <2>4, HandedOut
<1> QED BY <1>2, <1>3 DEF Presolve, Proved

LEMMA RunEngineKeeps == IInv /\ RunEngine => IInv'
<1> SUFFICES ASSUME IInv, RunEngine PROVE IInv'
  OBVIOUS
<1>1. /\ call' = call /\ interrupt' = interrupt /\ pc = "engine"
      /\ pc' = IF engine \in {"pdhg", "pdhg-gpu"} THEN "polish"
               ELSE IF engine = "ipm" THEN "crossover" ELSE "postsolve"
  BY DEF RunEngine
<1>2. PICK b \in {TimeLeft, FirstPassShare(TimeLeft)} :
        \E o \in Outcomes(engine, b) : ans' = o.answer
  BY DEF RunEngine
<1>3. Carried(ans') /\ (~Capabilities[engine].certificates => ans'.proof = "none")
  <2>1. b # Forever => call.limit # Forever
    BY AbsentLimitIsAbsentBudget
  <2> QED BY <1>2, <2>1, OutcomesAreCarried
<1>4. Routed'
  <2>1. ASSUME call.class # "lp" PROVE pc' = "postsolve" /\ ans'.proof = "none"
    <3>1. engine \in OtherEngines
      BY <1>1, <2>1 DEF IInv, Routed
    <3> QED BY <1>1, <1>3, <3>1, OtherClassesHaveOtherEngines
  <2> QED BY <1>1, <2>1 DEF Routed
<1> QED BY <1>1, <1>3, <1>4, HandedOn

\* Behind the interior point and the first-order methods there are linear programs only.
LEMMA CrossoverKeeps == IInv /\ Crossover => IInv'
<1> SUFFICES ASSUME IInv, Crossover PROVE IInv'
  OBVIOUS
<1>1. /\ call' = call /\ interrupt' = interrupt /\ pc' = "postsolve"
      /\ Carried(ans) /\ call.class = "lp"
  BY DEF Crossover, IInv, Working, Routed
<1>2. Carried(ans')
  <2>1. CASE ans' = ans
    BY <1>1, <2>1
  <2>2. ASSUME NEW o \in PushOutcomes, ans' = o.answer PROVE Carried(ans')
    BY <2>2, PushOutcomesAreCarried
  <2> QED BY <2>1, <2>2 DEF Crossover
<1>3. Routed'
  BY <1>1 DEF Routed
<1> QED BY <1>1, <1>2, <1>3, HandedOn

LEMMA KeepInteriorKeeps == IInv /\ KeepInterior => IInv'
<1> SUFFICES ASSUME IInv, KeepInterior PROVE IInv'
  OBVIOUS
<1>1. /\ call' = call /\ interrupt' = interrupt /\ pc' = "postsolve" /\ ans' = ans
      /\ Carried(ans) /\ call.class = "lp"
  BY DEF KeepInterior, IInv, Working, Routed
<1>2. Routed'
  BY <1>1 DEF Routed
<1> QED BY <1>1, <1>2, HandedOn

LEMMA FallBackKeeps == IInv /\ FallBack => IInv'
<1> SUFFICES ASSUME IInv, FallBack PROVE IInv'
  OBVIOUS
<1>1. /\ call' = call /\ interrupt' = interrupt /\ pc' \in {"polish", "postsolve"}
      /\ call.class = "lp"
  BY DEF FallBack, IInv, Routed
<1>2. PICK heir \in {"pdhg", "dual-simplex"} :
        \E o \in Outcomes(heir, TimeLeft) : ans' = o.answer
  BY DEF FallBack
<1>3. Carried(ans')
  <2>1. TimeLeft # Forever => call.limit # Forever
    BY AbsentLimitIsAbsentBudget
  <2> QED BY <1>2, <2>1, OutcomesAreCarried
<1>4. Routed'
  BY <1>1 DEF Routed
<1> QED BY <1>1, <1>3, <1>4, HandedOn

LEMMA SkipPolishKeeps == IInv /\ SkipPolish => IInv'
<1> SUFFICES ASSUME IInv, SkipPolish PROVE IInv'
  OBVIOUS
<1>1. /\ call' = call /\ interrupt' = interrupt /\ pc' = "postsolve" /\ ans' = ans
      /\ Carried(ans) /\ call.class = "lp"
  BY DEF SkipPolish, IInv, Working, Routed
<1>2. Routed'
  BY <1>1 DEF Routed
<1> QED BY <1>1, <1>2, HandedOn

\* A polish may run on a clock of its own although the call has none: its answer replaces the
\* first one only when it is not a limit's.
LEMMA PolishKeeps == IInv /\ Polish => IInv'
<1> SUFFICES ASSUME IInv, Polish PROVE IInv'
  OBVIOUS
<1>1. /\ call' = call /\ interrupt' = interrupt /\ pc' = "postsolve"
      /\ Carried(ans) /\ call.class = "lp"
  BY DEF Polish, IInv, Working, Routed
<1>2. PICK b : \E o \in Outcomes("ipm", b) :
        ans' = IF Better(o.answer, ans) THEN o.answer ELSE ans
  BY DEF Polish
<1>3. PICK o \in Outcomes("ipm", b) :
        ans' = IF Better(o.answer, ans) THEN o.answer ELSE ans
  BY <1>2
<1>4. Carried(ans')
  <2>1. CASE ~Better(o.answer, ans)
    BY <1>1, <1>3, <2>1
  <2>2. CASE Better(o.answer, ans)
    <3>1. PICK d \in Durations(b) :
            o \in [spent : {d}, answer : EngineAnswers("ipm", b # Forever /\ d = b)]
      BY DEF Outcomes, Attempts
    <3> DEFINE t == b # Forever /\ d = b
    <3>2. t \in BOOLEAN /\ o.answer \in EngineAnswers("ipm", t)
      BY <3>1
    <3> HIDE DEF t
    <3>3. Sane(o.answer) /\ o.answer.stoppedBy = "none"
      BY <3>2, EngineAnswersAreSane
    <3>4. o.answer.status \in {"optimal", "feasible"}
      BY <2>2 DEF Better
    <3> QED BY <1>3, <2>2, <3>3, <3>4 DEF Carried, Clocked
  <2> QED BY <2>1, <2>2
<1>5. Routed'
  BY <1>1 DEF Routed
<1> QED BY <1>1, <1>4, <1>5, HandedOn

\* Measuring again changes neither the point nor the claim; only a proof may fail.
LEMMA PostsolveKeeps == IInv /\ Postsolve => IInv'
<1> SUFFICES ASSUME IInv, Postsolve PROVE IInv'
  OBVIOUS
<1>1. /\ call' = call /\ interrupt' = interrupt /\ pc = "postsolve" /\ pc' = "guard"
      /\ Carried(ans)
  BY DEF Postsolve, IInv, Working
<1>2. PICK bad \in SUBSET Measures, proof \in {ans.proof, "fails"} :
        /\ ans' = [ans EXCEPT !.bad = bad, !.proof = proof]
        /\ ans.proof = "none" => proof = "none"
  <2>1. ans' \in Remeasured(ans)
    BY DEF Postsolve
  <2>2. PICK bad \in Measurements(ans), proof \in ProofsLeft(ans) :
          ans' = WithQuality(ans, bad, proof)
    BY <2>1 DEF Remeasured
  <2>3. bad \in SUBSET Measures /\ proof \in {ans.proof, "fails"}
        /\ (ans.proof = "none" => proof = "none")
    BY DEF Measurements, ProofsLeft
  <2> QED BY <2>2, <2>3 DEF WithQuality
<1>3. ans \in Answer /\ proof \in Proved
  BY <1>1 DEF Carried, Sane, Answer, Proved
<1>4. /\ ans' \in Answer /\ ans'.status = ans.status /\ ans'.point = ans.point
      /\ ans'.found = ans.found /\ ans'.stoppedBy = ans.stoppedBy /\ ans'.proof = proof
  BY <1>2, <1>3 DEF Answer
<1>5. proof = "flipped" => ans.proof = "flipped"
  OBVIOUS
<1>6. Carried(ans')
  BY <1>1, <1>4, <1>5 DEF Carried, Sane, Clocked
<1>7. Routed'
  BY <1>1, <1>2, <1>4 DEF Routed, IInv
<1> QED BY <1>1, <1>6, <1>7, HandedOn

LEMMA GuardKeeps == IInv /\ Guard => IInv'
<1> SUFFICES ASSUME IInv, Guard PROVE IInv'
  OBVIOUS
<1>1. /\ call' = call /\ interrupt' = interrupt /\ pc = "guard" /\ ans' = Guarded(ans)
      /\ Carried(ans)
  BY DEF Guard, IInv, Working
<1>2. call.class # "lp" => ans.proof = "none"
  BY <1>1 DEF IInv, Routed
<1>3. pc' \in {"iis", "done"} /\ (pc' = "iis" => call.class = "lp")
  BY DEF Guard
<1>4. Honest(ans') /\ Given(ans') /\ Certified(ans') /\ Explained(ans')
  BY <1>1, <1>2, GuardsSettle
<1> QED BY <1>1, <1>3, <1>4, HandedOut

LEMMA ExplainInfeasibilityKeeps == IInv /\ ExplainInfeasibility => IInv'
<1> SUFFICES ASSUME IInv, ExplainInfeasibility PROVE IInv'
  OBVIOUS
<1>1. /\ call' = call /\ interrupt' = interrupt /\ pc = "iis" /\ pc' = "done" /\ ans' = ans
  BY DEF ExplainInfeasibility
<1> QED BY <1>1, HandedOut DEF IInv

LEMMA OutOfMemoryKeeps == IInv /\ OutOfMemory => IInv'
<1> SUFFICES ASSUME IInv, OutOfMemory PROVE IInv'
  OBVIOUS
<1>1. /\ call' = call /\ interrupt' = interrupt /\ pc' = "done"
      /\ ans' = [Blank EXCEPT !.status = "numerical_error", !.point = "cleared"]
  BY DEF OutOfMemory, Finish
<1>2. ans'.status = "numerical_error" /\ ans'.stoppedBy = "none"
  BY <1>1 DEF Blank
<1>3. Honest(ans') /\ Given(ans') /\ Certified(ans') /\ Explained(ans')
  BY <1>2, NoClaimOwesNothing DEF LimitStatuses
<1> QED BY <1>1, <1>3, HandedOut

\* A late interrupt can only excuse an answer.
LEMMA InterruptKeeps == IInv /\ Interrupt => IInv'
<1> SUFFICES ASSUME IInv, Interrupt PROVE IInv'
  OBVIOUS
<1>1. /\ interrupt' /\ pc' = pc /\ call' = call /\ engine' = engine /\ ans' = ans
  BY DEF Interrupt
<1>2. Carried(ans) => Carried(ans)'
  BY <1>1 DEF Carried, Sane, Clocked
<1>3. Routed'
  BY <1>1 DEF IInv, Routed
<1>4. /\ Honest(ans) => Honest(ans)'
      /\ Given(ans) => Given(ans)'
      /\ Certified(ans) => Certified(ans)'
      /\ Explained(ans) => Explained(ans)'
  BY <1>1 DEF Honest, Given, Certified, Explained
<1> QED BY <1>1, <1>2, <1>3, <1>4 DEF IInv

LEMMA StutterKeeps == IInv /\ UNCHANGED vars => IInv'
<1> SUFFICES ASSUME IInv, UNCHANGED vars PROVE IInv'
  OBVIOUS
<1>1. /\ interrupt' = interrupt /\ pc' = pc /\ call' = call /\ engine' = engine /\ ans' = ans
  BY DEF vars
<1>2. /\ Carried(ans) => Carried(ans)'
      /\ Honest(ans) => Honest(ans)'
      /\ Given(ans) => Given(ans)'
      /\ Certified(ans) => Certified(ans)'
      /\ Explained(ans) => Explained(ans)'
  BY <1>1 DEF Carried, Sane, Clocked, Honest, Given, Certified, Explained
<1>3. Routed'
  BY <1>1 DEF IInv, Routed
<1> QED BY <1>1, <1>2, <1>3 DEF IInv

-----------------------------------------------------------------------------
\* The theorems

LEMMA Invariance == Spec => []IInv
<1>1. Init => IInv
  <2> SUFFICES ASSUME Init PROVE IInv
    OBVIOUS
  <2>1. pc = "validate" /\ Carried(ans)
    BY BlankIsCarried DEF Init
  <2>2. Routed
    BY <2>1 DEF Routed
  <2> QED BY <2>1, <2>2 DEF IInv
<1>2. IInv /\ [Next]_vars => IInv'
  BY ValidateKeeps, RefuseRequestKeeps, ChooseEngineKeeps, DirectSolveKeeps, WarmSolveKeeps,
     SkipPresolveKeeps, PresolveKeeps, RunEngineKeeps, CrossoverKeeps, KeepInteriorKeeps,
     FallBackKeeps, SkipPolishKeeps, PolishKeeps, PostsolveKeeps, GuardKeeps,
     ExplainInfeasibilityKeeps, OutOfMemoryKeeps, InterruptKeeps, StutterKeeps DEF Next
<1> QED BY <1>1, <1>2, PTL DEF Spec

\* Whatever engine answered, and whatever happened to its answer on the way, "optimal" and
\* "feasible" leave solve() only with a point that was found and measured
\* (reconcile_status_with_measurement, refuse_a_non_finite_answer).
THEOREM StatusIsHonest == Spec => []HonestStatus
<1>1. IInv => HonestStatus
  BY DEF IInv, Honest, HonestStatus
<1> QED BY <1>1, Invariance, PTL

\* No caller is handed values nobody computed (refuse_a_non_finite_answer).
THEOREM NothingIsInvented == Spec => []NothingInvented
<1>1. IInv => NothingInvented
  BY DEF IInv, Given, NothingInvented
<1> QED BY <1>1, Invariance, PTL

\* A limit is named by its own reason, the clock only where there is one, and an interrupt
\* only where the user asked for it (record_why_it_stopped, with_the_time_that_is_left).
THEOREM StopsHaveTheirReasons == Spec => []StopHasItsReason
<1>1. IInv => StopHasItsReason
  BY DEF IInv, Explained, StopHasItsReason
<1> QED BY <1>1, Invariance, PTL

\* A certificate that leaves with a verdict was verified on the caller's model
\* (verify_and_keep_certificate), or the verdict leaves without one.
THEOREM ProofsHold == Spec => []ProofHolds
<1>1. IInv => ProofHolds
  BY DEF IInv, Certified, ProofHolds
<1> QED BY <1>1, Invariance, PTL

-----------------------------------------------------------------------------
\* The clock

Limited == call.limit # Forever

\* Where the clock stands at each stage of a call that has a limit.
ClockInv ==
  /\ call.limit \in 0 .. Forever /\ call.polishMax \in 0 .. Forever
  /\ call.deterministic => ~Limited
  /\ clock \in Nat /\ presolved \in Nat
  /\ pc \in {"validate", "select", "direct", "warm", "presolve"} => clock = 0 /\ presolved = 0
  /\ pc = "engine" => clock = presolved
  /\ pc = "polish" => last.limit \in 0 .. Forever /\ (Limited => last.limit <= call.limit)
  /\ ClockKept /\ (pc \in {"polish", "crossover"} => WithinLimit)

LEMMA AttemptsTakeTheirTime ==
  ASSUME NEW e, NEW b \in 0 .. Forever, NEW o \in Attempts(e, b)
  PROVE  o.spent \in Nat /\ o.spent <= b
<1>1. PICK d \in Durations(b) :
        o \in [spent : {d}, answer : EngineAnswers(e, b # Forever /\ d = b)]
  BY DEF Attempts
<1>2. o.spent = d
  BY <1>1
<1>3. d \in Nat /\ d <= b
  BY PipelineAssumption DEF Durations, Least
<1> QED BY <1>2, <1>3

\* The scaled attempt and its retry share one budget.
LEMMA OutcomesTakeTheirTime ==
  ASSUME NEW e, NEW b \in 0 .. Forever, NEW o \in Outcomes(e, b)
  PROVE  o.spent \in Nat /\ (b # Forever => o.spent <= b)
<1>1. CASE o \in Attempts(e, b)
  BY <1>1, AttemptsTakeTheirTime
<1>2. CASE o \in Portfolio(e, b)
  <2>1. ScaledShare(b) \in 0 .. Forever /\ ScaledShare(b) <= b
    BY PipelineAssumption DEF ScaledShare
  <2>2. PICK first \in Attempts(e, ScaledShare(b)) :
          \/ o = first
          \/ \E retry \in Attempts(e, Remaining(b, first.spent)) :
               o \in [spent : {first.spent + retry.spent},
                      answer : Kept(first.answer, retry.answer)]
    BY <1>2 DEF Portfolio
  <2>3. first.spent \in Nat /\ first.spent <= b
    BY <2>1, AttemptsTakeTheirTime
  <2>4. ASSUME NEW retry \in Attempts(e, Remaining(b, first.spent)),
               o.spent = first.spent + retry.spent
        PROVE  o.spent \in Nat /\ (b # Forever => o.spent <= b)
    <3>1. /\ Remaining(b, first.spent) \in 0 .. Forever
          /\ b # Forever => Remaining(b, first.spent) <= b - first.spent
      BY <2>3, PipelineAssumption DEF Remaining
    <3>2. retry.spent \in Nat /\ retry.spent <= Remaining(b, first.spent)
      BY <3>1, AttemptsTakeTheirTime
    <3> QED BY <2>3, <2>4, <3>1, <3>2
  <2> QED BY <2>2, <2>3, <2>4
<1> QED BY <1>1, <1>2 DEF Outcomes

\* What is left never carries the clock past the limit, or past where it already was.
LEMMA TimeLeftFits ==
  ASSUME ClockInv
  PROVE  /\ TimeLeft \in 0 .. Forever /\ FirstPassShare(TimeLeft) \in 0 .. Forever
         /\ Limited => /\ TimeLeft # Forever /\ FirstPassShare(TimeLeft) # Forever
                       /\ TimeLeft <= call.limit
                       /\ FirstPassShare(TimeLeft) <= TimeLeft
                       /\ clock + TimeLeft <= (IF clock > call.limit THEN clock ELSE call.limit)
<1>1. /\ call.limit \in Nat /\ call.limit <= Forever /\ clock \in Nat /\ Forever \in Nat
  BY PipelineAssumption DEF ClockInv
<1>2. CASE ~Limited
  BY <1>1, <1>2 DEF Limited, TimeLeft, Remaining, FirstPassShare
<1>3. CASE Limited
  <2>1. /\ TimeLeft \in Nat /\ TimeLeft < Forever /\ TimeLeft <= call.limit
        /\ clock + TimeLeft <= (IF clock > call.limit THEN clock ELSE call.limit)
    BY <1>1, <1>3 DEF Limited, TimeLeft, Remaining
  <2>2. FirstPassShare(TimeLeft) \in Nat /\ FirstPassShare(TimeLeft) <= TimeLeft
    BY <2>1 DEF FirstPassShare
  <2> QED BY <1>1, <2>1, <2>2
<1> QED BY <1>2, <1>3

LEMMA ClockInit == Init => ClockInv
<1> SUFFICES ASSUME Init PROVE ClockInv
  OBVIOUS
<1>1. PICK c \in CallRecords : call = ApplyDeterministicMode(c)
  BY PipelineAssumption DEF Init
<1>2. /\ call.limit \in 0 .. Forever /\ call.polishMax \in 0 .. Forever
      /\ call.deterministic => ~Limited
  BY <1>1, PipelineAssumption DEF ApplyDeterministicMode, CallRecords, Limited
<1>3. pc = "validate" /\ clock = 0 /\ presolved = 0
  BY DEF Init
<1> QED BY <1>2, <1>3 DEF ClockInv, ClockKept

\* A stage that keeps what was called, has typed clocks, and ends before any engine ran or
\* after the last one.
LEMMA ClockStands ==
  ASSUME ClockInv, call' = call, clock' \in Nat, presolved' \in Nat,
         \/ pc' \in {"select", "direct", "warm", "presolve"} /\ clock' = 0 /\ presolved' = 0
         \/ pc' = "engine" /\ clock' = presolved'
         \/ pc' \in {"guard", "iis", "done"}
  PROVE  ClockInv'
BY DEF ClockInv, ClockKept, Limited

\* A stage behind the engine that stays within the limit.
LEMMA ClockAdvances ==
  ASSUME ClockInv, call' = call, presolved' = presolved, clock' \in Nat, WithinLimit',
         pc' \in {"polish", "crossover", "postsolve"},
         pc' = "polish" => /\ last'.limit \in 0 .. Forever
                           /\ Limited => last'.limit <= call.limit
  PROVE  ClockInv'
BY DEF ClockInv, ClockKept, Limited

\* An engine given no more than what is left ends within the limit.
LEMMA EngineFits ==
  ASSUME NEW e, NEW b \in 0 .. Forever, NEW o \in Outcomes(e, b), NEW late \in Nat,
         clock \in Nat, call.limit \in Nat,
         Limited => b # Forever /\ clock + b <= (IF late > call.limit THEN late ELSE call.limit),
         call' = call, presolved' = late, clock' = clock + o.spent
  PROVE  clock' \in Nat /\ WithinLimit'
<1>1. o.spent \in Nat /\ (b # Forever => o.spent <= b)
  BY OutcomesTakeTheirTime
<1> QED BY <1>1, PipelineAssumption DEF WithinLimit, Limited

LEMMA LimitIsANumber == ClockInv => call.limit \in Nat /\ clock \in Nat /\ presolved \in Nat
BY PipelineAssumption DEF ClockInv

LEMMA WarmSolveKeepsTime == ClockInv /\ WarmSolve => ClockInv'
<1> SUFFICES ASSUME ClockInv, WarmSolve PROVE ClockInv'
  OBVIOUS
<1>1. /\ call' = call /\ presolved' = presolved /\ pc' = "postsolve"
      /\ clock = 0 /\ presolved = 0 /\ call.limit \in 0 .. Forever
  BY DEF WarmSolve, ClockInv
<1>2. PICK o \in Outcomes(engine, call.limit) : clock' = clock + o.spent
  BY DEF WarmSolve, Engage
<1>3. clock' \in Nat /\ WithinLimit'
  BY <1>1, <1>2, EngineFits, LimitIsANumber DEF Limited
<1> QED BY <1>1, <1>3, ClockAdvances

LEMMA RunEngineKeepsTime == ClockInv /\ RunEngine => ClockInv'
<1> SUFFICES ASSUME ClockInv, RunEngine PROVE ClockInv'
  OBVIOUS
<1>1. /\ call' = call /\ presolved' = presolved /\ clock = presolved
      /\ pc' \in {"polish", "crossover", "postsolve"}
  BY DEF RunEngine, ClockInv
<1>2. PICK b \in {TimeLeft, FirstPassShare(TimeLeft)}, limit \in {call.limit, TimeLeft} :
        \E o \in Outcomes(engine, b) : Engage(engine, limit, o)
  BY DEF RunEngine
<1>3. PICK o \in Outcomes(engine, b) :
        clock' = clock + o.spent /\ last' = [engine |-> engine, limit |-> limit]
  BY <1>2 DEF Engage
<1>4. /\ b \in 0 .. Forever
      /\ Limited => b # Forever /\ b <= TimeLeft
      /\ Limited => clock + TimeLeft <= (IF clock > call.limit THEN clock ELSE call.limit)
  BY TimeLeftFits
<1>5. /\ limit \in 0 .. Forever
      /\ Limited => limit <= call.limit
  BY TimeLeftFits DEF ClockInv
<1>6. TimeLeft \in Nat /\ b \in Nat
  BY <1>4, TimeLeftFits, PipelineAssumption
<1>7. clock' \in Nat /\ WithinLimit'
  <2>1. Limited => clock + b <= (IF presolved > call.limit THEN presolved ELSE call.limit)
    BY <1>1, <1>4, <1>6, LimitIsANumber
  <2> QED BY <1>1, <1>3, <1>4, <2>1, EngineFits, LimitIsANumber
<1> QED BY <1>1, <1>3, <1>5, <1>7, ClockAdvances

\* The push alone may overrun, and says so.
LEMMA CrossoverKeepsTime == ClockInv /\ Crossover => ClockInv'
<1> SUFFICES ASSUME ClockInv, Crossover PROVE ClockInv'
  OBVIOUS
<1>1. call' = call /\ presolved' = presolved /\ pc = "crossover" /\ pc' = "postsolve"
  BY DEF Crossover
<1>2. CASE UNCHANGED <<ans, clock, last>>
  <2>1. WithinLimit'
    BY <1>1, <1>2 DEF ClockInv, WithinLimit
  <2> QED BY <1>1, <1>2, <2>1, ClockAdvances, LimitIsANumber
<1>3. ASSUME NEW o \in PushOutcomes, Engage("crossover", TimeLeft, o)
      PROVE  ClockInv'
  <2>1. o.spent \in Nat
    BY PipelineAssumption DEF PushOutcomes
  <2>2. clock' \in Nat /\ Pushed'
    BY <1>3, <2>1, LimitIsANumber DEF Engage, Pushed
  <2> QED BY <1>1, <2>2 DEF ClockInv, ClockKept, Limited
<1> QED BY <1>2, <1>3 DEF Crossover

LEMMA FallBackKeepsTime == ClockInv /\ FallBack => ClockInv'
<1> SUFFICES ASSUME ClockInv, FallBack PROVE ClockInv'
  OBVIOUS
<1>1. /\ call' = call /\ presolved' = presolved /\ pc = "crossover"
      /\ pc' \in {"polish", "postsolve"}
  BY DEF FallBack
<1>2. PICK heir \in {"pdhg", "dual-simplex"} :
        \E o \in Outcomes(heir, TimeLeft) : Engage(heir, TimeLeft, o)
  BY DEF FallBack
<1>3. PICK o \in Outcomes(heir, TimeLeft) :
        clock' = clock + o.spent /\ last' = [engine |-> heir, limit |-> TimeLeft]
  BY <1>2 DEF Engage
<1>4. WithinLimit
  BY <1>1 DEF ClockInv
<1>5. /\ TimeLeft \in 0 .. Forever /\ (Limited => TimeLeft # Forever /\ TimeLeft <= call.limit)
      /\ Limited => clock + TimeLeft <= (IF clock > call.limit THEN clock ELSE call.limit)
  BY TimeLeftFits
<1>6. Limited => clock + TimeLeft <= (IF presolved > call.limit THEN presolved ELSE call.limit)
  BY <1>4, <1>5, LimitIsANumber, PipelineAssumption DEF WithinLimit, Limited
<1>7. clock' \in Nat /\ WithinLimit'
  BY <1>1, <1>3, <1>5, <1>6, EngineFits, LimitIsANumber
<1> QED BY <1>1, <1>3, <1>5, <1>7, ClockAdvances

\* The polish reads the limit of the options the first pass was given, never a larger one.
LEMMA PolishKeepsTime == ClockInv /\ Polish => ClockInv'
<1> SUFFICES ASSUME ClockInv, Polish PROVE ClockInv'
  OBVIOUS
<1> DEFINE b == IF BoundByTheClock THEN Least(call.polishMax, PolishTime) ELSE call.polishMax
<1>1. call' = call /\ presolved' = presolved /\ pc = "polish" /\ pc' = "postsolve"
  BY DEF Polish
<1>2. PICK o \in Outcomes("ipm", b) : clock' = clock + o.spent
  BY DEF Polish, Engage
<1>3. /\ WithinLimit /\ last.limit \in 0 .. Forever /\ call.polishMax \in 0 .. Forever
      /\ Limited => last.limit <= call.limit /\ ~call.deterministic
      /\ call.limit \in 0 .. Forever
  BY <1>1 DEF ClockInv
<1>4. PolishTime \in 0 .. Forever
  BY <1>3, LimitIsANumber, PipelineAssumption DEF PolishTime, PolishLimit, Remaining
<1>5. b \in 0 .. Forever
  BY <1>3, <1>4, PipelineAssumption DEF Least
<1>6. Limited => /\ b # Forever
                 /\ clock + b <= (IF presolved > call.limit THEN presolved ELSE call.limit)
  <2> SUFFICES ASSUME Limited
               PROVE  /\ b # Forever
                      /\ clock + b <= (IF presolved > call.limit THEN presolved ELSE call.limit)
    OBVIOUS
  <2>1. last.limit < Forever /\ last.limit \in Nat /\ BoundByTheClock
    BY <1>3, PipelineAssumption DEF Limited, BoundByTheClock, PolishLimit
  <2>2. /\ PolishTime \in Nat /\ PolishTime <= last.limit
        /\ clock + PolishTime <= (IF clock > last.limit THEN clock ELSE last.limit)
    BY <2>1, LimitIsANumber DEF PolishTime, PolishLimit, Remaining
  <2>3. b <= PolishTime /\ b \in Nat
    BY <1>3, <2>1, <2>2, PipelineAssumption DEF Least
  <2>4. clock <= (IF presolved > call.limit THEN presolved ELSE call.limit)
    BY <1>3 DEF WithinLimit, Limited
  <2> HIDE DEF b
  <2> QED BY <1>3, <2>1, <2>2, <2>3, <2>4, LimitIsANumber, PipelineAssumption
<1> HIDE DEF b
<1>7. clock' \in Nat /\ WithinLimit'
  BY <1>1, <1>2, <1>5, <1>6, EngineFits, LimitIsANumber
<1> QED BY <1>1, <1>7, ClockAdvances

\* The stages that run no engine, before the first one and behind the last.
LEMMA OtherStagesKeepTime ==
  ASSUME ClockInv,
         \/ Validate \/ RefuseRequest \/ ChooseEngine \/ DirectSolve \/ SkipPresolve
         \/ Presolve \/ Postsolve \/ Guard \/ ExplainInfeasibility \/ OutOfMemory
  PROVE  ClockInv'
<1>1. CASE Validate \/ RefuseRequest \/ ChooseEngine \/ SkipPresolve \/ Guard \/ OutOfMemory
  <2>1. call' = call /\ clock' = clock /\ presolved' \in {presolved, clock}
    BY <1>1 DEF Validate, RefuseRequest, ChooseEngine, SkipPresolve, Guard, OutOfMemory
  <2>2. \/ pc' \in {"guard", "iis", "done"}
        \/ /\ pc \in {"validate", "select", "presolve"}
           /\ pc' \in {"select", "direct", "warm", "presolve"} /\ presolved' = presolved
        \/ pc = "presolve" /\ pc' = "engine" /\ presolved' = clock
    BY <1>1 DEF Validate, RefuseRequest, ChooseEngine, SkipPresolve, Guard, OutOfMemory, Finish
  <2>3. pc \in {"validate", "select", "presolve"} => clock = 0 /\ presolved = 0
    BY DEF ClockInv
  <2> QED BY <2>1, <2>2, <2>3, ClockStands, LimitIsANumber
<1>2. CASE DirectSolve
  <2>1. PICK o \in Outcomes(engine, call.limit) : clock' = clock + o.spent
    BY <1>2 DEF DirectSolve, Engage
  <2>2. call.limit \in 0 .. Forever
    BY DEF ClockInv
  <2>3. o.spent \in Nat
    BY <2>2, OutcomesTakeTheirTime
  <2>4. call' = call /\ presolved' = presolved /\ pc' = "done"
    BY <1>2 DEF DirectSolve, Finish
  <2> QED BY <2>1, <2>3, <2>4, ClockStands, LimitIsANumber
<1>3. CASE Presolve
  <2>1. /\ call' = call /\ presolved' = clock' /\ pc' \in {"engine", "done"}
    BY <1>3 DEF Presolve, Finish
  <2>2. clock' \in Nat
    BY <1>3, LimitIsANumber, PipelineAssumption DEF Presolve
  <2> QED BY <2>1, <2>2, ClockStands
<1>4. CASE Postsolve \/ ExplainInfeasibility
  <2>1. call' = call /\ presolved' = presolved /\ pc' \in {"guard", "done"}
    BY <1>4 DEF Postsolve, ExplainInfeasibility
  <2>2. clock' \in Nat
    BY <1>4, LimitIsANumber, PipelineAssumption DEF Postsolve, ExplainInfeasibility
  <2> QED BY <2>1, <2>2, ClockStands, LimitIsANumber
<1> QED BY <1>1, <1>2, <1>3, <1>4

\* What decides not to run an engine takes no time.
LEMMA IdleKeepsTime ==
  ASSUME ClockInv, KeepInterior \/ SkipPolish \/ Interrupt \/ UNCHANGED vars
  PROVE  ClockInv'
<1>1. CASE KeepInterior \/ SkipPolish
  <2>1. /\ call' = call /\ presolved' = presolved /\ clock' = clock
        /\ pc \in {"polish", "crossover"} /\ pc' = "postsolve"
    BY <1>1 DEF KeepInterior, SkipPolish
  <2>2. WithinLimit'
    BY <2>1 DEF ClockInv, WithinLimit
  <2> QED BY <2>1, <2>2, ClockAdvances, LimitIsANumber
<1>2. CASE Interrupt \/ UNCHANGED vars
  <2>1. /\ call' = call /\ presolved' = presolved /\ clock' = clock /\ pc' = pc /\ last' = last
    BY <1>2 DEF Interrupt, vars
  <2> QED BY <2>1 DEF ClockInv, ClockKept, WithinLimit, Pushed, Limited
<1> QED BY <1>1, <1>2

\* Every engine after presolve works on what is left of one budget - the portfolio's retry
\* (primal_simplex.cpp, solve_with_scaling), the fallback and the polish included - and only
\* the crossover's push can carry the clock past it.
THEOREM TheClockIsKept == Spec => []ClockKept
<1>1. ClockInv /\ [Next]_vars => ClockInv'
  BY WarmSolveKeepsTime, RunEngineKeepsTime, CrossoverKeepsTime, FallBackKeepsTime,
     PolishKeepsTime, OtherStagesKeepTime, IdleKeepsTime DEF Next
<1>2. ClockInv => ClockKept
  BY DEF ClockInv
<1> QED BY <1>1, <1>2, ClockInit, PTL DEF Spec

-----------------------------------------------------------------------------
\* The handle the call came through: an interrupt hits the solve it was meant for, and a
\* solve runs on the model the caller's edits describe, for any number of edits, reads and
\* solves.

Solves == 1 .. MaxSolves
Controls == [flag : BOOLEAN, callback : {"none", "continues", "stops"}, seen : BOOLEAN,
             answer : {"none", "interrupted", "concluded"}]

\* A flag goes up only for a reason: somebody asked while the solve was active, or the
\* solve's own callback said stop.
Reasoned(s) == s \in asked \/ control[s].callback = "stops"

HandleInv ==
  /\ control \in [Solves -> Controls]
  /\ callback \in {"none", "continues", "stops"}
  /\ solves \in 0 .. MaxSolves /\ active \in 0 .. MaxSolves
  /\ caller \in {"registering", "registers", "solving", "returning", "clears"} =>
       solves \in Solves
  /\ other.at = "copied" => other.copy \in {0} \cup (asked \cap Solves)
  /\ \A s \in Solves : control[s].flag \/ control[s].answer = "interrupted" => Reasoned(s)

LEMMA InitHolds == HandleInit => HandleInv
BY HandleAssumption DEF HandleInit, HandleInv, Solves, Controls, Reasoned

\* Edits of the model touch no control.
LEMMA EditsKeep ==
  ASSUME HandleInv, Read \/ AddColumn \/ AddRow \/ SetCoefficient \/ SetQuadraticCoefficient
  PROVE  HandleInv'
<1>1. UNCHANGED <<callback, active, caller, solves, control, other, asked>>
  BY DEF Read, AddColumn, AddRow, SetCoefficient, SetQuadraticCoefficient, Edit
<1> QED BY <1>1 DEF HandleInv, Reasoned

LEMMA SetCallbackKeeps == ASSUME HandleInv, SetCallback PROVE HandleInv'
BY DEF SetCallback, HandleInv, Reasoned

\* A solve takes a new control; the locks and the end of a solve change none.
LEMMA CallerStepsKeep ==
  ASSUME HandleInv, SolveBegin \/ LockToRegister \/ LockToClear \/ Clear
  PROVE  HandleInv'
<1>1. CASE SolveBegin
  BY <1>1, HandleAssumption DEF SolveBegin, builder, HandleInv, Reasoned, Solves
<1>2. CASE LockToRegister \/ LockToClear
  BY <1>2 DEF LockToRegister, LockToClear, builder, HandleInv, Reasoned
<1>3. CASE Clear
  BY <1>3, HandleAssumption DEF Clear, builder, HandleInv, Reasoned
<1> QED BY <1>1, <1>2, <1>3

\* The control a solve publishes has its flag down, whatever was asked of the one before.
LEMMA RegisterKeeps == ASSUME HandleInv, Register PROVE HandleInv'
<1>1. /\ solves \in Solves /\ solves' = solves /\ active' = solves /\ caller' = "solving"
      /\ control' = [control EXCEPT ![solves] = [flag |-> FALSE, callback |-> callback,
                                                 seen |-> FALSE, answer |-> "none"]]
      /\ UNCHANGED <<callback, other, asked>>
  BY DEF Register, HandleInv
<1>2. control' \in [Solves -> Controls]
  BY <1>1 DEF HandleInv, Controls
<1>3. \A s \in Solves : s # solves => control'[s] = control[s]
  BY <1>1 DEF HandleInv
<1>4. ~control'[solves].flag /\ control'[solves].answer = "none"
  BY <1>1 DEF HandleInv
<1>5. \A s \in Solves : control'[s].flag \/ control'[s].answer = "interrupted" => Reasoned(s)'
  BY <1>1, <1>3, <1>4 DEF HandleInv, Reasoned
<1> QED BY <1>1, <1>2, <1>5 DEF HandleInv, Solves

\* A poll stops on the flag, or on what the callback just said.
LEMMA PollKeeps == ASSUME HandleInv, Poll PROVE HandleInv'
<1> DEFINE c == control[solves]
           stop == [c EXCEPT !.answer = "interrupted", !.flag = TRUE]
<1>1. /\ solves \in Solves /\ UNCHANGED <<callback, active, solves, other, asked>>
      /\ c \in Controls
  BY DEF Poll, builder, HandleInv
<1>2. stop \in Controls /\ stop.callback = c.callback
  BY <1>1 DEF Controls
<1>3. CASE control' = [control EXCEPT ![solves] = stop] /\ caller' = "returning"
           /\ (c.flag \/ c.callback = "stops")
  <2>1. control' \in [Solves -> Controls]
    BY <1>1, <1>2, <1>3 DEF HandleInv
  <2>2. \A s \in Solves : s # solves => control'[s] = control[s]
    BY <1>1, <1>3 DEF HandleInv
  <2>3. control'[solves].callback = c.callback
    BY <1>1, <1>2, <1>3 DEF HandleInv
  <2>4. Reasoned(solves)
    BY <1>1, <1>3 DEF HandleInv, Reasoned
  <2>5. \A s \in Solves : control'[s].flag \/ control'[s].answer = "interrupted" => Reasoned(s)'
    BY <1>1, <2>2, <2>3, <2>4 DEF HandleInv, Reasoned
  <2> QED BY <1>1, <1>3, <2>1, <2>5 DEF HandleInv
<1>4. CASE control' = [control EXCEPT ![solves].seen = TRUE] /\ caller' = caller
  <2>1. control' \in [Solves -> Controls]
    BY <1>1, <1>4 DEF HandleInv, Controls
  <2>2. \A s \in Solves : /\ control'[s].flag = control[s].flag
                          /\ control'[s].answer = control[s].answer
                          /\ control'[s].callback = control[s].callback
    BY <1>1, <1>4 DEF HandleInv, Controls
  <2> QED BY <1>1, <1>4, <2>1, <2>2 DEF HandleInv, Reasoned
<1>5. CASE control' = control /\ caller' = caller
  BY <1>1, <1>5 DEF HandleInv, Reasoned
<1> QED BY <1>3, <1>4, <1>5 DEF Poll

LEMMA EngineConcludesKeeps == ASSUME HandleInv, EngineConcludes PROVE HandleInv'
<1>1. /\ solves \in Solves /\ caller' = "returning"
      /\ control' = [control EXCEPT ![solves].answer = "concluded"]
      /\ UNCHANGED <<callback, active, solves, other, asked>>
  BY DEF EngineConcludes, HandleInv
<1>2. control' \in [Solves -> Controls]
  BY <1>1 DEF HandleInv, Controls
<1>3. \A s \in Solves : /\ control'[s].flag = control[s].flag
                        /\ control'[s].answer \in {control[s].answer, "concluded"}
                        /\ control'[s].callback = control[s].callback
  BY <1>1 DEF HandleInv, Controls
<1> QED BY <1>1, <1>2, <1>3 DEF HandleInv, Reasoned

\* The other thread raises the flag of the control it copied under the lock, which is the one
\* it asked for, however late it gets there.
LEMMA OtherStepsKeep ==
  ASSUME HandleInv, OtherBegins \/ OtherCopies \/ OtherRaises
  PROVE  HandleInv'
<1>1. CASE OtherBegins
  <2>1. UNCHANGED <<callback, active, caller, solves, control, asked>>
    BY <1>1 DEF OtherBegins, builder
  <2>2. other'.at # "copied"
    BY <1>1 DEF OtherBegins
  <2> QED BY <2>1, <2>2 DEF HandleInv, Reasoned
<1>2. CASE OtherCopies
  BY <1>2 DEF OtherCopies, builder, HandleInv, Reasoned, Solves
<1>3. CASE OtherRaises
  <2>1. /\ other.copy \in {0} \cup (asked \cap Solves) /\ control' = Raised(other.copy)
        /\ other'.at = "idle" /\ UNCHANGED <<callback, active, caller, solves, asked>>
    BY <1>3 DEF OtherRaises, HandleInv
  <2>2. CASE other.copy = 0
    BY <2>1, <2>2 DEF Raised, HandleInv, Reasoned
  <2>3. CASE other.copy \in asked \cap Solves
    <3>1. control' = [control EXCEPT ![other.copy].flag = TRUE]
      BY <2>1, <2>3 DEF Raised, Solves
    <3>2. control' \in [Solves -> Controls]
      BY <2>3, <3>1 DEF HandleInv, Controls
    <3>3. \A s \in Solves : /\ control'[s].answer = control[s].answer
                            /\ control'[s].callback = control[s].callback
                            /\ s # other.copy => control'[s].flag = control[s].flag
      BY <2>3, <3>1 DEF HandleInv, Controls
    <3> QED BY <2>1, <2>3, <3>2, <3>3 DEF HandleInv, Reasoned
  <2> QED BY <2>1, <2>2, <2>3
<1> QED BY <1>1, <1>2, <1>3

LEMMA HandleInvariance == HandleSpec => []HandleInv
<1>1. HandleInv /\ [HandleNext]_handleVars => HandleInv'
  <2> SUFFICES ASSUME HandleInv, [HandleNext]_handleVars PROVE HandleInv'
    OBVIOUS
  <2>1. CASE UNCHANGED handleVars
    BY <2>1 DEF handleVars, builder, HandleInv, Reasoned
  <2> QED BY <2>1, EditsKeep, SetCallbackKeeps, CallerStepsKeep, RegisterKeeps, PollKeeps,
             EngineConcludesKeeps, OtherStepsKeep DEF HandleNext
<1> QED BY InitHolds, <1>1, PTL DEF HandleSpec

\* sankhya_model_interrupt stops the solve that was active when it was called and no other:
\* the flag it raises belongs to the control it copied under control_mutex.
THEOREM InterruptsHitTheirSolve == HandleSpec => []InterruptIsForItsSolve
<1>1. HandleInv => InterruptIsForItsSolve
  BY HandleAssumption DEF HandleInv, InterruptIsForItsSolve, Reasoned, Solves
<1> QED BY <1>1, HandleInvariance, PTL

-----------------------------------------------------------------------------
(* What the builder keeps                                                  *)

\* std::map semantics: a write is seen at its own cell only, and a zero is not stored.
LEMMA PutIsWrite ==
  ASSUME NEW map, NEW cell, NEW value
  PROVE  /\ \A c : Value(Put(map, cell, value), c) = IF c = cell THEN value ELSE Value(map, c)
         /\ 0 \notin Range(map) => 0 \notin Range(Put(map, cell, value))
<1>1. CASE value = 0
  BY <1>1 DEF Put, Value, Restrict, Range
<1>2. CASE value # 0
  BY <1>2 DEF Put, Value, Range
<1> QED BY <1>1, <1>2

\* One entry of the lower triangle stands for the two cells of a symmetric pair.
LEMMA LowerIsThePair ==
  ASSUME NEW p \in Pairs, NEW q \in Pairs
  PROVE  Lower(q[1], q[2]) = Lower(p[1], p[2]) <=> q \in {p, <<p[2], p[1]>>}
BY HandleAssumption DEF Pairs, Lower

\* The pending maps hold no zero; until a file is read they are the calls made, and no
\* frozen matrix hides them.  The copy a solve runs on is taken from them.
BuilderInv ==
  /\ DOMAIN model = {"rows", "cols", "matrix", "hessian"}
  /\ wanted = [matrix |-> [c \in Cells |-> wanted.matrix[c]],
               hessian |-> [p \in Pairs |-> wanted.hessian[p]]]
  /\ model.hessian.entries = Nothing
  /\ 0 \notin Range(entries)
  /\ model.matrix = Unbuilt =>
       /\ \A c \in Cells : Value(entries, c) = wanted.matrix[c]
       /\ \A p \in Pairs : Value(quadratic, Lower(p[1], p[2])) = wanted.hessian[p]
  /\ BuiltAsCalled

LEMMA BuilderInit == HandleInit => BuilderInv
BY DEF HandleInit, BuilderInv, BuiltAsCalled, Value, Nothing, Unbuilt, Frozen, Range

\* A read replaces everything: the matrix, what is pending and what is wanted.
LEMMA ReadBuilds == ASSUME BuilderInv, Read PROVE BuilderInv'
<1>1. PICK file \in Files :
        /\ model' = [rows |-> file.rows, cols |-> file.cols,
                     matrix |-> Frozen(file.rows, file.cols, file.entries),
                     hessian |-> Frozen(file.cols, file.cols, Nothing)]
        /\ wanted' = [matrix |-> [c \in Cells |-> Value(file.entries, c)],
                      hessian |-> [p \in Pairs |-> 0]]
  BY DEF Read
<1>2. entries' = Nothing /\ quadratic' = Nothing /\ caller' = "idle"
  BY DEF Read, Edit
<1>3. \A c : Value(Nothing, c) = 0
  BY DEF Value, Nothing
<1>4. 0 \notin Range(Nothing)
  BY DEF Range, Nothing
<1>5. model'.matrix = Unbuilt => file.entries = Nothing
  BY <1>1 DEF Frozen, Unbuilt
<1>6. model'.hessian.entries = Nothing
  BY <1>1 DEF Frozen
<1>7. /\ wanted'.matrix = [c \in Cells |-> Value(file.entries, c)]
      /\ wanted'.hessian = [p \in Pairs |-> 0]
  BY <1>1
<1> QED BY <1>1, <1>2, <1>3, <1>4, <1>5, <1>6, <1>7 DEF BuilderInv, BuiltAsCalled

LEMMA GrowthBuilds == ASSUME BuilderInv, AddColumn \/ AddRow PROVE BuilderInv'
<1>1. /\ model'.matrix = model.matrix /\ model'.hessian = model.hessian
      /\ DOMAIN model' = DOMAIN model
      /\ caller' = "idle" /\ UNCHANGED <<entries, quadratic, wanted>>
  BY DEF AddColumn, AddRow, Edit, BuilderInv
<1> QED BY <1>1 DEF BuilderInv, BuiltAsCalled

LEMMA SetCoefficientBuilds == ASSUME BuilderInv, SetCoefficient PROVE BuilderInv'
<1>1. PICK cell \in Cells, value \in Values :
        entries' = Put(entries, cell, value) /\ wanted' = [wanted EXCEPT !.matrix[cell] = value]
  BY DEF SetCoefficient
<1>2. caller' = "idle" /\ UNCHANGED <<model, quadratic>>
  BY DEF SetCoefficient, Edit
<1>3. /\ \A c : Value(entries', c) = IF c = cell THEN value ELSE Value(entries, c)
      /\ 0 \notin Range(entries')
  BY <1>1, PutIsWrite DEF BuilderInv
<1>4. /\ wanted'.matrix = [c \in Cells |-> IF c = cell THEN value ELSE wanted.matrix[c]]
      /\ wanted'.hessian = wanted.hessian
      /\ wanted' = [matrix |-> wanted'.matrix, hessian |-> wanted'.hessian]
  BY <1>1 DEF BuilderInv
<1> QED BY <1>2, <1>3, <1>4 DEF BuilderInv, BuiltAsCalled

\* The call on (j, i) overwrites the call on (i, j).
LEMMA SetQuadraticBuilds == ASSUME BuilderInv, SetQuadraticCoefficient PROVE BuilderInv'
<1>1. PICK p \in Pairs, value \in Values :
        /\ quadratic' = Put(quadratic, Lower(p[1], p[2]), value)
        /\ wanted' = [wanted EXCEPT !.hessian = [q \in Pairs |->
                                 IF q \in {p, <<p[2], p[1]>>} THEN value ELSE @[q]]]
  BY DEF SetQuadraticCoefficient
<1>2. caller' = "idle" /\ UNCHANGED <<model, entries>>
  BY DEF SetQuadraticCoefficient, Edit
<1>3. \A q \in Pairs :
        Value(quadratic', Lower(q[1], q[2])) =
          IF q \in {p, <<p[2], p[1]>>} THEN value ELSE Value(quadratic, Lower(q[1], q[2]))
  BY <1>1, PutIsWrite, LowerIsThePair
<1>4. /\ wanted'.hessian = [q \in Pairs |-> IF q \in {p, <<p[2], p[1]>>} THEN value
                                            ELSE wanted.hessian[q]]
      /\ wanted'.matrix = wanted.matrix
      /\ wanted' = [matrix |-> wanted'.matrix, hessian |-> wanted'.hessian]
  BY <1>1 DEF BuilderInv
<1> QED BY <1>2, <1>3, <1>4 DEF BuilderInv, BuiltAsCalled

\* The copy a solve starts from.
LEMMA SolveBeginBuilds == ASSUME BuilderInv, SolveBegin PROVE BuilderInv'
<1>1. built' = Materialise /\ UNCHANGED <<model, entries, quadratic, wanted>>
  BY DEF SolveBegin, builder
<1>2. ASSUME model.matrix = Unbuilt
      PROVE  built'.matrix.entries = entries /\ built'.hessian.entries = quadratic
  <2>1. model.matrix.entries = Nothing
    BY <1>2 DEF Unbuilt, Frozen
  <2>2. built'.matrix = Frozen(model.rows, model.cols, entries)
    BY <1>1, <2>1 DEF Materialise
  <2>3. CASE quadratic # Nothing
    BY <1>1, <2>2, <2>3 DEF Materialise, Frozen
  <2>4. CASE quadratic = Nothing
    BY <1>1, <2>2, <2>4 DEF Materialise, Frozen, BuilderInv
  <2> QED BY <2>3, <2>4
<1> QED BY <1>1, <1>2 DEF BuilderInv, BuiltAsCalled

\* While a solve runs nothing is built, and its copy stays.
LEMMA OthersBuild ==
  ASSUME BuilderInv,
         \/ SetCallback \/ LockToRegister \/ Register \/ Poll \/ EngineConcludes
         \/ LockToClear \/ Clear \/ OtherBegins \/ OtherCopies \/ OtherRaises
         \/ UNCHANGED handleVars
  PROVE  BuilderInv'
<1>1. UNCHANGED <<model, entries, quadratic, wanted, built>>
  BY DEF SetCallback, LockToRegister, Register, Poll, EngineConcludes, LockToClear, Clear,
         OtherBegins, OtherCopies, OtherRaises, handleVars, builder
<1>2. caller' # "idle" => caller # "idle"
  BY DEF SetCallback, LockToRegister, Register, Poll, EngineConcludes, LockToClear, Clear,
         OtherBegins, OtherCopies, OtherRaises, handleVars
<1> QED BY <1>1, <1>2 DEF BuilderInv, BuiltAsCalled

\* What a solve runs on is what the caller's calls amount to - the last write to each cell,
\* zeros removed, both triangles of Q as one - however many calls were made in whatever
\* order, in a handle no file was read into.
THEOREM SolvesRunOnTheCalls == HandleSpec => []BuiltAsCalled
<1>1. BuilderInv /\ [HandleNext]_handleVars => BuilderInv'
  BY ReadBuilds, GrowthBuilds, SetCoefficientBuilds, SetQuadraticBuilds, SolveBeginBuilds,
     OthersBuild DEF HandleNext
<1>2. BuilderInv => BuiltAsCalled
  BY DEF BuilderInv
<1> QED BY BuilderInit, <1>1, <1>2, PTL DEF HandleSpec
=============================================================================
