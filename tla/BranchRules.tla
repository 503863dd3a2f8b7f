----------------------------- MODULE BranchRules -----------------------------
(***************************************************************************)
(* The rules the tree searches share (src/mip/branch_and_bound*.cpp): what *)
(* a node is, what its relaxation may answer, when a node may be fathomed, *)
(* when the gap target is met and how a node is split.                     *)
(*                                                                         *)
(* A node's domain is the set of integer assignments its chain of bound    *)
(* changes leaves; the relaxation is known only by its contract (a valid   *)
(* bound, an honest "infeasible").  All objectives are in minimise space,  *)
(* as the search keeps them.                                               *)
(***************************************************************************)
EXTENDS Integers, FiniteSets

CONSTANTS Points,    \* the integer assignments inside the root box
          Feasible,  \* those that satisfy every row
          Obj,       \* objective of a feasible assignment
          Splits,    \* the half-spaces x_j <= floor(v), as sets of assignments
          Bounds,    \* the values a relaxation bound takes
          NegInf,    \* "nothing is proved yet", the root's bound
          Inf,       \* the bound nothing attains: no open node, no incumbent
          Rounded,   \* a bound rounded up to the objective step
          Margin,    \* absolute gap target: can_prune's margin
          GapSlack,  \* the gap the two targets accept at an incumbent value
          NoPoint    \* "no incumbent"

ASSUME PointsAssumption ==
  /\ IsFiniteSet(Points)
  /\ Points # {}
  /\ Feasible \subseteq Points
  /\ NoPoint \notin Points
  /\ Splits \subseteq SUBSET Points

ASSUME BoundsAssumption ==
  /\ Bounds \subseteq Int
  /\ NegInf \in Bounds
  /\ Inf \in Int
  /\ \A b \in Bounds : b < Inf
  /\ Obj \in [Points -> Int]
  /\ \A p \in Feasible : NegInf < Obj[p] /\ Obj[p] < Inf

\* round_up_to_step: never below the bound, never past a value an integer
\* solution can take, and order preserving.
ASSUME RoundingAssumption ==
  /\ Rounded \in [Bounds -> Int]
  /\ \A b \in Bounds : b <= Rounded[b]
  /\ \A b \in Bounds, p \in Feasible : b <= Obj[p] => Rounded[b] <= Obj[p]
  /\ \A a, b \in Bounds : a <= b => Rounded[a] <= Rounded[b]

\* GapSlack[v] = max(absolute target, relative target * max(1, |v|)); the options
\* keep the relative target in [0, 1], so v - GapSlack[v] never decreases.
ASSUME GapAssumption ==
  /\ Margin \in Nat
  /\ \A p \in Feasible : GapSlack[Obj[p]] \in Nat /\ Margin <= GapSlack[Obj[p]]
  /\ \A p, q \in Feasible :
        Obj[p] <= Obj[q] => Obj[p] - GapSlack[Obj[p]] <= Obj[q] - GapSlack[Obj[q]]

------------------------------------------------------------------------------

\* TreeNode and SubtreeSpec: the domain the chain of changes leaves, and the
\* bound inherited from the parent's relaxation.
Node == [dom : SUBSET Points, bound : Bounds]

\* The root starts with no bound proved.
RootNode == [dom |-> Points, bound |-> NegInf]

\* What is known of a node whose inherited bound is honest.
BoundHolds(n) == \A p \in n.dom \cap Feasible : n.bound <= Obj[p]

\* Propagation, a learned conflict or the node LP may call a node infeasible:
\* every one of them is a proof that no feasible assignment is inside.
CanBeInfeasible(n) == n.dom \cap Feasible = {}

\* An integral relaxation: its optimum is one of the node's assignments.
IntegralOptima(n, b) == {p \in n.dom \cap Feasible : Obj[p] = b}

\* floor(v) and floor(v) + 1 at a fractional value of a column: a half-space
\* that leaves something on either side.
BranchSplits(n) == {H \in Splits : n.dom \cap H # {} /\ n.dom \ H # {}}

\* The bounds an optimal relaxation of the node may report: below every feasible
\* assignment inside, and attained at one of them when no column is fractional.
RelaxationBounds(n) ==
  {b \in Bounds \ {NegInf} :
      /\ \A p \in n.dom \cap Feasible : b <= Obj[p]
      /\ IntegralOptima(n, b) # {} \/ BranchSplits(n) # {}}

Children(n, b, H) ==
  {[dom |-> n.dom \cap H, bound |-> b], [dom |-> n.dom \ H, bound |-> b]}

\* can_prune(): no incumbent prunes nothing.
CanPrune(b, inc) == inc # NoPoint /\ Rounded[b] >= Obj[inc] - Margin

\* Mutant: the gap is measured against the incumbent, whatever the targets are.
GapMetLoosely(b, inc) ==
  LET gap == Obj[inc] - Rounded[b]
  IN  inc # NoPoint /\ gap > 0 /\ gap <= Obj[inc]

\* The gap test of run(): strictly positive and within a target.
GapMet(b, inc) ==
  LET gap == Obj[inc] - Rounded[b]
  IN  inc # NoPoint /\ gap > 0 /\ gap <= GapSlack[Obj[inc]]

\* offer_incumbent() and SharedSearch::publish(): only a better point replaces.
Improves(p, inc) == inc # NoPoint => Obj[p] < Obj[inc]

Better(p, inc) == IF Improves(p, inc) THEN p ELSE inc

\* A node of S with the smallest bound.
Smallest(S) == {n \in S : \A m \in S : n.bound <= m.bound}

Lower(a, b) == IF a <= b THEN a ELSE b
==============================================================================
