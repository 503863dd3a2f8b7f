-------------------------- MODULE ParallelProtocol --------------------------
(***************************************************************************)
(* The parallel tree search implements the work-sharing protocol: a        *)
(* subtree becomes the number of its open nodes.                           *)
(***************************************************************************)
EXTENDS ParallelSearch

\* Adopting the incumbent is part of the sync, and a heuristic part of a node.
ProtocolPC(l) == CASE l = "adopt" -> "share" [] l = "heur" -> "lp" [] OTHER -> l

Protocol == INSTANCE WorkSharing WITH
  TreeNodes <- 2 * Cardinality(Points),
  queue <- Cardinality(queue),
  failed <- failed \/ thrown,
  pc <- [w \in Workers |-> ProtocolPC(pc[w])],
  open <- [w \in Workers |-> Cardinality(open[w])]

\* The search implements the protocol with its fairness: nodes are disjoint, so
\* giving, taking and losing them is the arithmetic of WorkSharing.
ImplementsProtocol == Protocol!FairSpec
==============================================================================
