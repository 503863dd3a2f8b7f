----------------------------- MODULE MCNumerics -----------------------------
(***************************************************************************)
(* The numeric kernels, each on its own small instances: a solve uses the  *)
(* factorization of bases in the simplex, that of symmetric matrices in    *)
(* the interior point and the convexity test, and the expression graph for *)
(* a nonlinear model, and none of them calls another.                      *)
(*                                                                         *)
(* SparseLu: matrices of order three over the field of three elements - a  *)
(* dense basis, a triangular one that is permuted, one whose elimination   *)
(* cancels and fills, and bases of rank two and one.                       *)
(* SparseLdl: order five - a path, a cycle, a column shared by three rows  *)
(* and a star with a chord for the normal equations; definite,             *)
(* semidefinite and indefinite quadratics, some by their diagonal, some    *)
(* only by an entry beside a zero pivot.                                   *)
(* ExpressionGraph: two columns, and one node of each operation to build   *)
(* on.  Points where logarithms, roots and quotients have no value, boxes  *)
(* that are free, one-sided and around zero.                               *)
(***************************************************************************)
EXTENDS SparseLu, SparseLdl, ExpressionGraph

MCBases == {
  << <<1, 1, 2>>, <<1, 2, 1>>, <<2, 1, 1>> >>,
  << <<0, 1, 0>>, <<2, 1, 1>>, <<0, 2, 1>> >>,
  << <<1, 1, 0>>, <<1, 1, 1>>, <<0, 1, 2>> >>,
  << <<1, 1, 0>>, <<2, 2, 0>>, <<0, 1, 1>> >>,
  << <<1, 2, 1>>, <<2, 1, 2>>, <<1, 2, 1>> >>,
  << <<0, 0, 0>>, <<0, 1, 1>>, <<0, 2, 1>> >> }
MCEntering == { <<1, 0, 2>>, <<1, 1, 1>> }

MCConstraintMatrices == {
  << <<1, 1, 0, 0, 0>>, <<0, 1, -1, 0, 0>>, <<0, 0, 1, 1, 0>>, <<0, 0, 0, 1, -1>> >>,
  << <<1, 1, 0, 0, 0>>, <<0, 1, -1, 0, 0>>, <<0, 0, 1, 1, 0>>, <<0, 0, 0, 1, -1>>, <<1, 0, 0, 0, 1>> >>,
  << <<1, 1, 0, 0, 0>>, <<-1, 1, 0, 0, 0>>, <<0, 1, 1, 1, 0>>, <<0, 0, 0, 1, 1>> >>,
  << <<1, 1, 0, 0, 0>>, <<1, 0, -1, 0, 0>>, <<1, 0, 0, 1, 0>>, <<1, 0, 0, 0, -1>>, <<0, 1, 1, 0, 0>> >> }
MCThetas == {<<1, 1, 1, 1, 1>>, <<1, 2, 1, 1, 2>>, <<0, 1, 2, 1, 1>>, <<0, 2, 1, 2, 1>>}

MCQuadratics == {
  << <<2, 1, 0, 0, 0>>, <<1, 2, 1, 0, 0>>, <<0, 1, 2, 1, 0>>, <<0, 0, 1, 2, 1>>, <<0, 0, 0, 1, 2>> >>,
  << <<1, 1, 0, 0, 1>>, <<1, 1, 0, 0, 1>>, <<0, 0, 1, -1, 0>>, <<0, 0, -1, 1, 0>>, <<1, 1, 0, 0, 1>> >>,
  << <<1, 1, 1, 1, 1>>, <<1, 1, 1, 1, 1>>, <<1, 1, 1, 1, 1>>, <<1, 1, 1, 1, 1>>, <<1, 1, 1, 1, 1>> >>,
  << <<0, 1, 0, 0, 0>>, <<1, 0, 0, 0, 0>>, <<0, 0, 1, 0, 0>>, <<0, 0, 0, 1, 0>>, <<0, 0, 0, 0, 1>> >>,
  << <<1, 1, 0, 0, 0>>, <<1, 1, 1, 0, 0>>, <<0, 1, 1, 0, 0>>, <<0, 0, 0, 0, 0>>, <<0, 0, 0, 0, 1>> >>,
  << <<2, 0, 1, 1, 0>>, <<0, 0, 0, 0, 0>>, <<1, 0, 1, 0, 0>>, <<1, 0, 0, 1, 0>>, <<0, 0, 0, 0, 0>> >>,
  << <<1, 0, 2, 0, 0>>, <<0, 1, 0, 2, 0>>, <<2, 0, 4, 0, 0>>, <<0, 2, 0, 3, 0>>, <<0, 0, 0, 0, 1>> >>,
  << <<0, 0, 0, 0, 0>>, <<0, 0, 0, 0, 0>>, <<0, 0, -1, 0, 0>>, <<0, 0, 0, 1, 0>>, <<0, 0, 0, 0, 1>> >>,
  << <<2, 1, 0, 0, 1>>, <<1, 2, 1, 0, 0>>, <<0, 1, 2, 1, 0>>, <<0, 0, 1, 2, 1>>, <<1, 0, 0, 1, 2>> >>,
  << <<1, 1, 0, 0, 1>>, <<1, 2, 1, 0, 0>>, <<0, 1, 1, 1, 0>>, <<0, 0, 1, 2, 1>>, <<1, 0, 0, 1, 1>> >> }

Column(c) == Asks("variable", <<>>, Whole(c))
Fixed(v) == Asks("constant", <<>>, Whole(v))
MCScripts ==
  {<<Column(1), Column(2), Fixed(v)>> : v \in {0, 2, -1}} \cup
  {<<Column(1), Column(2), Asks(op, <<1>>, Whole(0))>> : op \in {"exp", "sqrt", "negate"}} \cup
  {<<Column(1), Column(2), Asks(op, <<1, 2>>, Whole(0))>> : op \in {"sum", "product", "divide"}} \cup
  {<<Column(1), Column(2), Asks("power", <<1>>, p)>> : p \in {Whole(2), Whole(3), Whole(-1), <<3, 2>>}} \cup
  {<<Column(1), Asks("power", <<1>>, Whole(2)), Fixed(-1), Asks("sum", <<2, 3>>, Whole(0))>>,
   <<Column(1), Asks("exp", <<1>>, Whole(0)), Asks("negate", <<2>>, Whole(0))>>,
   <<Column(1), Asks("log", <<1>>, Whole(0)), Fixed(0)>>,
   <<Fixed(2), Column(2), Asks("divide", <<1, 2>>, Whole(0))>>}
MCNumbers == {Whole(1), Infinity}
MCExponents == {Whole(-1), Whole(0), Whole(2), Whole(3), <<1, 2>>}
Everywhere == <<Neg(Infinity), Infinity>>
MCBoxes ==
  {<<Everywhere, Everywhere>>, << <<Whole(0), Whole(2)>>, <<Whole(0), Whole(2)>> >>,
   << <<Whole(1), Infinity>>, <<Whole(1), Infinity>> >>,
   << <<Whole(-1), Whole(2)>>, <<Neg(Infinity), Whole(-1)>> >>}
MCPoints == {<<Whole(p[1]), Whole(p[2])>> : p \in {<<0, 0>>, <<1, 1>>, <<2, 0>>, <<1, -1>>, <<-1, 2>>, <<4, 1>>}}

LuIdle == /\ basis \in Bases /\ basis = CHOOSE b \in Bases : TRUE
          /\ scheme = FALSE /\ phase = "not used" /\ work = Loaded(basis)
          /\ factors = NoFactors /\ etas = <<>> /\ ft = NoFold
          /\ defect = NoDefect /\ calls = 0
LdlIdle == /\ problem = [use |-> "none"] /\ lower = [pattern |-> {}, value |-> <<>>]
           /\ ldlPhase = "not used" /\ budget = [ordering |-> 0, factor |-> 0]
           /\ quotient = StartGraph(lower) /\ perm = <<>>
           /\ symbolic = NoSymbolic /\ numeric = NoNumeric

NlpIdle == graph = Empty /\ asked = Asks("not used", <<>>, Whole(0))

MCInit ==
  \/ Init /\ LdlIdle /\ NlpIdle
  \/ LuIdle /\ LdlInit /\ NlpIdle
  \/ LuIdle /\ LdlIdle /\ NlpInit
MCNext ==
  \/ Next /\ UNCHANGED <<ldlVars, nlpVars>>
  \/ LdlNext /\ UNCHANGED <<vars, nlpVars>>
  \/ NlpNext /\ UNCHANGED <<vars, ldlVars>>
MCSpec == MCInit /\ [][MCNext]_<<vars, ldlVars, nlpVars>>
=============================================================================
