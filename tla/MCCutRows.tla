----------------------------- MODULE MCCutRows -----------------------------
(* Small models in which every family of cuts finds something: knapsacks of binaries, a   *)
(* triangle of conflicts, mixed rows with a continuous column, and defined objectives.     *)
EXTENDS CutRows

Bounds == [bin |-> <<0, 2>>, pair |-> <<0, 4>>, cont |-> <<0, 4>>]

Of(kinds, int, cost, coef, rl, ru, sense) ==
  [cost |-> cost, lo |-> [c \in DOMAIN kinds |-> Bounds[kinds[c]][1]],
   up |-> [c \in DOMAIN kinds |-> Bounds[kinds[c]][2]], int |-> int, quad |-> {},
   coef |-> coef, rl |-> rl, ru |-> ru, sense |-> sense, offset |-> 0]

Knapsacks ==
  {Of(<<"bin", "bin", "bin">>, {1, 2, 3}, <<-2, 4, -6>>, <<w, <<1, 1, 1>>>>, <<-Inf, lower>>, <<b, Inf>>, 1) :
     w \in {<<3, 2, 2>>, <<1, 3, 2>>, <<5, 2, 2>>}, b \in {6, 8}, lower \in {-Inf, 1}}

Triangles ==
  {Of(<<"bin", "bin", "bin">>, {1, 2, 3}, <<1, 1, 1>>, <<<<1, 1, 0>>, <<0, 1, 1>>, <<1, 0, 1>>>>,
      <<lower, -Inf, -Inf>>, <<2, 2, upper>>, -1) : lower \in {-Inf, 2}, upper \in {2, 3}}

Mixed ==
  {Of(<<"pair", "bin", "cont">>, {1, 2}, <<0, 0, 2>>, <<<<2, 1, s[1]>>, <<1, -2, s[2]>>>>,
      <<s[3], -Inf>>, <<s[4], 2>>, 1) :
     s \in {<<-1, 0, -Inf, 5>>, <<-2, 1, -Inf, 5>>, <<-1, 1, -Inf, 4>>, <<-1, 0, 4, 5>>, <<-1, 0, 3, 4>>}}

SmallModels == {m \in Knapsacks \cup Triangles \cup Mixed : FeasiblePoints(m) # {}}
=============================================================================
