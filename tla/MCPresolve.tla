----------------------------- MODULE MCPresolve -----------------------------
(* Three columns and up to three rows around the reductions that interact: an equation of *)
(* two columns, a row its fill-in reaches, and a row that becomes a bound.                 *)
EXTENDS Postsolve

Halves == {2 * k : k \in -2 .. 4}
Wholes == {4 * k : k \in -2 .. 2}

Kind == [free |-> <<-Inf, Inf>>, nonneg |-> <<0, Inf>>, box |-> <<0, 4>>, wide |-> <<-4, 8>>,
         one |-> <<4, 4>>, high |-> <<4, Inf>>, half |-> <<-2, 6>>]

Model(kinds, cost, coef, rl, ru, int, quad, sense) ==
  [cost |-> cost, lo |-> [c \in 1 .. 3 |-> Kind[kinds[c]][1]],
   up |-> [c \in 1 .. 3 |-> Kind[kinds[c]][2]], coef |-> coef, rl |-> rl, ru |-> ru,
   int |-> int, quad |-> quad, sense |-> sense, offset |-> 0]

\* x1 + s x2 = 1, its fill-in into the second row, and an inequality of the other two.
Doubletons ==
  {Model(kinds, cost, <<<<1, s, 0>>, <<p, q, 1>>, <<0, t, 1>>>>, <<4, 4, -Inf>>, <<4, 4, 8>>,
         {}, {}, 1) :
     kinds \in {k \in [1 .. 3 -> {"nonneg", "box", "free", "high"}] : k[3] # "high"}, cost \in {<<4, 8, 4>>, <<-4, 4, 0>>},
     s \in {-1, 1}, p \in {-1, 1}, q \in {0, 1}, t \in {0, 1}}

\* Free columns of inequalities, singleton rows against each other, a fixed column.
Singletons ==
  {Model(kinds, cost, <<<<a, 1, 1>>, <<0, b, 1>>, <<0, 0, 2>>>>, <<4, -Inf, lower>>, <<upper, 4, 4>>,
         {}, quad, sense) :
     kinds \in {k \in [1 .. 3 -> {"free", "wide", "one"}] : k[1] # "one"},
     cost \in {<<4, 0, -4>>, <<0, -4, 8>>}, a \in {0, 1}, b \in {0, -1},
     lower \in {-Inf, 4}, upper \in {4, Inf}, quad \in {{}, {3}}, sense \in {-1, 1}}

\* Integer columns: bounds that round, an equation only its continuous column may leave.
Integers3 ==
  {Model(kinds, cost, <<<<1, s, 0>>, <<0, 1, p>>, <<0, 0, 2>>>>, <<lower, -Inf, 4>>, <<lower, 4, 8>>,
         int, {}, sense) :
     kinds \in [1 .. 3 -> {"box", "wide", "half"}], cost \in {<<4, -4, 0>>, <<0, 0, 4>>},
     s \in {0, 1}, p \in {0, -1}, lower \in {0, 2, 4}, int \in {{2}, {1, 2}, {3}}, sense \in {1, -1}}

AllModels == Doubletons \cup Singletons \cup Integers3
=============================================================================
