----------------------------- MODULE MCSimplex -----------------------------
(***************************************************************************)
(* Simplex: two rows or one, coefficients that keep every basis            *)
(* unimodular.                                                             *)
(* DeletionFilter: infeasible systems of four rows and bounds over three   *)
(* spots.  The filter runs after a simplex found its model infeasible; it  *)
(* takes the engine's word, so the two start separately.                   *)
(***************************************************************************)
EXTENDS Simplex, DeletionFilter

OneRow(cost, lo, up, coef, rl, ru) ==
  [cost |-> [x |-> cost[1], y |-> cost[2]], lo |-> [x |-> lo[1], y |-> lo[2]],
   up |-> [x |-> up[1], y |-> up[2]], coef |-> [r |-> [x |-> coef[1], y |-> coef[2]]],
   rl |-> [r |-> rl], ru |-> [r |-> ru], int |-> {}, sense |-> 1, offset |-> 0]

TwoRows(cost, lo, up, r, s, rl, ru) ==
  [cost |-> [x |-> cost[1], y |-> cost[2]], lo |-> [x |-> lo[1], y |-> lo[2]],
   up |-> [x |-> up[1], y |-> up[2]],
   coef |-> [r |-> [x |-> r[1], y |-> r[2]], s |-> [x |-> s[1], y |-> s[2]]],
   rl |-> [r |-> rl[1], s |-> rl[2]], ru |-> [r |-> ru[1], s |-> ru[2]],
   int |-> {}, sense |-> 1, offset |-> 0]

U == Unit
Solvable == TwoRows(<<-U, -U>>, <<0, 0>>, <<2 * U, Inf>>, <<1, 1>>, <<0, 1>>,
                    <<-Inf, -Inf>>, <<2 * U, U>>)
Impossible == TwoRows(<<U, 0>>, <<0, 0>>, <<Inf, Inf>>, <<1, 0>>, <<1, 0>>,
                      <<2 * U, -Inf>>, <<Inf, U>>)
Endless == OneRow(<<-U, 0>>, <<0, -Inf>>, <<Inf, Inf>>, <<1, -1>>, 0, 0)
Corner == TwoRows(<<U, 0>>, <<0, -Inf>>, <<Inf, U>>, <<1, 1>>, <<1, 0>>,
                  <<U, -Inf>>, <<U, U>>)
Parallel == TwoRows(<<U, 0>>, <<0, 0>>, <<2 * U, U>>, <<1, 1>>, <<1, 1>>,
                    <<U, 0>>, <<2 * U, 3 * U>>)
Lpset == {Solvable, Impossible, Endless, Corner, Parallel}

MCSpots == {1, 2, 3}
MCSystems ==
  [1 .. 4 -> {{1}, {1, 2}, {1, 3}, {2, 3}}] \cup {<<{}, {1, 2}>>, <<{1}, {1, 2, 3}, {2}>>}

SimplexIdle ==
  /\ lp = Solvable /\ tab = Tableaux /\ truth = Truth /\ drift = FALSE
  /\ engine = "primal" /\ loop = "not used" /\ pc = "not used" /\ resume = "not used"
  /\ bent = FALSE /\ tilt = Untilted /\ boxed = NoBox /\ todo = {}
  /\ at = CHOOSE s \in WarmStatuses : TRUE
  /\ val = [k \in Vars |-> ParkValue(at[k], TrueLo(k), TrueUp(k))]
  /\ lu = "etas" /\ xs = "stale" /\ misnamed = {} /\ aside = {} /\ pick = NoPick /\ ans = NoAnswer
IisIdle ==
  /\ system = <<>> /\ iisPhase = "not used" /\ active = {} /\ untried = {}
  /\ witness = <<>> /\ doubt = FALSE /\ support = {}

MCInit == (Init /\ IisIdle) \/ (SimplexIdle /\ IisInit)
MCNext == (Next /\ UNCHANGED iisVars) \/ (IisNext /\ UNCHANGED vars)
MCSpec == MCInit /\ [][MCNext]_<<vars, iisVars>>
=============================================================================
