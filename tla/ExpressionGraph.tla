-------------------------- MODULE ExpressionGraph --------------------------
(***************************************************************************)
(* The nonlinear layer of src/nlp/: a graph of operations that is folded   *)
(* and shared while it is built, its evaluation, gradient and Hessian by   *)
(* sweeps over the tape, and what is said of it over a box - ranges,       *)
(* curvature, degree, domain risks, and from these the class and the       *)
(* convexity of a model.                                                   *)
(*                                                                         *)
(* Arithmetic is exact: nothing overflows, and a point at which some value *)
(* is irrational is not looked at.  A call is an action; the caller may    *)
(* name a node, a column or a constant that is none.                       *)
(***************************************************************************)
EXTENDS Rationals, TLC

CONSTANTS
  ColumnCount,  \* num_variables()
  Scripts,      \* the calls a graph starts from, as sequences of records
  Numbers,      \* constants a caller may ask for; Infinity among them
  Exponents,    \* exponents of power()
  Boxes,        \* column bounds, as functions from columns to <<lower, upper>>
  Points        \* points of evaluation, as functions from columns to rationals

ColumnSet == 1 .. ColumnCount
NoExpr == 0  \* kNoExpr

ASSUME NlpAssumption == ColumnCount \in Nat

VARIABLES
  graph,  \* nodes_, whether invalid_ holds a message, and what the last call returned
  asked   \* history: the call made after the script

nlpVars == <<graph, asked>>

-----------------------------------------------------------------------------
(* Construction.  A builder takes a graph and returns it with the id of    *)
(* its result.                                                             *)

Malformed(g) == [g EXCEPT !.invalid = TRUE, !.id = NoExpr]
Refused(g, ids) ==
  LET bad == {k \in DOMAIN ids : ids[k] \notin DOMAIN g.nodes}
      first == ids[CHOOSE k \in bad : \A j \in bad : k <= j]
  IN [g EXCEPT !.invalid = @ \/ first # NoExpr, !.id = NoExpr]
Usable(g, ids) == \A k \in DOMAIN ids : ids[k] \in DOMAIN g.nodes

Intern(g, op, value, children) ==
  LET node == [op |-> op, value |-> value, children |-> children]
      same == {k \in DOMAIN g.nodes : g.nodes[k] = node}
  IN [g EXCEPT !.nodes = IF same = {} THEN Append(@, node) ELSE @,
               !.id = IF same = {} THEN Len(g.nodes) + 1 ELSE CHOOSE k \in same : TRUE]

IsConstant(g, id) == g.nodes[id].op = "constant"
ValueOf(g, id) == g.nodes[id].value
Operand(g, id) == g.nodes[id].children[1]

Constant(g, v) == IF HasValue(v) THEN Intern(g, "constant", v, <<>>) ELSE Malformed(g)
Variable(g, c) == IF c \in ColumnSet THEN Intern(g, "variable", Whole(c), <<>>) ELSE Malformed(g)

\* The nodes a root depends on, children before parents.
Tape(g, root) ==
  LET Down(reached, id) == IF id \in reached THEN reached \cup ToSet(g.nodes[id].children) ELSE reached
      reached == FoldLeft(Down, {root}, [k \in 1 .. root |-> root + 1 - k])
  IN SetToSortSeq(reached, <)

DefinedEverywhere(g, root) ==
  \A id \in ToSet(Tape(g, root)) :
    LET n == g.nodes[id]
    IN /\ n.op \notin {"divide", "log", "sqrt"}
       /\ n.op = "power" => IsWhole(n.value) /\ n.value[1] >= 0

Negate(g, a) ==
  IF ~Usable(g, <<a>>) THEN Refused(g, <<a>>)
  ELSE IF IsConstant(g, a) THEN Constant(g, Neg(ValueOf(g, a)))
  ELSE IF g.nodes[a].op = "negate" THEN [g EXCEPT !.id = Operand(g, a)]
  ELSE Intern(g, "negate", Whole(0), <<a>>)

Sum(g, terms) ==
  LET parts(id) == IF g.nodes[id].op = "sum" THEN g.nodes[id].children ELSE <<id>>
      all == FlattenSeq([k \in DOMAIN terms |-> parts(terms[k])])
      constants == SelectSeq(all, LAMBDA id : IsConstant(g, id))
      others == SelectSeq(all, LAMBDA id : ~IsConstant(g, id))
      gathered == AddAll([k \in DOMAIN constants |-> ValueOf(g, constants[k])])
      folded == IF gathered = Whole(0) THEN g ELSE Constant(g, gathered)
      flat == IF gathered = Whole(0) THEN others ELSE Append(others, folded.id)
  IN IF ~Usable(g, terms) THEN Refused(g, terms)
     ELSE IF Len(flat) = 0 THEN Constant(folded, Whole(0))
     ELSE IF Len(flat) = 1 THEN [folded EXCEPT !.id = flat[1]]
     ELSE Intern(folded, "sum", Whole(0), SortSeq(flat, <))

Subtract(g, a, b) == LET negated == Negate(g, b) IN Sum(negated, <<a, negated.id>>)

\* Mutant: zero times anything is zero, domain or not.
MultiplyHidingDomain(g, a, b) ==
  LET factor == IF IsConstant(g, a) THEN a ELSE b
      other == IF IsConstant(g, a) THEN b ELSE a
      c == ValueOf(g, factor)
  IN IF ~Usable(g, <<a, b>>) THEN Refused(g, <<a, b>>)
     ELSE IF IsConstant(g, a) /\ IsConstant(g, b) THEN Constant(g, Mul(ValueOf(g, a), ValueOf(g, b)))
     ELSE IF IsConstant(g, factor) /\ c = Whole(1) THEN [g EXCEPT !.id = other]
     ELSE IF IsConstant(g, factor) /\ c = Whole(-1) THEN Negate(g, other)
     ELSE IF IsConstant(g, factor) /\ c = Whole(0) THEN Constant(g, Whole(0))
     ELSE Intern(g, "product", Whole(0), IF a < b THEN <<a, b>> ELSE <<b, a>>)

Multiply(g, a, b) ==
  LET factor == IF IsConstant(g, a) THEN a ELSE b
      other == IF IsConstant(g, a) THEN b ELSE a
      c == ValueOf(g, factor)
  IN IF ~Usable(g, <<a, b>>) THEN Refused(g, <<a, b>>)
     ELSE IF IsConstant(g, a) /\ IsConstant(g, b) THEN Constant(g, Mul(ValueOf(g, a), ValueOf(g, b)))
     ELSE IF IsConstant(g, factor) /\ c = Whole(1) THEN [g EXCEPT !.id = other]
     ELSE IF IsConstant(g, factor) /\ c = Whole(-1) THEN Negate(g, other)
     ELSE IF IsConstant(g, factor) /\ c = Whole(0) /\ DefinedEverywhere(g, other) THEN Constant(g, Whole(0))
     ELSE Intern(g, "product", Whole(0), IF a < b THEN <<a, b>> ELSE <<b, a>>)

Divide(g, a, b) ==
  IF ~Usable(g, <<a, b>>) THEN Refused(g, <<a, b>>)
  ELSE IF IsConstant(g, b) /\ ValueOf(g, b) = Whole(1) THEN [g EXCEPT !.id = a]
  ELSE IF IsConstant(g, a) /\ IsConstant(g, b) /\ ValueOf(g, b) # Whole(0)
    THEN Constant(g, Over(ValueOf(g, a), ValueOf(g, b)))
  ELSE Intern(g, "divide", Whole(0), <<a, b>>)

PowerDefinedAt(v, p) ==
  IF IsWhole(p) THEN v # Whole(0) \/ p[1] >= 0
  ELSE Less(Whole(0), v) \/ (v = Whole(0) /\ p[1] > 0)

Raise(g, a, p) ==  \* power()
  IF ~Usable(g, <<a>>) THEN Refused(g, <<a>>)
  ELSE IF ~HasValue(p) THEN Malformed(g)
  ELSE IF p = Whole(1) THEN [g EXCEPT !.id = a]
  ELSE IF p = Whole(0) /\ DefinedEverywhere(g, a) THEN Constant(g, Whole(1))
  ELSE IF IsConstant(g, a) /\ PowerDefinedAt(ValueOf(g, a), p) THEN Constant(g, Power(ValueOf(g, a), p))
  ELSE Intern(g, "power", p, <<a>>)

-----------------------------------------------------------------------------
(* Values.  `why` is "none", "domain", or "irrational" where the model     *)
(* does not look.                                                          *)

Number(v) == [why |-> IF HasValue(v) THEN "none" ELSE "irrational", value |-> v]
OutsideDomain == [why |-> "domain", value |-> NaN]

ExpAt(v) == Exactly(ExpBelow(v), ExpAbove(v))
LogAt(v) == Exactly(LogBelow(v), LogAbove(v))

\* One operation on the values of its operands.
Apply(op, p, v) ==
  CASE op = "sum" -> Number(AddAll(v))
    [] op = "product" -> Number(Mul(v[1], v[2]))
    [] op = "negate" -> Number(Neg(v[1]))
    [] op = "divide" -> IF v[2] = Whole(0) THEN OutsideDomain ELSE Number(Over(v[1], v[2]))
    [] op = "power" -> IF PowerDefinedAt(v[1], p) THEN Number(Power(v[1], p)) ELSE OutsideDomain
    [] op = "exp" -> Number(ExpAt(v[1]))
    [] op = "log" -> IF AtMost(v[1], Whole(0)) THEN OutsideDomain ELSE Number(LogAt(v[1]))
    [] op = "sqrt" -> IF Less(v[1], Whole(0)) THEN OutsideDomain ELSE Number(Power(v[1], <<1, 2>>))

\* exp(), log(), sqrt() of the builder share their rule.
Atom(g, op, a) ==
  IF ~Usable(g, <<a>>) THEN Refused(g, <<a>>)
  ELSE IF IsConstant(g, a) /\ Apply(op, Whole(0), <<ValueOf(g, a)>>) # OutsideDomain
    THEN Constant(g, Apply(op, Whole(0), <<ValueOf(g, a)>>).value)
  ELSE Intern(g, op, Whole(0), <<a>>)

\* forward(): every value on the tape, or the first node that has none.
Forward(g, root, x) ==
  LET AtNode(n, v) ==
        CASE n.op = "constant" -> Number(n.value)
          [] n.op = "variable" -> Number(x[n.value[1]])
          [] OTHER -> Apply(n.op, n.value, [k \in DOMAIN n.children |-> v[n.children[k]]])
      Step(s, id) ==
        LET r == AtNode(g.nodes[id], s.v)
        IN IF s.why # "none" THEN s
           ELSE [why |-> r.why, v |-> [s.v EXCEPT ![id] = r.value]]
  IN FoldLeft(Step, [why |-> "none", v |-> [k \in 1 .. root |-> Whole(0)] @@ <<>>], Tape(g, root))

-----------------------------------------------------------------------------
(* Derivatives.                                                            *)

\* partial(): the derivative of node n by its k-th child, and that derivative's own along a
\* direction in which the nodes move by `dot`.
Partial(n, id, k, v, dot) ==
  LET a == v[n.children[1]]
      b == v[n.children[2]]
      p == n.value
      c == n.children
      Two(first, along) == <<first, along>>
  IN CASE n.op = "sum" -> Two(Whole(1), Whole(0))
       [] n.op = "negate" -> Two(Whole(-1), Whole(0))
       [] n.op = "product" -> Two(v[c[3 - k]], dot[c[3 - k]])
       [] n.op = "divide" /\ k = 1 -> Two(Over(Whole(1), b), Neg(Over(dot[c[2]], Mul(b, b))))
       [] n.op = "divide" /\ k = 2 ->
            Two(Neg(Over(a, Mul(b, b))),
                Plus(Neg(Over(dot[c[1]], Mul(b, b))), Over(Mul(Mul(Whole(2), a), dot[c[2]]), IntPower(b, 3))))
       [] n.op = "power" ->
            Two(Mul(p, Power(a, Plus(p, Whole(-1)))),
                IF dot[c[1]] = Whole(0) THEN Whole(0)
                ELSE Mul(dot[c[1]],
                         IF p = Whole(2) THEN p
                         ELSE Mul(Mul(p, Plus(p, Whole(-1))), Power(a, Plus(p, Whole(-2))))))
       [] n.op = "exp" -> Two(v[id], Mul(v[id], dot[c[1]]))
       [] n.op = "log" -> Two(Over(Whole(1), a), Neg(Over(dot[c[1]], Mul(a, a))))
       [] n.op = "sqrt" -> Two(Over(<<1, 2>>, v[id]), Neg(Over(dot[c[1]], Mul(Whole(4), IntPower(v[id], 3)))))

Still(root) == [k \in 1 .. root |-> Whole(0)] @@ <<>>
Places(g, id) == [k \in DOMAIN g.nodes[id].children |-> k]

\* The reverse sweep of gradient() and hessian(): adjoints, and their derivatives along `dot`.
Adjoints(g, root, v, dot) ==
  LET Into(s, id, c, d) ==
        IF ~s.ok \/ ~HasValue(d[1]) \/ ~HasValue(d[2]) THEN [s EXCEPT !.ok = FALSE]
        ELSE [s EXCEPT !.bar[c] = Plus(@, Mul(s.bar[id], d[1])),
                       !.barDot[c] = Plus(@, Plus(Mul(s.barDot[id], d[1]), Mul(s.bar[id], d[2])))]
      Child(s, id, k) == Into(s, id, g.nodes[id].children[k], Partial(g.nodes[id], id, k, v, dot))
      Node(s, id) ==
        IF s.bar[id] = Whole(0) /\ s.barDot[id] = Whole(0) THEN s
        ELSE FoldLeft(LAMBDA t, k : Child(t, id, k), s, Places(g, id))
  IN FoldLeft(Node, [ok |-> TRUE, bar |-> [Still(root) EXCEPT ![root] = Whole(1)], barDot |-> Still(root)],
              Reverse(Tape(g, root)))

\* The tangent sweep of hessian() along column j.
Tangents(g, root, v, j) ==
  LET Slope(s, id, c, d) ==
        IF ~s.ok \/ ~HasValue(d[1]) THEN [s EXCEPT !.ok = FALSE]
        ELSE [s EXCEPT !.dot[id] = Plus(@, Mul(d[1], s.dot[c]))]
      Child(s, id, k) ==
        Slope(s, id, g.nodes[id].children[k], Partial(g.nodes[id], id, k, v, Still(root)))
      Node(s, id) ==
        IF g.nodes[id].op = "variable"
        THEN [s EXCEPT !.dot[id] = Whole(IF g.nodes[id].value = Whole(j) THEN 1 ELSE 0)]
        ELSE FoldLeft(LAMBDA t, k : Child(t, id, k), s, Places(g, id))
  IN FoldLeft(Node, [ok |-> TRUE, dot |-> Still(root)], Tape(g, root))

\* A column's entry of what a sweep left on the nodes; zero for a column without a node.
AtColumn(g, values, c) ==
  LET at == {id \in DOMAIN values : g.nodes[id].op = "variable" /\ g.nodes[id].value = Whole(c)}
  IN IF at = {} THEN Whole(0) ELSE values[CHOOSE id \in at : TRUE]

\* What a sweep that ended hands over, for a tape that was evaluated.
Swept(f, s, of) == IF f.why = "none" /\ s.ok THEN [ok |-> TRUE, of |-> of] ELSE [ok |-> FALSE, of |-> <<>>]

Gradient(g, root, f) ==
  LET From(s) == Swept(f, s, [c \in ColumnSet |-> AtColumn(g, s.bar, c)])
  IN From(Adjoints(g, root, f.v, Still(root)))

\* Mutant: the adjoints' own derivatives are dropped, so that only the last operation bends.
SecondSweepOfLastOnly(g, root, v, t) == [Adjoints(g, root, v, Still(root)) EXCEPT !.ok = @ /\ t.ok]

\* The second sweep of a column, along what its tangent sweep left.
SecondSweep(g, root, v, t) == [Adjoints(g, root, v, t.dot) EXCEPT !.ok = @ /\ t.ok]

\* The lower triangle, column by column.
Hessian(g, root, f) ==
  LET From(s) ==
        Swept(f, [ok |-> \A j \in ColumnSet : s[j].ok],
              [i, j \in ColumnSet |-> IF i >= j THEN AtColumn(g, s[j].barDot, i)
                                      ELSE AtColumn(g, s[i].barDot, j)])
  IN From([j \in ColumnSet |-> SecondSweep(g, root, f.v, Tangents(g, root, f.v, j))] @@ <<>>)

-----------------------------------------------------------------------------
(* Structure over a box.                                                   *)

Between(low, high, undefined) == [low |-> low, high |-> high, undefined |-> undefined]
Anything(undefined) == Between(Neg(Infinity), Infinity, undefined)

\* hull(): the interval of some values, indefinite forms left out.
Hull(values, undefined) ==
  LET some == {v \in values : v # NaN}
  IN IF some = {} THEN Anything(undefined) ELSE Between(Least(some), Most(some), undefined)

\* times(): a zero is exact, an infinity only a bound.
TimesBound(x, y) == IF x = Whole(0) \/ y = Whole(0) THEN Whole(0) ELSE Mul(x, y)
Corners4(a, b) == {TimesBound(x, y) : x \in {a.low, a.high}, y \in {b.low, b.high}}

IsEven(p) == IsWhole(p) /\ p[1] % 2 = 0

AbsoluteValue(x) == <<Abs(x[1]), x[2]>>

PowerRange(low, high, p, undefined) ==
  LET ends == {AbsoluteValue(low), AbsoluteValue(high)}
      near == IF AtMost(low, Whole(0)) /\ AtMost(Whole(0), high) THEN Whole(0) ELSE Least(ends)
  IN IF IsEven(p) /\ p[1] > 0 THEN Hull({Power(near, p), Power(Most(ends), p)}, undefined)
     ELSE Hull(UNION {{PowerBelow(t, p), PowerAbove(t, p)} : t \in {low, high}}, undefined)

PowerDefined(p, r) ==
  /\ ~r.undefined
  /\ IF IsWhole(p) THEN p[1] >= 0 \/ Less(Whole(0), r.low) \/ Less(r.high, Whole(0))
     ELSE IF p[1] > 0 THEN AtMost(Whole(0), r.low) ELSE Less(Whole(0), r.low)

MayBeZero(r) == AtMost(r.low, Whole(0)) /\ AtMost(Whole(0), r.high)

Reciprocal(r) == Between(Over(Whole(1), r.high), Over(Whole(1), r.low), FALSE)

RangeOfPower(p, a, undefined) ==
  LET clipped == IF IsWhole(p) \/ AtMost(Whole(0), a.low) THEN a.low ELSE Whole(0)
      empty == ~IsWhole(p) /\ (IF p[1] > 0 THEN Less(a.high, Whole(0)) ELSE AtMost(a.high, Whole(0)))
  IN IF empty \/ (IsWhole(p) /\ p[1] < 0 /\ MayBeZero(a)) THEN Anything(TRUE)
     ELSE PowerRange(clipped, a.high, p, undefined \/ ~PowerDefined(p, a))

RangeOf(n, r, box) ==
  LET kids == [k \in DOMAIN n.children |-> r[n.children[k]]]
      undefined == \E k \in DOMAIN kids : kids[k].undefined
      a == kids[1]
      b == kids[2]
  IN CASE n.op = "constant" -> Between(n.value, n.value, FALSE)
       [] n.op = "variable" -> Between(box[n.value[1]][1], box[n.value[1]][2], FALSE)
       [] n.op = "sum" -> Between(AddAll([k \in DOMAIN kids |-> kids[k].low]),
                                 AddAll([k \in DOMAIN kids |-> kids[k].high]), undefined)
       [] n.op = "negate" -> Between(Neg(a.high), Neg(a.low), undefined)
       [] n.op = "product" -> IF n.children[1] = n.children[2]
                              THEN PowerRange(a.low, a.high, Whole(2), undefined)
                              ELSE Hull(Corners4(a, b), undefined)
       [] n.op = "divide" -> IF MayBeZero(b) THEN Anything(TRUE)
                             ELSE Hull(Corners4(a, Reciprocal(b)), undefined)
       [] n.op = "power" -> RangeOfPower(n.value, a, undefined)
       [] n.op = "exp" -> Between(ExpBelow(a.low), ExpAbove(a.high), undefined)
       [] n.op = "log" ->
            LET End(t, At(_)) == IF Less(Whole(0), t) THEN At(t) ELSE Neg(Infinity)
            IN Between(End(a.low, LogBelow), End(a.high, LogAbove), undefined \/ AtMost(a.low, Whole(0)))
       [] n.op = "sqrt" ->
            LET Positive(t) == IF Less(t, Whole(0)) THEN Whole(0) ELSE t
            IN Between(RootBelow(Positive(a.low)), RootAbove(Positive(a.high)),
                       undefined \/ Less(a.low, Whole(0)))

Ranges(g, root, box) ==
  LET Bounded(r) == IF r.low = NaN \/ r.high = NaN THEN Anything(r.undefined) ELSE r
  IN FoldLeft(LAMBDA r, id : [r EXCEPT ![id] = Bounded(RangeOf(g.nodes[id], r, box))],
              [k \in 1 .. root |-> Anything(FALSE)], Tape(g, root))

Flip(c) == IF c = "convex" THEN "concave" ELSE IF c = "concave" THEN "convex" ELSE c

\* Mutant: a convex function of a convex one is convex, falling or not.
ComposeWhateverDirection(outer, direction, inner) ==
  IF inner = "constant" THEN "constant"
  ELSE IF outer = "unknown" \/ inner = "unknown" THEN "unknown"
  ELSE IF inner = "affine" \/ outer = inner THEN outer
  ELSE IF direction = "decreasing" /\ inner = Flip(outer) THEN outer
  ELSE "unknown"

\* f = h(g) by the composition rule.
Compose(outer, direction, inner) ==
  IF inner = "constant" THEN "constant"
  ELSE IF outer = "unknown" \/ inner = "unknown" THEN "unknown"
  ELSE IF inner = "affine" THEN outer
  ELSE IF (direction = "increasing" /\ inner = outer) \/ (direction = "decreasing" /\ inner = Flip(outer))
    THEN outer
  ELSE "unknown"

\* Curvature and direction of t^p over a range inside its domain.
PowerShape(p, r) ==
  LET nonneg == AtMost(Whole(0), r.low)
      nonpos == AtMost(r.high, Whole(0))
  IN IF IsWhole(p) /\ p[1] >= 2 THEN
       IF IsEven(p) THEN <<"convex", IF nonneg THEN "increasing" ELSE IF nonpos THEN "decreasing" ELSE "neither">>
       ELSE IF nonneg THEN <<"convex", "increasing">>
       ELSE IF nonpos THEN <<"concave", "increasing">>
       ELSE <<"unknown", "neither">>
     ELSE IF IsWhole(p) /\ p[1] < 0 THEN
       IF Less(Whole(0), r.low) THEN <<"convex", "decreasing">>
       ELSE IF ~Less(r.high, Whole(0)) THEN <<"unknown", "neither">>
       ELSE IF IsEven(p) THEN <<"convex", "increasing">> ELSE <<"concave", "decreasing">>
     ELSE IF Less(Whole(1), p) THEN <<"convex", "increasing">>
     ELSE IF Less(Whole(0), p) THEN <<"concave", "increasing">>
     ELSE <<"convex", "decreasing">>

OfSum(terms) ==
  IF "unknown" \in terms \/ {"convex", "concave"} \subseteq terms THEN "unknown"
  ELSE IF terms \subseteq {"constant"} THEN "constant"
  ELSE IF "convex" \in terms THEN "convex"
  ELSE IF "concave" \in terms THEN "concave" ELSE "affine"

Scaled(v, c) == IF Less(Whole(0), v) THEN c ELSE IF v = Whole(0) THEN "constant" ELSE Flip(c)

OfProduct(g, n, c, r) ==
  LET fixed == {k \in {1, 2} : IsConstant(g, n.children[k])}
      one == CHOOSE k \in fixed : \A j \in fixed : k <= j
      h == PowerShape(Whole(2), r[n.children[1]])
  IN IF fixed # {} THEN Scaled(ValueOf(g, n.children[one]), c[n.children[3 - one]])
     ELSE IF n.children[1] = n.children[2] THEN Compose(h[1], h[2], c[n.children[1]])
     ELSE "unknown"

OfQuotient(g, n, c, r) ==
  LET top == n.children[1]
      under == n.children[2]
      v == ValueOf(g, top)
      falls == IF Less(Whole(0), v) THEN "decreasing" ELSE "increasing"
  IN IF IsConstant(g, under) /\ ValueOf(g, under) # Whole(0)
       THEN IF Less(Whole(0), ValueOf(g, under)) THEN c[top] ELSE Flip(c[top])
     ELSE IF ~IsConstant(g, top) THEN "unknown"
     ELSE IF v = Whole(0) THEN "constant"
     ELSE IF r[under].undefined \/ MayBeZero(r[under]) THEN "unknown"
     ELSE IF Less(Whole(0), r[under].low)
       THEN Compose(IF Less(Whole(0), v) THEN "convex" ELSE "concave", falls, c[under])
     ELSE Compose(IF Less(Whole(0), v) THEN "concave" ELSE "convex", falls, c[under])

CurvatureOf(g, n, c, r) ==
  LET a == n.children[1]
      h == PowerShape(n.value, r[a])
  IN CASE n.op = "constant" -> "constant"
       [] n.op = "variable" -> "affine"
       [] n.op = "sum" -> OfSum({c[k] : k \in ToSet(n.children)})
       [] n.op = "negate" -> Flip(c[a])
       [] n.op = "product" -> OfProduct(g, n, c, r)
       [] n.op = "divide" -> OfQuotient(g, n, c, r)
       [] n.op = "power" -> IF PowerDefined(n.value, r[a]) THEN Compose(h[1], h[2], c[a]) ELSE "unknown"
       [] n.op = "exp" -> Compose("convex", "increasing", c[a])
       [] n.op = "log" -> IF ~r[a].undefined /\ Less(Whole(0), r[a].low)
                          THEN Compose("concave", "increasing", c[a]) ELSE "unknown"
       [] n.op = "sqrt" -> IF ~r[a].undefined /\ AtMost(Whole(0), r[a].low)
                           THEN Compose("concave", "increasing", c[a]) ELSE "unknown"

Curvature(g, root, box) ==
  LET r == Ranges(g, root, box)
  IN FoldLeft(LAMBDA c, id : [c EXCEPT ![id] = CurvatureOf(g, g.nodes[id], c, r)],
              [k \in 1 .. root |-> "unknown"], Tape(g, root))[root]

\* degree(): -1 for what is no polynomial.
DegreeOf(n, d) ==
  LET kids == [k \in DOMAIN n.children |-> d[n.children[k]]]
      some == {kids[k] : k \in DOMAIN kids}
      Only(flat, otherwise) == IF kids[1] = 0 THEN flat ELSE otherwise
  IN CASE n.op = "constant" -> 0
       [] n.op = "variable" -> 1
       [] n.op = "sum" -> IF -1 \in some THEN -1 ELSE CHOOSE m \in some : \A k \in some : k <= m
       [] n.op = "negate" -> kids[1]
       [] n.op = "product" -> IF -1 \in some THEN -1 ELSE kids[1] + kids[2]
       [] n.op = "divide" -> IF kids[2] = 0 THEN kids[1] ELSE -1
       [] n.op = "power" -> Only(0, IF kids[1] > 0 /\ IsWhole(n.value) /\ n.value[1] >= 0
                                    THEN kids[1] * n.value[1] ELSE -1)
       [] OTHER -> Only(0, -1)

Degree(g, root) ==
  FoldLeft(LAMBDA d, id : [d EXCEPT ![id] = DegreeOf(g.nodes[id], d)],
           [k \in 1 .. root |-> 0], Tape(g, root))[root]

Risky(n, r) ==
  LET a == r[n.children[1]]
  IN CASE n.op = "log" -> AtMost(a.low, Whole(0))
       [] n.op = "sqrt" -> Less(a.low, Whole(0))
       [] n.op = "divide" -> MayBeZero(r[n.children[2]])
       [] n.op = "power" -> ~PowerDefined(n.value, Between(a.low, a.high, FALSE))
       [] OTHER -> FALSE
DomainRisks(g, root, r) == {id \in ToSet(Tape(g, root)) : Risky(g.nodes[id], r)}

\* NonlinearModel::classify() for a linear base with this objective, or this constraint.
ClassWithObjective(g, root) ==
  IF Degree(g, root) \notin 0 .. 2 THEN "NLP" ELSE IF Degree(g, root) = 2 THEN "QP" ELSE "LP"
ClassWithConstraint(g, root) == IF Degree(g, root) \in 0 .. 1 THEN "LP" ELSE "NLP"

\* NonlinearModel::convexity(): what an objective and each side of a constraint need.
Fits(have, wanted) == have \in {"constant", "affine", wanted}
ConvexObjective(g, root, box, maximize) ==
  Fits(Curvature(g, root, box), IF maximize THEN "concave" ELSE "convex")
ConvexConstraint(g, root, box, low, high) ==
  LET Sides(c) == (HasValue(high) => Fits(c, "convex")) /\ (HasValue(low) => Fits(c, "concave"))
  IN Sides(Curvature(g, root, box))

-----------------------------------------------------------------------------
(* The caller.                                                             *)

Build(g, c) ==
  CASE c.op = "constant" -> Constant(g, c.value)
    [] c.op = "variable" -> Variable(g, c.value[1])
    [] c.op = "sum" -> Sum(g, c.args)
    [] c.op = "subtract" -> Subtract(g, c.args[1], c.args[2])
    [] c.op = "product" -> Multiply(g, c.args[1], c.args[2])
    [] c.op = "divide" -> Divide(g, c.args[1], c.args[2])
    [] c.op = "negate" -> Negate(g, c.args[1])
    [] c.op = "power" -> Raise(g, c.args[1], c.value)
    [] OTHER -> Atom(g, c.op, c.args[1])

Asks(op, args, value) == [op |-> op, args |-> args, value |-> value]
Empty == [nodes |-> <<>>, invalid |-> FALSE, id |-> NoExpr]

Root == graph.id

\* A call whose folding would need an irrational constant is not made.
Rational(c) ==
  c.op \in {"power", "exp", "log", "sqrt"} /\ Usable(graph, c.args) /\ IsConstant(graph, c.args[1]) =>
    Apply(c.op, c.value, <<ValueOf(graph, c.args[1])>>).why # "irrational"

\* One call follows the script, which carries the depth of the expressions.
Ask(c) ==
  /\ asked.op = "script" /\ Rational(c)
  /\ asked' = c
  /\ graph' = Build(graph, c)

Ids == DOMAIN graph.nodes
AskNumber == \E v \in Numbers : Ask(Asks("constant", <<>>, v))
AskColumn == \E c \in 1 .. ColumnCount + 1 : Ask(Asks("variable", <<>>, Whole(c)))
AskTwo ==
  \E op \in {"sum", "subtract", "product", "divide"}, a, b \in Ids : Ask(Asks(op, <<a, b>>, Whole(0)))
AskOne == \E op \in {"negate", "exp", "log", "sqrt"}, a \in Ids : Ask(Asks(op, <<a>>, Whole(0)))
AskPower == \E a \in Ids, p \in Exponents : Ask(Asks("power", <<a>>, p))
AskNobody ==  \* a result that was refused, or a node of another graph
  \E op \in {"sum", "subtract", "product", "divide"}, a \in Ids, b \in {NoExpr, Len(graph.nodes) + 1} :
    Ask(Asks(op, <<a, b>>, Whole(0)))

NlpNext == AskNumber \/ AskColumn \/ AskTwo \/ AskOne \/ AskPower \/ AskNobody

NlpInit ==
  /\ graph \in {FoldLeft(Build, Empty, s) : s \in Scripts}
  /\ asked = Asks("script", <<>>, Whole(0))

NlpSpec == NlpInit /\ [][NlpNext]_nlpVars

-----------------------------------------------------------------------------
(* Properties.                                                             *)

Answered == asked.op # "script" /\ Root # NoExpr
Calculates == asked.op \notin {"constant", "variable", "script"} /\ Root # NoExpr

\* What the call means on the values of its operands.
Meaning(v) ==
  IF asked.op = "subtract" THEN Apply("sum", Whole(0), <<v[1], Neg(v[2])>>)
  ELSE Apply(asked.op, asked.value, v)

\* Folding, flattening and sharing keep what the caller wrote: at every point the built node
\* has the value of the operation on its operands' values, and none where one of them or the
\* operation itself has none - a domain error is never folded away.
MeaningKept ==
  LET Agree(meant, r) ==
        meant.why # "irrational" => r.why = meant.why /\ (r.why = "none" => r.v[Root] = meant.value)
      From(f, r) ==
        (\A k \in DOMAIN f : f[k].why # "irrational") =>
          IF \E k \in DOMAIN f : f[k].why = "domain" THEN r.why # "none"
          ELSE Agree(Meaning([k \in DOMAIN f |-> f[k].v[asked.args[k]]]), r)
  IN Calculates =>
       \A x \in Points :
         From([k \in DOMAIN asked.args |-> Forward(graph, asked.args[k], x)] @@ <<>>,
              Forward(graph, Root, x))

\* Second-order chain rule on value, gradient and Hessian.
Jet(value, grad, hess) == [value |-> value, grad |-> grad, hess |-> hess]
NoJet == Jet(NaN, <<>>, <<>>)
JetAt(id, x) ==
  LET Together(value, g, h) == IF g.ok /\ h.ok THEN Jet(value, g.of, h.of) ELSE NoJet
      From(f) == Together(f.v[id], Gradient(graph, id, f), Hessian(graph, id, f))
  IN From(Forward(graph, id, x))

JetSum(u, v) ==
  Jet(Plus(u.value, v.value), [i \in ColumnSet |-> Plus(u.grad[i], v.grad[i])],
      [i, j \in ColumnSet |-> Plus(u.hess[i, j], v.hess[i, j])])
JetProduct(u, v) ==
  Jet(Mul(u.value, v.value),
      [i \in ColumnSet |-> Plus(Mul(u.value, v.grad[i]), Mul(v.value, u.grad[i]))],
      [i, j \in ColumnSet |->
         AddAll(<<Mul(u.value, v.hess[i, j]), Mul(v.value, u.hess[i, j]),
                  Mul(u.grad[i], v.grad[j]), Mul(v.grad[i], u.grad[j])>>)])
JetThrough(u, h) ==
  Jet(h[1], [i \in ColumnSet |-> Mul(h[2], u.grad[i])],
      [i, j \in ColumnSet |-> Plus(Mul(h[2], u.hess[i, j]), Mul(h[3], Mul(u.grad[i], u.grad[j])))])

\* Value, slope and bend at t of what the call does to its last operand alone.
Outer(op, t, p) ==
  LET Monomial(q) ==
        <<Power(t, q), Mul(q, Power(t, Plus(q, Whole(-1)))),
          Mul(Mul(q, Plus(q, Whole(-1))), Power(t, Plus(q, Whole(-2))))>>
  IN CASE op \in {"subtract", "negate"} -> <<Neg(t), Whole(-1), Whole(0)>>
       [] op = "exp" -> [k \in 1 .. 3 |-> ExpAt(t)]
       [] op = "log" -> <<LogAt(t), IntPower(t, -1), Neg(IntPower(t, -2))>>
       [] OTHER -> Monomial(CASE op = "divide" -> Whole(-1) [] op = "sqrt" -> <<1, 2>> [] OTHER -> p)

ChainRule(J) ==
  LET u == J[1]
      last == J[Len(J)]
      With(w) == CASE asked.op \in {"sum", "subtract"} -> JetSum(u, w)
                   [] asked.op \in {"product", "divide"} -> JetProduct(u, w)
                   [] OTHER -> w
  IN With(IF asked.op \in {"sum", "product"} THEN last
          ELSE JetThrough(last, Outer(asked.op, last.value, asked.value)))

HasJet(j) ==
  /\ HasValue(j.value)
  /\ \A i, k \in ColumnSet : HasValue(j.grad[i]) /\ HasValue(j.hess[i, k])

\* The reverse sweep and the forward-over-reverse sweeps, over a graph that shares nodes,
\* give the derivatives the chain rule gives wherever all of them exist.
DerivativesExact ==
  LET Agree(operands, expected, swept) ==
        (\A k \in DOMAIN operands : operands[k] # NoJet) /\ HasJet(expected) => swept = expected
      From(operands, x) == Agree(operands, ChainRule(operands), JetAt(Root, x))
  IN Calculates =>
       \A x \in Points :
         Forward(graph, Root, x).why = "none" =>
           From([k \in DOMAIN asked.args |-> JetAt(asked.args[k], x)] @@ <<>>, x)

\* Both: what the sweeps compute from the graph is what the caller's calls say.
SweepsAreExact == MeaningKept /\ DerivativesExact

InBox(x, box) == \A c \in ColumnSet : AtMost(box[c][1], x[c]) /\ AtMost(x[c], box[c][2])

\* Minors of a Hessian over at most two columns.
PositiveSemidefinite(h) ==
  /\ \A i \in ColumnSet : AtMost(Whole(0), h[i, i])
  /\ \A i, j \in ColumnSet : i # j => AtMost(Mul(h[i, j], h[i, j]), Mul(h[i, i], h[j, j]))
Negated(h) == [i, j \in ColumnSet |-> Neg(h[i, j])]
Flat(h) == \A i, j \in ColumnSet : h[i, j] = Whole(0)

\* A curvature claimed over a box is the sign of the Hessian at every point of it.
CurvatureHolds(c, h) ==
  /\ c = "convex" => PositiveSemidefinite(h)
  /\ c = "concave" => PositiveSemidefinite(Negated(h))
  /\ c \in {"constant", "affine"} => Flat(h)

\* A range holds every value, and what has none somewhere in the box is known to.
RangeHolds(r, risks, f) ==
  /\ f.why = "none" => AtMost(r.low, f.v[Root]) /\ AtMost(f.v[Root], r.high)
  /\ f.why = "domain" => r.undefined /\ risks # {}

\* The degree decides which engines may have a model: a linear one has no bend, a quadratic
\* one the same bend everywhere.
ClassHolds(bends) ==
  /\ ClassWithObjective(graph, Root) = "LP" \/ ClassWithConstraint(graph, Root) = "LP" => \A h \in bends : Flat(h)
  /\ ClassWithObjective(graph, Root) = "QP" => Cardinality(bends) <= 1

\* What is said of an expression over a box is true at its points: curvature, range, domain
\* risks and class, and so the model's own convexity.
CurvatureIsSound ==
  LET At(f) == [f |-> f, h |-> Hessian(graph, Root, f)]
      Said(box, r) ==
        [curvature |-> Curvature(graph, Root, box), range |-> r[Root],
         risks |-> DomainRisks(graph, Root, r),
         convex |-> ConvexObjective(graph, Root, box, FALSE),
         concave |-> ConvexObjective(graph, Root, box, TRUE),
         flat |-> ConvexConstraint(graph, Root, box, Whole(0), Whole(1))]
      Agrees(said, p) ==
        /\ RangeHolds(said.range, said.risks, p.f)
        /\ p.h.ok => /\ CurvatureHolds(said.curvature, p.h.of)
                     /\ said.convex => PositiveSemidefinite(p.h.of)
                     /\ said.concave => PositiveSemidefinite(Negated(p.h.of))
                     /\ said.flat => Flat(p.h.of)
      AllTrue(at) ==
        /\ ClassHolds({at[x].h.of : x \in {y \in Points : at[y].h.ok}})
        /\ \A box \in Boxes :
             LET Throughout(said) == \A x \in {y \in Points : InBox(y, box)} : Agrees(said, at[x])
             IN Throughout(Said(box, Ranges(graph, Root, box)))
  IN Answered => AllTrue([x \in Points |-> At(Forward(graph, Root, x))] @@ <<>>)
=============================================================================
