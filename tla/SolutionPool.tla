---------------------------- MODULE SolutionPool ----------------------------
(***************************************************************************)
(* The solution pool (src/mip/solution_pool.cpp): the distinct integer     *)
(* assignments the search has met, best first, at most `capacity` of them. *)
(* An entry is an assignment (its key) and an objective in minimise space; *)
(* an assignment may be offered again with a better objective, because its *)
(* continuous columns are not part of the key.                             *)
(***************************************************************************)
EXTENDS Integers, SequencesExt, FiniteSetsExt

CONSTANT NoCutoff  \* infinity: above every objective

\* hamming(): how many integer columns differ.
Distance(x, y) == Cardinality({j \in DOMAIN x : x[j] # y[j]})

Nearest(pool, k) ==
  Min({Distance(pool[k].x, pool[i].x) : i \in DOMAIN pool \ {k}})

\* The least varied member but the best; on a tie the worse objective.
Victim(pool, diversity) ==
  IF ~diversity \/ Len(pool) < 3 THEN Len(pool)
  ELSE LET others == 2 .. Len(pool)
           least == Min({Nearest(pool, k) : k \in others})
       IN  Max({k \in others : Nearest(pool, k) = least})

EvictOne(pool, diversity) == RemoveAt(pool, Victim(pool, diversity))

Holders(pool, x) == {k \in DOMAIN pool : pool[k].x = x}

\* upper_bound(): an equal objective lands behind the members that already have it.
Insert(pool, e) ==
  InsertAt(pool, 1 + Cardinality({k \in DOMAIN pool : pool[k].obj <= e.obj}), e)

\* The pool without the member of the same assignment, if there is one.
Without(pool, x) ==
  IF Holders(pool, x) = {} THEN pool ELSE RemoveAt(pool, CHOOSE k \in Holders(pool, x) : TRUE)

\* offer(): one entry per assignment, the better of the two.
Offer(pool, e, capacity, diversity) ==
  LET grown == Insert(Without(pool, e.x), e)
  IN  IF capacity = 0 \/ \E k \in Holders(pool, e.x) : pool[k].obj <= e.obj THEN pool
      ELSE IF Len(grown) > capacity THEN EvictOne(grown, diversity) ELSE grown

\* cutoff(): only a full pool of the best bounds the search.
Cutoff(pool, capacity, diversity) ==
  IF diversity \/ capacity = 0 \/ Len(pool) < capacity THEN NoCutoff ELSE Last(pool).obj

\* A turn of finish()'s loop: a member joins while there is room, if it is not the
\* incumbent again and is within the gap of it.
Join(out, m, capacity, limit) ==
  IF Len(out) < capacity /\ m.x # out[1].x /\ m.obj <= limit THEN Append(out, m) ELSE out

\* finish(): the incumbent leads, then the best members within the gap of it.
Finish(pool, inc, capacity, limit) ==
  IF capacity = 0 THEN <<>>
  ELSE FoldLeft(LAMBDA out, m : Join(out, m, capacity, limit), <<inc>>, pool)
==============================================================================
