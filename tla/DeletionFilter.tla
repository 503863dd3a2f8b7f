--------------------------- MODULE DeletionFilter ---------------------------
(***************************************************************************)
(* compute_iis(): from an infeasible answer and its certificate to an      *)
(* irreducible infeasible subsystem.  Everything the certificate does not  *)
(* rest on is freed; then each row, each lower and each upper bound left   *)
(* is freed once, the rest solved, and dropped for good if the rest is     *)
(* still infeasible.  A feasible trial's point is the witness that its     *)
(* element is needed.  A last solve certifies what is left.                *)
(*                                                                         *)
(* An element is what it allows: the set of the points that satisfy it.    *)
(* A row's two sides are one element, freed together.                      *)
(***************************************************************************)
EXTENDS Naturals, Sequences

CONSTANTS
  Spots,    \* values the columns may take together
  Systems   \* rows, then lower bounds, then upper bounds, by the spots they allow

ASSUME IisAssumption == \A s \in Systems : \A k \in DOMAIN s : s[k] \subseteq Spots

VARIABLES
  system,     \* the model's rows and bounds
  iisPhase,   \* "deleting", "certifying" or "reported"
  active,     \* row_in, col_lo_in, col_hi_in: what `sub` still holds
  untried,    \* candidates whose trial is still to come
  witness,    \* row_witness, lo_witness, hi_witness, each a set of at most one spot
  doubt,      \* inconclusive
  support     \* what solution->farkas_dual rests on

iisVars == <<system, iisPhase, active, untried, witness, doubt, support>>

Allowed(S) == {x \in Spots : \A k \in S : x \in system[k]}

\* A Farkas vector re-proved against the model: what it rests on cannot hold together.
Proves(S) == Allowed(S) = {}

\* The candidates of the certificate, which was verified before this is called.
IisInit ==
  /\ system \in Systems
  /\ \E S \in SUBSET DOMAIN system : Proves(S) /\ support = S
  /\ active = support /\ untried = support
  /\ iisPhase = "deleting" /\ doubt = FALSE
  /\ witness = [k \in DOMAIN system |-> {}]

\* What solve() may answer on the elements S: a limit may end any solve, with or without a
\* point it calls its own (claims_a_point()), wherever that point is.
Verdicts(S) ==
  {[status |-> "limit", point |-> p] : p \in {{}} \cup {{x} : x \in Spots}} \cup
  (IF Proves(S) THEN {[status |-> "infeasible", point |-> {}]}
   ELSE {[status |-> "feasible", point |-> {x}] : x \in Allowed(S)})

\* Mutant: each trial is run on all the candidates but one.
WithoutFromAll(k) == support \ {k}

\* The trial's system: what is left by now, without k.
Without(k) == active \ {k}

\* Rows first, then lower bounds, then upper bounds, each in index order.
Trial ==
  /\ iisPhase = "deleting"
  /\ \E k \in untried :
       /\ \A j \in untried : k <= j
       /\ untried' = untried \ {k}
       /\ \E v \in Verdicts(Without(k)) :
            IF v.status = "infeasible"
              THEN active' = active \ {k} /\ UNCHANGED <<witness, doubt>>
              ELSE /\ witness' = [witness EXCEPT ![k] = v.point]
                   /\ doubt' = (doubt \/ v.status = "limit")
                   /\ active' = active
  /\ UNCHANGED <<system, iisPhase, support>>

\* The last solve, of exactly what is left: its certificate replaces the model's, or doubt
\* stays on the report.
Certify ==
  /\ iisPhase = "deleting" /\ untried = {}
  /\ iisPhase' = "certifying"
  /\ \E v \in Verdicts(active), S \in SUBSET active :
       IF v.status = "infeasible" /\ Proves(S)
         THEN support' = S /\ doubt' = doubt
         ELSE support' = support /\ doubt' = TRUE
  /\ UNCHANGED <<system, active, untried, witness>>

\* Witnesses are claimed for every element or for none.
Report ==
  /\ iisPhase = "certifying"
  /\ iisPhase' = "reported"
  /\ LET missing == \E k \in active : witness[k] = {}
     IN /\ doubt' = (doubt \/ missing)
        /\ witness' = IF doubt' THEN [k \in DOMAIN system |-> {}] ELSE witness
  /\ UNCHANGED <<system, active, untried, support>>

IisNext == Trial \/ Certify \/ Report
IisSpec == IisInit /\ [][IisNext]_iisVars

\* What is reported is infeasible, and so is what its certificate rests on, whatever limits
\* cut trials short; reported without doubt it is irreducible - each element left out leaves
\* a feasible rest, which its witness satisfies - and certified from within ("it lets the
\* verifier check irreducibility with arithmetic alone", compute_iis()).
IisIsIrreducible ==
  iisPhase = "reported" =>
    /\ Proves(active) /\ Proves(support)
    /\ ~doubt => /\ support \subseteq active
                 /\ \A k \in active : witness[k] # {} /\ witness[k] \subseteq Allowed(active \ {k})
    /\ doubt => \A k \in active : witness[k] = {}
=============================================================================
