------------------------- MODULE MCTargetedReview -------------------------
(* Instances of TargetedReview for TLC. *)
EXTENDS TargetedReview, FiniteSets, TLC

CONSTANTS t1, t2

\* T3, confidential data and production access make 4 points: enough exposure
\* for a change of the service to be reviewed.
Exposed ==
    [tier |-> "T3", criticality |-> "Moderate", data |-> "Confidential",
     production_access |-> TRUE, privileged_access |-> FALSE, ai_enabled |-> FALSE]

Changes == [e \in EventIds |-> [type |-> "Material vendor change", severity |-> 3]]

Narrow == {[request |-> {"Architecture evidence"}, reuse |-> {}]}

\* A diagram with exceptions, one without, and the rest, which runs out.
Diagram(flawed) ==
    [matches |-> {"Architecture evidence"}, expires |-> {}, exceptions |-> flawed,
     confident |-> TRUE]
Rest(day) ==
    [matches |-> {"Assurance report", "Security Policy"}, expires |-> {day},
     exceptions |-> FALSE, confident |-> TRUE]
Documents1 == {Diagram(FALSE), Diagram(TRUE), Rest(0)}

\* Two events and two assessments, or one of each with packages and evidence:
\* a decision reads no package, and a package belongs to one assessment.
Slices ==
    \/ Cardinality(DOMAIN events) <= 1 /\ Len(assessments) <= 1
    \/ packages = <<>> /\ evidence = <<>> /\ today = 0

Symmetry == Permutations(Tabs)
=============================================================================
