------------------------ MODULE MCControlGovernance ------------------------
(* Instances of ControlGovernance for TLC. *)
EXTENDS ControlGovernance, TLC

CONSTANTS u1, u2, c1, c2

Analysts == [u \in Users |-> "Analyst"]

\* A report on c1 that expires on day 1, and one on both,
\* of which c2 by an exception it names.
Report == [controls |-> {c1}, exceptions |-> {}, flawed |-> FALSE,
           confident |-> TRUE, expires |-> {1}]
Flawed == [controls |-> {c1}, exceptions |-> {c2}, flawed |-> TRUE,
           confident |-> TRUE, expires |-> {}]
BothDocuments == {Report, Flawed}
ReportOnly == <<Report>>

Clean == [n \in FactNames |-> IF n = "exception_present" THEN "No" ELSE "Yes"]
SomeAnswers ==
    {Clean, [Clean EXCEPT !.covered = "No"], [Clean EXCEPT !.tested = "No"],
     [Clean EXCEPT !.service_matches = "Not confirmed"]}

OldDecision == {[control |-> c1, evidence |-> {1}]}

Symmetry == Permutations(Users)
=============================================================================
