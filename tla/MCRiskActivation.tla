-------------------------- MODULE MCRiskActivation --------------------------
(* Instances of RiskActivation for TLC. *)
EXTENDS RiskActivation, TLC

CONSTANTS u1, u2, a1, a2, c1

\* One session: a risk manager reviews, executes, records events.
OneRole == [u \in Users |-> "Risk Manager"]

\* Two sessions: an analyst who reviews, and a risk manager who does all.
TwoRoles == [u \in Users |-> IF u = u1 THEN "Risk Manager" ELSE "Analyst"]

\* Two sessions that may both execute.
TwoManagers == [u \in Users |-> "Risk Manager"]

=============================================================================
