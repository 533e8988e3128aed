----------------------------- MODULE RiskPolicy -----------------------------
(***************************************************************************)
(* The versioned risk policies, as operators on values: RR-2.0 (the score,  *)
(* its rating and the guardrails), CE-1.1 (control effectiveness), CEG-1.0  *)
(* (the guarded control input), RRR-1.0 (reconciliation), RRA-1.0 (the      *)
(* activation decision) and RAV-1.0 (validity after activation).            *)
(*                                                                         *)
(* The code computes with floats rounded to one decimal.  A score or an     *)
(* effectiveness is an integer number of tenths here, 0..1000; inherent and *)
(* external risk are whole points, 0..100, and a coverage is a percentage.  *)
(***************************************************************************)
EXTENDS Integers, FiniteSets

CONSTANTS Controls,     \* control ids applicable to the assessment
          Inherent,     \* vendors.inherent_risk_score, whole points
          Legacy        \* vendors.control_effectiveness, tenths

ASSUME ControlsAssumption == IsFiniteSet(Controls)
ASSUME InherentAssumption == Inherent \in 0..100
ASSUME LegacyAssumption   == Legacy \in 0..1000

-----------------------------------------------------------------------------
(* Numbers *)

Score  == 0..1000
Points == 0..100

bounded_score(x) == IF x < 0 THEN 0 ELSE IF x > 1000 THEN 1000 ELSE x

\* Python's round(): nearest, ties to the even neighbour.
RoundDiv(n, d) ==
    LET q == n \div d
        r == n % d
    IN  CASE 2 * r < d -> q
          [] 2 * r > d -> q + 1
          [] OTHER     -> q + (q % 2)

-----------------------------------------------------------------------------
(* RR-2.0 *)

Ratings == {"Low", "Moderate", "High", "Critical"}

external_risk_adjustment(external) ==
    CASE external >= 80 -> 20
      [] external >= 65 /\ external < 80 -> 10
      [] external >= 50 /\ external < 65 -> 5
      [] external >= 20 /\ external < 50 -> 0
      [] OTHER -> -5

calculate_residual_risk(effectiveness, external) ==
    bounded_score(
        RoundDiv(60 * Inherent + 4 * (1000 - effectiveness)
                   + 100 * external_risk_adjustment(external), 10))

rating_from_score(score) ==
    CASE score >= 750 -> "Critical"
      [] score >= 500 /\ score < 750 -> "High"
      [] score >= 250 /\ score < 500 -> "Moderate"
      [] OTHER -> "Low"

rating_rank(rating) ==
    CASE rating = "Low" -> 0
      [] rating = "Moderate" -> 1
      [] rating = "High" -> 2
      [] OTHER -> 3

max_rating(current, minimum) ==
    IF rating_rank(minimum) > rating_rank(current) THEN minimum ELSE current

\* The guardrails of the context the Vendors page builds; it leaves
\* privileged_access_without_mfa and risk_acceptance_expired at their default.
Guardrails ==
    {"ACTIVE_CRITICAL_SECURITY_INCIDENT", "UNRESOLVED_CRITICAL_FINDING",
     "REQUIRED_EVIDENCE_EXPIRED", "ASSESSMENT_INCOMPLETE"}

\* The guardrails that ask for escalation and raise the rating.
Escalating ==
    {"ACTIVE_CRITICAL_SECURITY_INCIDENT", "UNRESOLVED_CRITICAL_FINDING"}

evaluate_residual_risk(effectiveness, external, triggered) ==
    LET score == calculate_residual_risk(effectiveness, external)
        rated == rating_from_score(score)
    IN  [score      |-> score,
         rating     |-> IF "ACTIVE_CRITICAL_SECURITY_INCIDENT" \in triggered
                        THEN "Critical"
                        ELSE IF "UNRESOLVED_CRITICAL_FINDING" \in triggered
                             THEN max_rating(rated, "High")
                             ELSE rated,
         blocked    |-> triggered # {},
         escalation |-> triggered \cap Escalating # {}]

-----------------------------------------------------------------------------
(* CE-1.1 and CEG-1.0 *)

Dispositions ==
    {"Satisfied", "Partially Satisfied", "Not Satisfied",
     "Not Applicable", "Compensating Control"}

\* No claim-backed, human-confirmed disposition of the control.
Undecided == "Undecided"

\* effectiveness_score is None in the code when nothing is scored.
Unavailable == -1

Decided(dispositions, which) == {c \in Controls : dispositions[c] = which}

evaluate_control_effectiveness(dispositions) ==
    LET Count(which) == Cardinality(Decided(dispositions, which))
        scored       == Count("Satisfied") + Count("Compensating Control")
                          + Count("Partially Satisfied") + Count("Not Satisfied")
        weight       == 100 * Count("Satisfied")
                          + 75 * Count("Compensating Control")
                          + 60 * Count("Partially Satisfied")
        relevant     == Cardinality(Controls) - Count("Not Applicable")
        coverage     == IF relevant > 0 THEN RoundDiv(100 * scored, relevant)
                                        ELSE 100
        score        == IF scored > 0 THEN RoundDiv(10 * weight, scored)
                                      ELSE Unavailable
    IN  [score    |-> score,
         coverage |-> coverage,
         status   |-> CASE score = Unavailable -> "Insufficient Decisions"
                        [] score # Unavailable /\ coverage < 50 -> "Provisional"
                        [] score # Unavailable /\ coverage \in 50..99
                             -> "Partially Governed"
                        [] OTHER -> "Governed"]

Modes == {"Legacy", "Coverage Guardrail", "Blended", "Governed"}

select_control_effectiveness_input(effectiveness) ==
    CASE effectiveness.score = Unavailable ->
           [mode |-> "Legacy", input |-> Legacy]
      [] effectiveness.score # Unavailable /\ effectiveness.coverage < 50 ->
           [mode |-> "Coverage Guardrail", input |-> Legacy]
      [] effectiveness.score # Unavailable /\ effectiveness.coverage \in 50..79 ->
           [mode |-> "Blended", input |-> RoundDiv(effectiveness.score + Legacy, 2)]
      [] OTHER ->
           [mode |-> "Governed", input |-> bounded_score(effectiveness.score)]

-----------------------------------------------------------------------------
(* RRR-1.0 and RRA-1.0 *)

BlockingReasons ==
    Guardrails \cup {"GOVERNED_COVERAGE_INSUFFICIENT", "RR2_APPROVAL_BLOCKED",
                     "RR2_ESCALATION_REQUIRED"}

reconcile_residual_risk(stored, external, guarded) ==
    [stored   |-> bounded_score(stored),
     baseline |-> calculate_residual_risk(Legacy, external),
     proposed |-> calculate_residual_risk(bounded_score(guarded.input), external),
     mode     |-> guarded.mode]

\* inputs_traceable is TRUE in the one call the application makes.
evaluate_residual_risk_activation(reconciliation, decision, triggered) ==
    LET blocking ==
          (IF reconciliation.mode # "Governed"
             THEN {"GOVERNED_COVERAGE_INSUFFICIENT"} ELSE {})
          \cup (IF decision.blocked THEN {"RR2_APPROVAL_BLOCKED"} ELSE {})
          \cup (IF decision.escalation THEN {"RR2_ESCALATION_REQUIRED"} ELSE {})
          \cup triggered
    IN  [stored   |-> reconciliation.stored,
         proposed |-> reconciliation.proposed,
         rating   |-> decision.rating,
         mode     |-> reconciliation.mode,
         blocking |-> blocking]

-----------------------------------------------------------------------------
(* RAV-1.0 *)

ControlReasons ==
    {"GOVERNED_EFFECTIVENESS_UNAVAILABLE",
     "GOVERNED_DECISION_COVERAGE_BELOW_THRESHOLD",
     "CONTROL_EFFECTIVENESS_NOT_GOVERNED"}

ValidityReasons ==
    ControlReasons \cup
    {"AUTHORITATIVE_RISK_CHANGED_AFTER_ACTIVATION", "ASSESSMENT_NOT_COMPLETE",
     "POLICY_VERSION_OUTDATED"}

control_reasons(effectiveness) ==
    (IF effectiveness.score = Unavailable
       THEN {"GOVERNED_EFFECTIVENESS_UNAVAILABLE"} ELSE {})
    \cup (IF effectiveness.coverage < 80
            THEN {"GOVERNED_DECISION_COVERAGE_BELOW_THRESHOLD"} ELSE {})
    \cup (IF effectiveness.status # "Governed"
            THEN {"CONTROL_EFFECTIVENESS_NOT_GOVERNED"} ELSE {})

evaluate_residual_risk_activation_validity(activated, current, effectiveness, complete, lineageCurrent) ==
    (IF bounded_score(current) # activated
       THEN {"AUTHORITATIVE_RISK_CHANGED_AFTER_ACTIVATION"} ELSE {})
    \cup control_reasons(effectiveness)
    \cup (IF complete THEN {} ELSE {"ASSESSMENT_NOT_COMPLETE"})
    \cup (IF lineageCurrent THEN {} ELSE {"POLICY_VERSION_OUTDATED"})

\* Mutant: an incomplete assessment hides a challenged score.
status_by_assessment(reasons) ==
    CASE "ASSESSMENT_NOT_COMPLETE" \in reasons -> "Revalidation Required"
      [] reasons = {} -> "Valid"
      [] OTHER -> "Challenged"

validity_status(reasons) ==
    CASE "AUTHORITATIVE_RISK_CHANGED_AFTER_ACTIVATION" \in reasons -> "Challenged"
      [] reasons = {} -> "Valid"
      [] OTHER -> "Revalidation Required"
=============================================================================
