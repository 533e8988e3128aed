----------------------- MODULE RiskActivation_proofs -----------------------
(***************************************************************************)
(* Proofs about RiskActivation, for every set of users, assessments and     *)
(* controls and every bound.                                                *)
(***************************************************************************)
EXTENDS RiskActivation, TLAPS, FiniteSetTheorems, WellFoundedInduction

-----------------------------------------------------------------------------
(* The policies *)

LEMMA RoundDivType ==
    ASSUME NEW n \in Int, NEW d \in Int, d > 0
    PROVE  RoundDiv(n, d) \in Int
<1>1. n \div d \in Int /\ n % d \in Int
  OBVIOUS
<1>2. (n \div d) % 2 \in Int
  BY <1>1
<1> QED
  BY <1>1, <1>2 DEF RoundDiv

LEMMA BoundedScoreType ==
    ASSUME NEW x \in Int
    PROVE  bounded_score(x) \in Score
BY DEF bounded_score, Score

LEMMA RatingType ==
    ASSUME NEW x \in Int
    PROVE  rating_from_score(x) \in Ratings
BY DEF rating_from_score, Ratings

LEMMA ResidualType ==
    ASSUME NEW effectiveness \in Int, NEW external \in Int
    PROVE  calculate_residual_risk(effectiveness, external) \in Score
<1>1. external_risk_adjustment(external) \in Int
  BY DEF external_risk_adjustment
<1>2. 60 * Inherent + 4 * (1000 - effectiveness)
        + 100 * external_risk_adjustment(external) \in Int
  BY <1>1, InherentAssumption
<1> QED
  BY <1>2, RoundDivType, BoundedScoreType DEF calculate_residual_risk

\* What is counted in control effectiveness is a number.
LEMMA EffectivenessType ==
    ASSUME NEW decided \in [Controls -> Dispositions \cup {Undecided}]
    PROVE  /\ evaluate_control_effectiveness(decided).score \in Int
           /\ evaluate_control_effectiveness(decided).coverage \in Int
<1> DEFINE Sat  == Cardinality(Decided(decided, "Satisfied"))
           Comp == Cardinality(Decided(decided, "Compensating Control"))
           Part == Cardinality(Decided(decided, "Partially Satisfied"))
           Not  == Cardinality(Decided(decided, "Not Satisfied"))
           NA   == Cardinality(Decided(decided, "Not Applicable"))
           scored   == Sat + Comp + Part + Not
           weight   == 100 * Sat + 75 * Comp + 60 * Part
           relevant == Cardinality(Controls) - NA
<1>1. \A which : Cardinality(Decided(decided, which)) \in Nat
  <2> SUFFICES ASSUME NEW which PROVE Cardinality(Decided(decided, which)) \in Nat
    OBVIOUS
  <2>1. Decided(decided, which) \subseteq Controls
    BY DEF Decided
  <2>2. IsFiniteSet(Decided(decided, which))
    BY <2>1, ControlsAssumption, FS_Subset
  <2> QED
    BY <2>2, FS_CardinalityType
<1>2. Cardinality(Controls) \in Nat
  BY ControlsAssumption, FS_CardinalityType
<1>3. scored \in Nat /\ weight \in Nat /\ relevant \in Int
  <2>1. Sat \in Nat /\ Comp \in Nat /\ Part \in Nat /\ Not \in Nat /\ NA \in Nat
    BY <1>1
  <2> HIDE DEF Sat, Comp, Part, Not, NA
  <2> QED
    BY <2>1, <1>2
<1> HIDE DEF scored, weight, relevant
<1> DEFINE coverage == IF relevant > 0 THEN RoundDiv(100 * scored, relevant) ELSE 100
           score == IF scored > 0 THEN RoundDiv(10 * weight, scored) ELSE Unavailable
<1>4. coverage \in Int
  BY <1>3, RoundDivType
<1>5. score \in Int
  BY <1>3, RoundDivType DEF Unavailable
<1>6. /\ evaluate_control_effectiveness(decided).score = score
      /\ evaluate_control_effectiveness(decided).coverage = coverage
  BY DEF evaluate_control_effectiveness, scored, weight, relevant
<1> QED
  BY <1>4, <1>5, <1>6

LEMMA GuardedType ==
    ASSUME NEW effectiveness, effectiveness.score \in Int,
           effectiveness.coverage \in Int
    PROVE  /\ select_control_effectiveness_input(effectiveness).mode \in Modes
           /\ select_control_effectiveness_input(effectiveness).input \in Int
           /\ select_control_effectiveness_input(effectiveness).mode = "Governed"
                => select_control_effectiveness_input(effectiveness).input \in Score
<1>1. RoundDiv(effectiveness.score + Legacy, 2) \in Int
  BY RoundDivType, LegacyAssumption
<1>2. bounded_score(effectiveness.score) \in Score
  BY BoundedScoreType
<1> QED
  BY <1>1, <1>2, LegacyAssumption
  DEF select_control_effectiveness_input, Modes, Score, Unavailable

\* What RRA-1.0 returns is a decision; unblocked, it is governed and its rating
\* is the rating of the score it proposes.
LEMMA DecisionType ==
    ASSUME TypeOK, NEW a \in Assessments, NEW row \in Vendors
    PROVE  LET d == activation_decision(a, row)
           IN  /\ d \in Decisions
               /\ d.blocking = {} => /\ d.mode = "Governed"
                                     /\ d.rating = rating_from_score(d.proposed)
<1> DEFINE effectiveness == evaluate_control_effectiveness(dispositions[a])
           guarded == select_control_effectiveness_input(effectiveness)
           recon == reconcile_residual_risk(row.residual, row.external, guarded)
           triggered == triggered_guardrails(a)
           decision == evaluate_residual_risk(guarded.input, row.external, triggered)
           d == activation_decision(a, row)
<1>1. effectiveness.score \in Int /\ effectiveness.coverage \in Int
  BY EffectivenessType DEF TypeOK
<1>2. guarded.mode \in Modes /\ guarded.input \in Int
        /\ (guarded.mode = "Governed" => guarded.input \in Score)
  BY <1>1, GuardedType
<1>3. row.residual \in Int /\ row.external \in Int
  BY DEF Vendors, Score, Points
<1> HIDE DEF effectiveness, guarded
<1>4. /\ recon.stored \in Score /\ recon.proposed \in Score
      /\ recon.mode = guarded.mode
      /\ recon.proposed = calculate_residual_risk(bounded_score(guarded.input), row.external)
  <2>1. bounded_score(row.residual) \in Score
    BY <1>3, BoundedScoreType
  <2>2. bounded_score(guarded.input) \in Int
    BY <1>2, BoundedScoreType DEF Score
  <2>3. calculate_residual_risk(bounded_score(guarded.input), row.external) \in Score
    BY <2>2, <1>3, ResidualType
  <2> QED
    BY <2>1, <2>3 DEF reconcile_residual_risk
<1>5. triggered \subseteq Guardrails
  BY ConditionsAssumption DEF TypeOK, triggered_guardrails, Guardrails
<1> HIDE DEF recon, triggered
<1>6. /\ decision.rating \in Ratings
      /\ decision.blocked <=> triggered # {}
      /\ triggered = {} =>
           decision.rating =
             rating_from_score(calculate_residual_risk(guarded.input, row.external))
  <2>1. calculate_residual_risk(guarded.input, row.external) \in Int
    <3>1. calculate_residual_risk(guarded.input, row.external) \in Score
      BY <1>2, <1>3, ResidualType
    <3> QED
      BY <3>1 DEF Score
  <2>2. rating_from_score(calculate_residual_risk(guarded.input, row.external)) \in Ratings
    BY <2>1, RatingType
  <2> QED
    BY <2>2 DEF evaluate_residual_risk, max_rating, Ratings
<1> HIDE DEF decision
<1>7. d = [stored   |-> recon.stored,
           proposed |-> recon.proposed,
           rating   |-> decision.rating,
           mode     |-> recon.mode,
           blocking |->
             (IF recon.mode # "Governed"
                THEN {"GOVERNED_COVERAGE_INSUFFICIENT"} ELSE {})
             \cup (IF decision.blocked THEN {"RR2_APPROVAL_BLOCKED"} ELSE {})
             \cup (IF decision.escalation THEN {"RR2_ESCALATION_REQUIRED"} ELSE {})
             \cup triggered]
  BY DEF activation_decision, evaluate_residual_risk_activation, recon, decision,
         guarded, effectiveness, triggered
<1>8. d \in Decisions
  <2>1. d.blocking \subseteq BlockingReasons
    BY <1>5, <1>7 DEF BlockingReasons
  <2> QED
    BY <2>1, <1>2, <1>4, <1>6, <1>7 DEF Decisions
<1>9. ASSUME d.blocking = {}
      PROVE  d.mode = "Governed" /\ d.rating = rating_from_score(d.proposed)
  <2>1. recon.mode = "Governed" /\ triggered = {}
    BY <1>7, <1>9
  <2>2. guarded.input \in Score
    BY <2>1, <1>2, <1>4
  <2>3. bounded_score(guarded.input) = guarded.input
    BY <2>2 DEF bounded_score, Score
  <2> QED
    BY <2>1, <2>3, <1>4, <1>6, <1>7
<1> QED
  BY <1>8, <1>9

LEMMA ScoredVendorType ==
    ASSUME NEW external \in Points
    PROVE  scored_vendor(external) \in Vendors
<1>1. external \in Int
  BY DEF Points
<1>2. calculate_residual_risk(Legacy, external) \in Score
  BY <1>1, LegacyAssumption, ResidualType
<1>3. rating_from_score(calculate_residual_risk(Legacy, external)) \in Ratings
  BY <1>2, RatingType DEF Score
<1> QED
  BY <1>2, <1>3 DEF scored_vendor, Vendors

LEMMA UpdateType ==
    ASSUME TypeOK, NEW cached \in Vendors, NEW written \in Vendors
    PROVE  update_vendor(cached, written) \in Vendors
BY DEF TypeOK, Vendors, update_vendor

\* The trigger RAV-1.0 reports is "Challenged" exactly when the score moved.
LEMMA ValidityType ==
    ASSUME TypeOK, NEW e \in DOMAIN executions, NEW residual \in Score,
           validity_reasons(e, residual) # {}
    PROVE  /\ validity_reasons(e, residual) \subseteq ValidityReasons
           /\ validity_status(validity_reasons(e, residual))
                \in {"Challenged", "Revalidation Required"}
           /\ validity_status(validity_reasons(e, residual)) = "Challenged"
                <=> residual # executions[e].activated
<1> DEFINE reasons == validity_reasons(e, residual)
           effectiveness == evaluate_control_effectiveness(
                               dispositions[executions[e].assessment])
<1>1. bounded_score(residual) = residual
  BY DEF bounded_score, Score
<1>2. control_reasons(effectiveness) \subseteq ControlReasons
  BY DEF control_reasons, ControlReasons
<1> HIDE DEF effectiveness
<1>3. reasons = (IF residual # executions[e].activated
                   THEN {"AUTHORITATIVE_RISK_CHANGED_AFTER_ACTIVATION"} ELSE {})
                \cup control_reasons(effectiveness)
                \cup (IF complete[executions[e].assessment]
                        THEN {} ELSE {"ASSESSMENT_NOT_COMPLETE"})
                \cup (IF executions[e].lineage = deployed
                        THEN {} ELSE {"POLICY_VERSION_OUTDATED"})
  BY <1>1 DEF validity_reasons, evaluate_residual_risk_activation_validity,
              effectiveness
<1>4. reasons \subseteq ValidityReasons
  BY <1>2, <1>3 DEF ValidityReasons
<1>5. "AUTHORITATIVE_RISK_CHANGED_AFTER_ACTIVATION" \in reasons
        <=> residual # executions[e].activated
  BY <1>2, <1>3 DEF ControlReasons
<1> HIDE DEF reasons
<1>6. /\ validity_status(reasons) \in {"Challenged", "Revalidation Required"}
      /\ validity_status(reasons) = "Challenged"
           <=> "AUTHORITATIVE_RISK_CHANGED_AFTER_ACTIVATION" \in reasons
  <2>1. reasons # {}
    BY DEF reasons
  <2> QED
    BY <2>1 DEF validity_status
<1> QED
  BY <1>4, <1>5, <1>6 DEF reasons

LEMMA LatestType ==
    ASSUME TypeOK, NEW a \in Assessments, ExecutionsOf(a) # {}
    PROVE  /\ latest_execution(a) \in ExecutionsOf(a)
           /\ \A f \in ExecutionsOf(a) : f <= latest_execution(a)
<1>1. ExecutionsOf(a) \subseteq 1..Len(executions) /\ Len(executions) \in Nat
  BY DEF ExecutionsOf, TypeOK
<1> DEFINE Ages == {Len(executions) - e : e \in ExecutionsOf(a)}
<1>2. Ages \subseteq Nat /\ Ages # {}
  BY <1>1
<1>3. PICK age \in Ages : \A b \in Ages : age <= b
  <2>1. IsWellFoundedOn(OpToRel(<, Nat), Nat)
    BY NatLessThanWellFounded
  <2>2. PICK age \in Ages : \A b \in Ages : ~ (<<b, age>> \in OpToRel(<, Nat))
    BY <1>2, <2>1, WFMin
  <2>3. ASSUME NEW b \in Ages PROVE age <= b
    <3>1. age \in Nat /\ b \in Nat
      BY <1>2
    <3>2. ~ (b < age)
      BY <3>1, <2>2 DEF OpToRel
    <3> HIDE DEF Ages
    <3> QED
      BY <3>1, <3>2
  <2> HIDE DEF Ages
  <2> QED
    BY <2>3
<1>4. PICK e \in ExecutionsOf(a) : age = Len(executions) - e
  OBVIOUS
<1>5. ASSUME NEW f \in ExecutionsOf(a) PROVE f <= e
  <2>1. age <= Len(executions) - f
    BY <1>3
  <2> QED
    BY <2>1, <1>1, <1>4
<1> QED
  BY <1>5 DEF latest_execution

-----------------------------------------------------------------------------
(* Type correctness *)

LEMMA TypeInit == Init => TypeOK
<1> SUFFICES ASSUME Init PROVE TypeOK
  OBVIOUS
<1>1. vendor \in Vendors
  BY InitialExternalAssumption, ScoredVendorType DEF Init
<1>2. run \in [Users -> Runs]
  BY DEF Init, Runs
<1> QED
  BY <1>1, <1>2 DEF Init, TypeOK

\* TypeOK is not inductive by itself: an execution in flight names a review of
\* the log.
RunsInLog ==
    \A u \in Users : run[u].step = "checked" => run[u].review \in DOMAIN reviews

LEMMA RunsInLogStep == TypeOK /\ RunsInLog /\ [Next]_vars => RunsInLog'
<1> SUFFICES ASSUME TypeOK, RunsInLog, [Next]_vars PROVE RunsInLog'
  OBVIOUS
<1>1. \A r \in DOMAIN reviews : r \in DOMAIN reviews'
  <2>1. reviews' = reviews \/ \E r : reviews' = Append(reviews, r)
    BY DEF Next, PageRun, Elsewhere, vars, records, start_run, render,
           evaluate_activation, save_residual_risk_activation_review,
           check_activation, execute_residual_risk_activation,
           build_revalidation_case_snapshot, open_revalidation_case,
           monitoring_create, rollback, save_control_disposition,
           update_assessment, change_condition, close_incident, redeploy
  <2> QED
    BY <2>1 DEF TypeOK
<1> DEFINE Safe(u) == run'[u].step = "checked" => \/ run'[u] = run[u]
                                              \/ run'[u].review \in DOMAIN reviews
<1>2. ASSUME NEW u \in Users, NEW v \in Users, run' = [run EXCEPT ![v] = Idle]
      PROVE  Safe(u)
  BY <1>2 DEF Idle, TypeOK
<1>3. ASSUME NEW u \in Users, NEW v \in Users, PageRun(v) PROVE Safe(u)
  <2>1. CASE start_run(v)
    BY <2>1 DEF start_run, TypeOK
  <2>2. ASSUME NEW a \in Assessments, render(v, a) PROVE Safe(u)
    BY <2>2, <1>2 DEF render
  <2>3. ASSUME NEW a \in Assessments, evaluate_activation(v, a) PROVE Safe(u)
    BY <2>3 DEF evaluate_activation, TypeOK
  <2>4. ASSUME NEW a \in Assessments, build_revalidation_case_snapshot(v, a)
        PROVE  Safe(u)
    BY <2>4 DEF build_revalidation_case_snapshot, TypeOK
  <2>5. ASSUME NEW approved \in BOOLEAN, save_residual_risk_activation_review(v, approved)
        PROVE  Safe(u)
    BY <2>5, <1>2 DEF save_residual_risk_activation_review
  <2>6. ASSUME NEW r \in DOMAIN reviews, check_activation(v, r) PROVE Safe(u)
    BY <2>6 DEF check_activation, TypeOK
  <2>7. CASE execute_residual_risk_activation(v)
    BY <2>7, <1>2 DEF execute_residual_risk_activation
  <2>8. CASE open_revalidation_case(v)
    BY <2>8, <1>2 DEF open_revalidation_case
  <2>9. ASSUME NEW severity \in Severities, monitoring_create(v, severity)
        PROVE  Safe(u)
    BY <2>9, <1>2 DEF monitoring_create
  <2>10. CASE rollback(v)
    BY <2>10, <1>2 DEF rollback
  <2> HIDE DEF Safe
  <2> QED
    BY <1>3, <2>1, <2>2, <2>3, <2>4, <2>5, <2>6, <2>7, <2>8, <2>9, <2>10 DEF PageRun
<1>4. ASSUME NEW u \in Users, Elsewhere PROVE Safe(u)
  BY <1>4 DEF Elsewhere, save_control_disposition, update_assessment,
              change_condition, close_incident, redeploy, Idle
<1>5. ASSUME NEW u \in Users, UNCHANGED vars PROVE Safe(u)
  BY <1>5 DEF vars
<1>6. \A u \in Users : Safe(u)
  BY <1>3, <1>4, <1>5 DEF Next
<1> QED
  BY <1>1, <1>6 DEF RunsInLog

\* What each step of a run carries.
LEMMA RunShape ==
    ASSUME TypeOK, NEW u \in Users
    PROVE  /\ run[u].step = "started" => run[u].vendor \in Vendors
           /\ run[u].step = "decided" =>
                run[u].assessment \in Assessments /\ run[u].decision \in Decisions
           /\ run[u].step = "checked" =>
                run[u].vendor \in Vendors /\ run[u].review \in Nat
           /\ run[u].step = "snapshot" => run[u].case \in Cases
<1>1. run[u] \in Runs
  BY DEF TypeOK
<1>2. CASE run[u] = Idle
  BY <1>2 DEF Idle
<1>3. CASE run[u] \in [step : {"started"}, vendor : Vendors]
  BY <1>3
<1>4. CASE run[u] \in [step : {"decided"}, assessment : Assessments,
                       decision : Decisions]
  BY <1>4
<1>5. CASE run[u] \in [step : {"checked"}, vendor : Vendors, review : Nat]
  BY <1>5
<1>6. CASE run[u] \in [step : {"snapshot"}, case : Cases]
  BY <1>6
<1> QED
  BY <1>1, <1>2, <1>3, <1>4, <1>5, <1>6 DEF Runs

\* Every action leaves every variable in its type: one step per action.
LEMMA TypeStep == TypeOK /\ RunsInLog /\ [Next]_vars => TypeOK'
<1> SUFFICES ASSUME TypeOK, RunsInLog, [Next]_vars PROVE TypeOK'
  OBVIOUS
<1>idle. ASSUME NEW u \in Users, run' = [run EXCEPT ![u] = Idle]
         PROVE  run' \in [Users -> Runs]
  BY <1>idle DEF TypeOK, Runs
<1>hide. ASSUME NEW u \in Users, shown' = [shown EXCEPT ![u] = NotShown]
         PROVE  shown' \in [Users -> Displays \cup {NotShown}]
  BY <1>hide DEF TypeOK
<1>1. ASSUME NEW u \in Users, start_run(u) PROVE TypeOK'
  <2>1. run' \in [Users -> Runs]
    BY <1>1 DEF start_run, TypeOK, Runs
  <2> QED
    BY <1>1, <2>1 DEF start_run, TypeOK, assurance, records
<1>2. ASSUME NEW u \in Users, NEW a \in Assessments, render(u, a) PROVE TypeOK'
  <2>1. run[u].vendor \in Vendors
    BY <1>2, RunShape DEF render
  <2>2. activation_decision(a, run[u].vendor) \in Decisions
    BY <2>1, DecisionType
  <2>3. shown' \in [Users -> Displays \cup {NotShown}]
    BY <1>2, <2>2 DEF render, TypeOK, Displays, Decisions
  <2> QED
    BY <1>2, <1>idle, <2>3 DEF render, TypeOK, assurance, records
<1>3. ASSUME NEW u \in Users, NEW a \in Assessments, evaluate_activation(u, a)
      PROVE  TypeOK'
  <2>1. run[u].vendor \in Vendors
    BY <1>3, RunShape DEF evaluate_activation
  <2>2. activation_decision(a, run[u].vendor) \in Decisions
    BY <2>1, DecisionType
  <2>3. run' \in [Users -> Runs]
    BY <1>3, <2>2 DEF evaluate_activation, TypeOK, Runs
  <2> QED
    BY <1>3, <2>3 DEF evaluate_activation, TypeOK, assurance, records
<1>4. ASSUME NEW u \in Users, NEW approved \in BOOLEAN,
             save_residual_risk_activation_review(u, approved)
      PROVE  TypeOK'
  <2>1. run[u].assessment \in Assessments /\ run[u].decision \in Decisions
    BY <1>4, RunShape DEF save_residual_risk_activation_review
  <2>2. current_lineage \in Lineage
    BY DEF current_lineage, Lineage, TypeOK, Policies
  <2>3. [analyst |-> u, assessment |-> run[u].assessment,
         decision |-> run[u].decision,
         system_ready |-> run[u].decision.blocking = {},
         analyst_approved |-> approved,
         activation_eligible |-> run[u].decision.blocking = {} /\ approved,
         lineage |-> current_lineage] \in Reviews
    BY <2>1, <2>2 DEF Reviews
  <2>4. reviews' \in Seq(Reviews)
    BY <1>4, <2>3 DEF save_residual_risk_activation_review, TypeOK
  <2> QED
    BY <1>4, <1>idle, <1>hide, <2>4
    DEF save_residual_risk_activation_review, TypeOK, assurance
<1>5. ASSUME NEW u \in Users, NEW r \in DOMAIN reviews, check_activation(u, r)
      PROVE  TypeOK'
  <2>1. run[u].vendor \in Vendors /\ r \in Nat
    BY <1>5, RunShape DEF check_activation, TypeOK
  <2>2. run' \in [Users -> Runs]
    BY <1>5, <2>1 DEF check_activation, TypeOK, Runs
  <2> QED
    BY <1>5, <2>2 DEF check_activation, TypeOK, assurance, records
<1>6. ASSUME NEW u \in Users, execute_residual_risk_activation(u) PROVE TypeOK'
  <2> DEFINE cached == run[u].vendor
             review == reviews[run[u].review]
             written == [cached EXCEPT !.residual = review.decision.proposed,
                                       !.rating   = review.decision.rating]
             execution == [review |-> run[u].review, assessment |-> review.assessment,
                           previous |-> cached.residual,
                           activated |-> review.decision.proposed,
                           rating |-> review.decision.rating,
                           lineage |-> [p \in Policies |->
                                  IF p = "RAE" THEN deployed[p] ELSE review.lineage[p]]]
  <2>1. cached \in Vendors /\ run[u].review \in Nat
    BY <1>6, RunShape DEF execute_residual_risk_activation
  <2>2. review \in Reviews
    <3>1. run[u].review \in DOMAIN reviews
      BY <1>6 DEF RunsInLog, execute_residual_risk_activation
    <3> QED
      BY <3>1 DEF TypeOK
  <2>3. review.decision.proposed \in Score /\ review.decision.rating \in Ratings
        /\ review.assessment \in Assessments /\ review.lineage \in Lineage
    BY <2>2 DEF Reviews, Decisions
  <2> HIDE DEF cached, review
  <2>4. written \in Vendors
    BY <2>1, <2>3 DEF Vendors
  <2> HIDE DEF written
  <2>5. vendor' \in Vendors
    BY <1>6, <2>1, <2>4, UpdateType
    DEF execute_residual_risk_activation, cached, review, written
  <2>6. [p \in Policies |-> IF p = "RAE" THEN deployed[p] ELSE review.lineage[p]]
          \in [Policies -> Nat]
    BY <2>3 DEF TypeOK, Policies, Lineage
  <2>7. execution \in Executions
    BY <2>1, <2>3, <2>6 DEF Executions, Vendors
  <2>8. executions' = Append(executions, execution)
    BY <1>6 DEF execute_residual_risk_activation, cached, review
  <2> HIDE DEF execution
  <2>9. executions' \in Seq(Executions)
    BY <2>7, <2>8 DEF TypeOK
  <2> QED
    BY <1>6, <1>idle, <1>hide, <2>5, <2>9
    DEF execute_residual_risk_activation, TypeOK, assurance
<1>7. ASSUME NEW u \in Users, NEW a \in Assessments,
             build_revalidation_case_snapshot(u, a)
      PROVE  TypeOK'
  <2> DEFINE e == latest_execution(a)
             residual == run[u].vendor.residual
             reasons == validity_reasons(e, residual)
  <2>1. residual \in Score
    BY <1>7, RunShape DEF build_revalidation_case_snapshot, Vendors
  <2>2. e \in DOMAIN executions /\ e \in Nat
    <3>1. e \in ExecutionsOf(a)
      BY <1>7, LatestType DEF build_revalidation_case_snapshot
    <3> QED
      BY <3>1 DEF ExecutionsOf, TypeOK
  <2>3. reasons # {}
    BY <1>7 DEF build_revalidation_case_snapshot
  <2> HIDE DEF e, residual
  <2>4. reasons \subseteq ValidityReasons
        /\ validity_status(reasons) \in {"Challenged", "Revalidation Required"}
    BY <2>1, <2>2, <2>3, ValidityType
  <2> HIDE DEF reasons
  <2>5. [execution |-> e, trigger |-> validity_status(reasons),
         reasons |-> reasons, current |-> residual] \in Cases
    BY <2>1, <2>2, <2>4 DEF Cases
  <2>6. run' \in [Users -> Runs]
    BY <1>7, <2>5 DEF build_revalidation_case_snapshot, TypeOK, Runs, e, residual, reasons
  <2> QED
    BY <1>7, <2>6 DEF build_revalidation_case_snapshot, TypeOK, assurance, records
<1>8. ASSUME NEW u \in Users, open_revalidation_case(u) PROVE TypeOK'
  <2>1. run[u].case \in Cases
    BY <1>8, RunShape DEF open_revalidation_case
  <2>2. cases' \in Seq(Cases)
    BY <1>8, <2>1 DEF open_revalidation_case, TypeOK
  <2> QED
    BY <1>8, <1>idle, <1>hide, <2>2 DEF open_revalidation_case, TypeOK, assurance
<1>9. ASSUME NEW u \in Users, NEW severity \in Severities,
             monitoring_create(u, severity)
      PROVE  TypeOK'
  <2> DEFINE bumped == run[u].vendor.external + severity_bump(severity)
             external == IF bumped > 100 THEN 100 ELSE bumped
  <2>1. run[u].vendor \in Vendors
    BY <1>9, RunShape DEF monitoring_create
  <2>2. external \in Points
    BY <2>1 DEF Vendors, Points, severity_bump
  <2>3. scored_vendor(external) \in Vendors
    BY <2>2, ScoredVendorType
  <2>4. vendor' \in Vendors
    BY <1>9, <2>1, <2>3, UpdateType DEF monitoring_create
  <2>5. incidents' \in Nat /\ events' \in Nat
    BY <1>9 DEF monitoring_create, TypeOK
  <2> QED
    BY <1>9, <1>idle, <1>hide, <2>4, <2>5
    DEF monitoring_create, TypeOK, assurance, records
<1>10. ASSUME NEW u \in Users, rollback(u) PROVE TypeOK'
  BY <1>10, <1>idle DEF rollback, TypeOK, assurance, records
<1>11. ASSUME NEW a \in Assessments, NEW c \in Controls, NEW d \in DispositionInputs,
              save_control_disposition(a, c, d)
       PROVE  TypeOK'
  <2>1. dispositions' \in [Assessments -> [Controls -> Dispositions \cup {Undecided}]]
    BY <1>11, DispositionInputsAssumption DEF save_control_disposition, TypeOK
  <2> QED
    BY <1>11, <2>1 DEF save_control_disposition, TypeOK, records
<1>12. ASSUME NEW a \in Assessments, update_assessment(a) PROVE TypeOK'
  BY <1>12 DEF update_assessment, TypeOK, records
<1>13. ASSUME NEW condition \in Conditions, change_condition(condition) PROVE TypeOK'
  BY <1>13 DEF change_condition, TypeOK, records
<1>14. CASE close_incident
  BY <1>14 DEF close_incident, TypeOK, assurance, records
<1>15. ASSUME NEW p \in Deployable, redeploy(p) PROVE TypeOK'
  <2>1. run' \in [Users -> Runs] /\ shown' \in [Users -> Displays \cup {NotShown}]
    BY <1>15 DEF redeploy, Runs
  <2>2. deployed' \in [Policies -> Nat]
    BY <1>15, DeployableAssumption DEF redeploy, TypeOK
  <2> QED
    BY <1>15, <2>1, <2>2 DEF redeploy, TypeOK, assurance, records
<1>16. CASE UNCHANGED vars
  BY <1>16 DEF vars, TypeOK, assurance, records
<1> QED
  BY <1>1, <1>2, <1>3, <1>4, <1>5, <1>6, <1>7, <1>8, <1>9, <1>10, <1>11, <1>12,
     <1>13, <1>14, <1>15, <1>16
  DEF Next, PageRun, Elsewhere

\* Every state of every behaviour is well typed: scores stay between 0 and 100,
\* ratings, modes and reasons in their sets, and the logs hold whole records.
THEOREM TypeCorrect == Spec => []TypeOK
<1>1. Init => TypeOK /\ RunsInLog
  BY TypeInit DEF Init, RunsInLog, Idle
<1>2. (TypeOK /\ RunsInLog) /\ [Next]_vars => (TypeOK /\ RunsInLog)'
  BY TypeStep, RunsInLogStep
<1> QED
  BY <1>1, <1>2, PTL DEF Spec

-----------------------------------------------------------------------------
(* The inductive invariant.  What an execution or a case says of its review   *)
(* or execution is settled while the run is in flight, before the write.      *)

\* Every review was recorded by someone who may, and an unblocked decision is
\* governed and carries the rating of its score.
SoundDecision(d) ==
    d.blocking = {} => d.mode = "Governed" /\ d.rating = rating_from_score(d.proposed)

ReviewsSound ==
    \A r \in DOMAIN reviews :
        /\ can(Role[reviews[r].analyst], "assessment.manage")
        /\ SoundDecision(reviews[r].decision)

\* What a checked run found true of its review stays true until it writes: the
\* log does not change, and a redeployment ends the run.
CheckedRun(u) ==
    LET review == reviews[run[u].review]
    IN  /\ run[u].review \in DOMAIN reviews
        /\ review.analyst_approved
        /\ review.decision.blocking = {}
        /\ run[u].vendor.residual = review.decision.stored
        /\ review.lineage = current_lineage

Triggered(c, log) ==
    /\ c.execution \in DOMAIN log
    /\ c.reasons # {}
    /\ (c.trigger = "Challenged") <=> (c.current # log[c.execution].activated)

SoundCase(c) == Triggered(c, executions)

RunSound(u) ==
    /\ run[u].step = "decided" =>
         can(Role[u], "assessment.manage") /\ SoundDecision(run[u].decision)
    /\ run[u].step = "checked" => CheckedRun(u)
    /\ run[u].step = "snapshot" => SoundCase(run[u].case)

IInv ==
    /\ TypeOK
    /\ ReviewsSound
    /\ \A u \in Users : RunSound(u)
    /\ ExecutionMatchesReview
    /\ AtMostOneExecutionPerReview
    /\ CaseTriggerSound
    /\ OneCasePerExecution

\* The three logs only grow, and a redeployment ends every run.
Growth ==
    /\ \A r \in DOMAIN reviews : r \in DOMAIN reviews' /\ reviews'[r] = reviews[r]
    /\ \A e \in DOMAIN executions :
          e \in DOMAIN executions' /\ executions'[e] = executions[e]
    /\ \A c \in DOMAIN cases : c \in DOMAIN cases' /\ cases'[c] = cases[c]
    /\ deployed' = deployed \/ \A u \in Users : run'[u] = Idle

LEMMA AppendKeeps ==
    ASSUME NEW T, NEW s \in Seq(T), NEW t, t = s \/ \E x : t = Append(s, x)
    PROVE  \A i \in DOMAIN s : i \in DOMAIN t /\ t[i] = s[i]
<1>1. CASE t = s
  BY <1>1
<1>2. ASSUME NEW x, t = Append(s, x)
      PROVE  \A i \in DOMAIN s : i \in DOMAIN t /\ t[i] = s[i]
  <2> DEFINE U == T \cup {x}
  <2>1. s \in Seq(U) /\ x \in U
    OBVIOUS
  <2>2. t \in Seq(U) /\ Len(t) = Len(s) + 1
    BY <2>1, <1>2
  <2>3. \A i \in 1..Len(s) : t[i] = s[i]
    BY <2>1, <1>2
  <2>4. DOMAIN s = 1..Len(s) /\ Len(s) \in Nat /\ DOMAIN t = 1..Len(t)
    BY <2>1, <2>2
  <2> QED
    BY <2>2, <2>3, <2>4
<1> QED
  BY <1>1, <1>2

LEMMA GrowthStep == TypeOK /\ [Next]_vars => Growth
<1> SUFFICES ASSUME TypeOK, [Next]_vars PROVE Growth
  OBVIOUS
<1>1. /\ reviews' = reviews \/ \E r : reviews' = Append(reviews, r)
      /\ executions' = executions \/ \E e : executions' = Append(executions, e)
      /\ cases' = cases \/ \E c : cases' = Append(cases, c)
  BY DEF Next, PageRun, Elsewhere, vars, records, start_run, render,
         evaluate_activation, save_residual_risk_activation_review,
         check_activation, execute_residual_risk_activation,
         build_revalidation_case_snapshot, open_revalidation_case,
         monitoring_create, rollback, save_control_disposition,
         update_assessment, change_condition, close_incident, redeploy
<1>2. deployed' = deployed \/ \A u \in Users : run'[u] = Idle
  BY DEF Next, PageRun, Elsewhere, vars, records, start_run, render,
         evaluate_activation, save_residual_risk_activation_review,
         check_activation, execute_residual_risk_activation,
         build_revalidation_case_snapshot, open_revalidation_case,
         monitoring_create, rollback, save_control_disposition,
         update_assessment, change_condition, close_incident, redeploy
<1>3. \A r \in DOMAIN reviews : r \in DOMAIN reviews' /\ reviews'[r] = reviews[r]
  BY <1>1, AppendKeeps DEF TypeOK
<1>4. \A e \in DOMAIN executions :
        e \in DOMAIN executions' /\ executions'[e] = executions[e]
  BY <1>1, AppendKeeps DEF TypeOK
<1>5. \A c \in DOMAIN cases : c \in DOMAIN cases' /\ cases'[c] = cases[c]
  BY <1>1, AppendKeeps DEF TypeOK
<1> QED
  BY <1>2, <1>3, <1>4, <1>5 DEF Growth

LEMMA RunKeptSound ==
    ASSUME TypeOK, Growth, NEW v \in Users, RunSound(v), run'[v] = run[v]
    PROVE  RunSound(v)'
<1>1. CASE run[v].step = "decided"
  BY <1>1 DEF RunSound, SoundDecision
<1>2. CASE run[v].step = "checked"
  <2>1. deployed' = deployed
    BY <1>2 DEF Growth, Idle
  <2> QED
    BY <1>2, <2>1 DEF RunSound, CheckedRun, Growth, current_lineage
<1>3. CASE run[v].step = "snapshot"
  BY <1>3 DEF RunSound, SoundCase, Triggered, Growth
<1> QED
  BY <1>1, <1>2, <1>3 DEF RunSound

LEMMA RunIdleSound ==
    ASSUME NEW v \in Users, run'[v] = Idle
    PROVE  RunSound(v)'
BY DEF RunSound, Idle

\* The runs stay sound: the four actions that give a run work to do establish
\* what the write will rely on.
LEMMA RunsStep ==
    ASSUME IInv, [Next]_vars, NEW v \in Users
    PROVE  RunSound(v)'
<1> USE DEF IInv
<1>1. TypeOK /\ Growth /\ RunSound(v)
  BY GrowthStep
<1> DEFINE Kept == run'[v] = run[v] \/ run'[v] = Idle
<1>2. Kept => RunSound(v)'
  BY <1>1, RunKeptSound, RunIdleSound
<1>3. ASSUME NEW u \in Users, run' = [run EXCEPT ![u] = Idle] PROVE Kept
  BY <1>1, <1>3 DEF TypeOK
<1>4. ASSUME NEW u \in Users, start_run(u) PROVE RunSound(v)'
  <2>1. CASE v = u
    BY <2>1, <1>4, <1>1 DEF start_run, RunSound, TypeOK
  <2>2. CASE v # u
    BY <2>2, <1>4, <1>1, <1>2 DEF start_run, TypeOK
  <2> QED
    BY <2>1, <2>2
<1>5. ASSUME NEW u \in Users, NEW a \in Assessments, evaluate_activation(u, a)
      PROVE  RunSound(v)'
  <2>1. CASE v = u
    <3> DEFINE d == activation_decision(a, run[u].vendor)
    <3>1. SoundDecision(d)
      <4>1. run[u].vendor \in Vendors
        BY <1>1, <1>5, RunShape DEF evaluate_activation
      <4> QED
        BY <1>1, <4>1, DecisionType DEF SoundDecision
    <3> HIDE DEF d
    <3>2. run'[v] = [step |-> "decided", assessment |-> a, decision |-> d]
      BY <2>1, <1>5, <1>1 DEF evaluate_activation, TypeOK, d
    <3>3. can(Role[v], "assessment.manage")
      BY <2>1, <1>5 DEF evaluate_activation
    <3> QED
      BY <3>1, <3>2, <3>3 DEF RunSound, SoundDecision
  <2>2. CASE v # u
    BY <2>2, <1>5, <1>1, <1>2 DEF evaluate_activation, TypeOK
  <2> QED
    BY <2>1, <2>2
<1>6. ASSUME NEW u \in Users, NEW r \in DOMAIN reviews, check_activation(u, r)
      PROVE  RunSound(v)'
  <2>1. CASE v = u
    <3>1. /\ run'[v] = [step |-> "checked", vendor |-> run[u].vendor, review |-> r]
          /\ reviews' = reviews /\ deployed' = deployed
      BY <2>1, <1>6, <1>1 DEF check_activation, records, TypeOK
    <3>2. executable(r, run[u].vendor)
      BY <1>6 DEF check_activation
    <3> QED
      BY <3>1, <3>2 DEF RunSound, CheckedRun, executable, current_lineage
  <2>2. CASE v # u
    BY <2>2, <1>6, <1>1, <1>2 DEF check_activation, TypeOK
  <2> QED
    BY <2>1, <2>2
<1>7. ASSUME NEW u \in Users, NEW a \in Assessments,
             build_revalidation_case_snapshot(u, a)
      PROVE  RunSound(v)'
  <2>1. CASE v = u
    <3> DEFINE e == latest_execution(a)
               residual == run[u].vendor.residual
               reasons == validity_reasons(e, residual)
               case == [execution |-> e, trigger |-> validity_status(reasons),
                        reasons |-> reasons, current |-> residual]
    <3>1. e \in DOMAIN executions
      <4>1. e \in ExecutionsOf(a)
        BY <1>1, <1>7, LatestType DEF build_revalidation_case_snapshot
      <4> QED
        BY <4>1 DEF ExecutionsOf
    <3>2. residual \in Score
      BY <1>1, <1>7, RunShape DEF build_revalidation_case_snapshot, Vendors
    <3>3. reasons # {}
      BY <1>7 DEF build_revalidation_case_snapshot
    <3> HIDE DEF e, residual
    <3>4. SoundCase(case)
      BY <1>1, <3>1, <3>2, <3>3, ValidityType DEF SoundCase, Triggered
    <3>5. run'[v] = [step |-> "snapshot", case |-> case] /\ executions' = executions
      BY <2>1, <1>1, <1>7
      DEF build_revalidation_case_snapshot, records, TypeOK, e, residual
    <3> HIDE DEF case
    <3> QED
      BY <3>4, <3>5 DEF RunSound, SoundCase, Triggered
  <2>2. CASE v # u
    BY <2>2, <1>7, <1>1, <1>2 DEF build_revalidation_case_snapshot, TypeOK
  <2> QED
    BY <2>1, <2>2
<1>8. ASSUME NEW u \in Users,
             \/ \E a \in Assessments : render(u, a)
             \/ \E approved \in BOOLEAN :
                  save_residual_risk_activation_review(u, approved)
             \/ execute_residual_risk_activation(u)
             \/ open_revalidation_case(u)
             \/ \E severity \in Severities : monitoring_create(u, severity)
             \/ rollback(u)
      PROVE  RunSound(v)'
  <2>1. run' = [run EXCEPT ![u] = Idle]
    BY <1>8 DEF render, save_residual_risk_activation_review,
                execute_residual_risk_activation, open_revalidation_case,
                monitoring_create, rollback
  <2> QED
    BY <2>1, <1>2, <1>3
<1>9. ASSUME Elsewhere \/ UNCHANGED vars PROVE RunSound(v)'
  <2>1. Kept
    BY <1>9 DEF Elsewhere, vars, save_control_disposition, update_assessment,
                change_condition, close_incident, redeploy
  <2> QED
    BY <2>1, <1>2
<1> HIDE DEF IInv
<1> QED
  BY <1>4, <1>5, <1>6, <1>7, <1>8, <1>9 DEF Next, PageRun

\* Only two actions write to the log of executions, of cases, or of reviews.
LEMMA WhoWrites ==
    ASSUME [Next]_vars
    PROVE  /\ reviews' = reviews
                \/ \E u \in Users, approved \in BOOLEAN :
                      save_residual_risk_activation_review(u, approved)
           /\ executions' = executions
                \/ \E u \in Users : execute_residual_risk_activation(u)
           /\ cases' = cases \/ \E u \in Users : open_revalidation_case(u)
BY DEF Next, PageRun, Elsewhere, vars, records, start_run, render,
       evaluate_activation, check_activation,
       build_revalidation_case_snapshot, monitoring_create, rollback,
       save_control_disposition, update_assessment, change_condition,
       close_incident, redeploy, save_residual_risk_activation_review,
       execute_residual_risk_activation, open_revalidation_case

LEMMA ReviewsStep == IInv /\ [Next]_vars => ReviewsSound'
<1> SUFFICES ASSUME IInv, [Next]_vars PROVE ReviewsSound'
  OBVIOUS
<1>1. CASE reviews' = reviews
  BY <1>1 DEF IInv, ReviewsSound, SoundDecision
<1>2. ASSUME NEW u \in Users, NEW approved \in BOOLEAN,
             save_residual_risk_activation_review(u, approved)
      PROVE  ReviewsSound'
  <2>1. can(Role[u], "assessment.manage") /\ SoundDecision(run[u].decision)
    BY <1>2 DEF IInv, RunSound, save_residual_risk_activation_review
  <2>2. PICK review : /\ reviews' = Append(reviews, review)
                      /\ review.analyst = u /\ review.decision = run[u].decision
    BY <1>2 DEF save_residual_risk_activation_review
  <2>3. ASSUME NEW r \in DOMAIN reviews'
        PROVE  \/ r \in DOMAIN reviews /\ reviews'[r] = reviews[r]
               \/ reviews'[r] = review
    BY <2>2 DEF IInv, TypeOK
  <2>4. ASSUME NEW r \in DOMAIN reviews'
        PROVE  /\ can(Role[reviews'[r].analyst], "assessment.manage")
               /\ SoundDecision(reviews'[r].decision)
    BY <2>1, <2>2, <2>3 DEF IInv, ReviewsSound
  <2> QED
    BY <2>4 DEF ReviewsSound, SoundDecision
<1> QED
  BY <1>1, <1>2, WhoWrites

\* Execution `e` records what the review in `log` says.
Matches(e, log) ==
    /\ e.review \in DOMAIN log
    /\ LET review == log[e.review]
       IN  /\ can(Role[review.analyst], "assessment.manage")
           /\ review.analyst_approved
           /\ review.decision.blocking = {}
           /\ review.decision.mode = "Governed"
           /\ e.assessment = review.assessment
           /\ e.previous = review.decision.stored
           /\ e.activated = review.decision.proposed
           /\ e.rating = review.decision.rating

\* The one write of an execution: its review was settled by the run, and the
\* constraint rules out a second execution of it.
LEMMA ExecutionsStep ==
    IInv /\ [Next]_vars => ExecutionMatchesReview' /\ AtMostOneExecutionPerReview'
<1> SUFFICES ASSUME IInv, [Next]_vars
             PROVE  ExecutionMatchesReview' /\ AtMostOneExecutionPerReview'
  OBVIOUS
<1>1. TypeOK /\ Growth
  BY GrowthStep DEF IInv
<1>2. \A e \in DOMAIN executions : Matches(executions[e], reviews)
  BY DEF IInv, ExecutionMatchesReview, Matches
<1>3. ASSUME NEW e \in DOMAIN executions', Matches(executions'[e], reviews)
      PROVE  Matches(executions'[e], reviews')
  BY <1>1, <1>3 DEF Growth, Matches
<1>4. CASE executions' = executions
  <2>1. AtMostOneExecutionPerReview'
    BY <1>4 DEF IInv, AtMostOneExecutionPerReview
  <2> QED
    BY <1>2, <1>3, <1>4, <2>1 DEF ExecutionMatchesReview, Matches
<1>5. ASSUME NEW u \in Users, execute_residual_risk_activation(u)
      PROVE  ExecutionMatchesReview' /\ AtMostOneExecutionPerReview'
  <2>1. CheckedRun(u)
    BY <1>5 DEF IInv, RunSound, execute_residual_risk_activation
  <2>2. PICK x : /\ executions' = Append(executions, x)
                 /\ x.review = run[u].review
                 /\ x.assessment = reviews[run[u].review].assessment
                 /\ x.previous = run[u].vendor.residual
                 /\ x.activated = reviews[run[u].review].decision.proposed
                 /\ x.rating = reviews[run[u].review].decision.rating
    BY <1>5 DEF execute_residual_risk_activation
  <2>3. Matches(x, reviews)
    BY <2>1, <2>2 DEF IInv, ReviewsSound, SoundDecision, CheckedRun, Matches
  <2>4. \A e \in DOMAIN executions : executions[e].review # x.review
    BY <1>5, <2>2 DEF execute_residual_risk_activation, unexecuted
  <2>5. ASSUME NEW e \in DOMAIN executions'
        PROVE  \/ /\ e \in DOMAIN executions /\ e # Len(executions) + 1
                  /\ executions'[e] = executions[e]
               \/ e = Len(executions) + 1 /\ executions'[e] = x
    BY <1>1, <2>2 DEF TypeOK
  <2>6. ASSUME NEW e \in DOMAIN executions' PROVE Matches(executions'[e], reviews)
    BY <1>2, <2>3, <2>5
  <2>7. ExecutionMatchesReview'
    BY <1>3, <2>6 DEF ExecutionMatchesReview, Matches
  <2>8. AtMostOneExecutionPerReview'
    BY <2>4, <2>5 DEF IInv, AtMostOneExecutionPerReview
  <2> QED
    BY <2>7, <2>8
<1> QED
  BY <1>4, <1>5, WhoWrites

LEMMA CasesStep == IInv /\ [Next]_vars => CaseTriggerSound' /\ OneCasePerExecution'
<1> SUFFICES ASSUME IInv, [Next]_vars
             PROVE  CaseTriggerSound' /\ OneCasePerExecution'
  OBVIOUS
<1>1. TypeOK /\ Growth
  BY GrowthStep DEF IInv
<1>2. \A c \in DOMAIN cases : Triggered(cases[c], executions)
  BY DEF IInv, CaseTriggerSound, Triggered
<1>3. ASSUME NEW c \in DOMAIN cases', Triggered(cases'[c], executions) PROVE Triggered(cases'[c], executions')
  BY <1>1, <1>3 DEF Growth, Triggered
<1>4. CASE cases' = cases
  <2>1. OneCasePerExecution'
    BY <1>4 DEF IInv, OneCasePerExecution
  <2>2. ASSUME NEW c \in DOMAIN cases' PROVE Triggered(cases'[c], executions')
    BY <1>2, <1>3, <1>4
  <2> QED
    BY <2>1, <2>2 DEF CaseTriggerSound, Triggered
<1>5. ASSUME NEW u \in Users, open_revalidation_case(u)
      PROVE  CaseTriggerSound' /\ OneCasePerExecution'
  <2>1. Triggered(run[u].case, executions)
    BY <1>5 DEF IInv, RunSound, SoundCase, open_revalidation_case
  <2>2. \A c \in DOMAIN cases : cases[c].execution # run[u].case.execution
    BY <1>5 DEF open_revalidation_case, without_case
  <2>3. ASSUME NEW c \in DOMAIN cases'
        PROVE  \/ c \in DOMAIN cases /\ c # Len(cases) + 1 /\ cases'[c] = cases[c]
               \/ c = Len(cases) + 1 /\ cases'[c] = run[u].case
    BY <1>1, <1>5 DEF open_revalidation_case, TypeOK
  <2>4. ASSUME NEW c \in DOMAIN cases' PROVE Triggered(cases'[c], executions')
    BY <1>2, <1>3, <2>1, <2>3
  <2>5. CaseTriggerSound'
    BY <2>4 DEF CaseTriggerSound, Triggered
  <2>6. OneCasePerExecution'
    BY <2>2, <2>3 DEF IInv, OneCasePerExecution
  <2> QED
    BY <2>5, <2>6
<1> QED
  BY <1>4, <1>5, WhoWrites

LEMMA InitInvariant == Init => IInv
<1> SUFFICES ASSUME Init PROVE IInv
  OBVIOUS
<1>1. \A u \in Users : RunSound(u)
  BY DEF Init, RunSound, Idle
<1>2. DOMAIN reviews = {} /\ DOMAIN executions = {} /\ DOMAIN cases = {}
  BY DEF Init
<1> QED
  BY <1>1, <1>2, TypeInit
  DEF IInv, ReviewsSound, ExecutionMatchesReview, AtMostOneExecutionPerReview,
      CaseTriggerSound, OneCasePerExecution

LEMMA StepInvariant == IInv /\ [Next]_vars => IInv'
<1> SUFFICES ASSUME IInv, [Next]_vars PROVE IInv'
  OBVIOUS
<1>1. RunsInLog
  BY DEF IInv, RunSound, CheckedRun, RunsInLog
<1>2. TypeOK'
  BY <1>1, TypeStep DEF IInv
<1>3. \A u \in Users : RunSound(u)'
  BY RunsStep
<1> QED
  BY <1>2, <1>3, ReviewsStep, ExecutionsStep, CasesStep DEF IInv

\* IInv is an inductive invariant of the specification: types, sound reviews,
\* runs that still stand on what they checked, and the four properties below.
THEOREM InductiveInvariant == Spec => []IInv
BY InitInvariant, StepInvariant, PTL DEF Spec

\* Whatever the runs of the users do to each other, an execution records a
\* review an authorised analyst approved, as it was approved.
THEOREM ExecutionsAreReviewed == Spec => []ExecutionMatchesReview
<1>1. IInv => ExecutionMatchesReview
  BY DEF IInv
<1> QED
  BY <1>1, InductiveInvariant, PTL

\* No review is executed twice, however many executors race.
THEOREM ExecutedOnce == Spec => []AtMostOneExecutionPerReview
<1>1. IInv => AtMostOneExecutionPerReview
  BY DEF IInv
<1> QED
  BY <1>1, InductiveInvariant, PTL

\* Every revalidation case keeps a trigger that was true when it was opened.
THEOREM CasesAreTriggered == Spec => []CaseTriggerSound
<1>1. IInv => CaseTriggerSound
  BY DEF IInv
<1> QED
  BY <1>1, InductiveInvariant, PTL

\* No execution has two revalidation cases, however many analysts race.
THEOREM CaseOpenedOnce == Spec => []OneCasePerExecution
<1>1. IInv => OneCasePerExecution
  BY DEF IInv
<1> QED
  BY <1>1, InductiveInvariant, PTL

\* An activated rating is never the one a guardrail raised: SoundDecision says
\* that an unblocked decision has the rating of its score.
THEOREM RatingIsOfScore == Spec => []ActivatedRatingFollowsScore
<1>1. IInv => ActivatedRatingFollowsScore
  BY DEF IInv, ExecutionMatchesReview, ReviewsSound, SoundDecision,
         ActivatedRatingFollowsScore
<1> QED
  BY <1>1, InductiveInvariant, PTL

\* An activation commits under the policies of its review: the run checked the
\* lineage, and a redeployment after the check ends the run.
THEOREM PolicyIsCurrent == Spec => ActivationUnderCurrentPolicy
<1>1. IInv /\ [Next]_vars
        => (Activated => Activation.lineage = deployed)
  <2> SUFFICES ASSUME IInv, [Next]_vars, Activated
               PROVE  Activation.lineage = deployed
    OBVIOUS
  <2>1. PICK u \in Users : execute_residual_risk_activation(u)
    BY WhoWrites DEF Activated
  <2>2. reviews[run[u].review].lineage = current_lineage
    BY <2>1 DEF IInv, RunSound, CheckedRun, execute_residual_risk_activation
  <2> DEFINE review == reviews[run[u].review]
             lineage == [p \in Policies |->
                           IF p = "RAE" THEN deployed[p] ELSE review.lineage[p]]
             x == [review |-> run[u].review, assessment |-> review.assessment,
                   previous |-> run[u].vendor.residual,
                   activated |-> review.decision.proposed,
                   rating |-> review.decision.rating, lineage |-> lineage]
  <2>3. executions' = Append(executions, x) /\ x.lineage = lineage
    BY <2>1 DEF execute_residual_risk_activation
  <2> HIDE DEF x
  <2>4. Activation = x
    BY <2>3 DEF Activation, IInv, TypeOK
  <2>5. deployed = [p \in Policies |->
           IF p = "RAE" THEN deployed[p] ELSE current_lineage[p]]
    BY DEF IInv, TypeOK, current_lineage, Policies
  <2> QED
    BY <2>2, <2>3, <2>4, <2>5
<1>2. IInv /\ [Next]_vars
        => [Activated => Activation.lineage = deployed]_vars
  BY <1>1
<1> QED
  BY <1>2, InductiveInvariant, PTL DEF Spec, ActivationUnderCurrentPolicy


-----------------------------------------------------------------------------
(* Without overlap.  What the page promises of score, rating and activation     *)
(* holds as long as no run begins while another one is in flight; the run       *)
(* risk_stale shows that it takes no more than that to break it.                *)

Alone == \A u, v \in Users : run[u] # Idle /\ run[v] # Idle => u = v

\* The newest execution of its assessment.
Latest(e) == \A f \in ExecutionsOf(executions[e].assessment) : f <= e

\* What a run has read is what is committed.
UpToDate(u) ==
    /\ run[u].step \in {"started", "checked"} => run[u].vendor = vendor
    /\ run[u].step = "snapshot" =>
         run[u].case.current = vendor.residual /\ Latest(run[u].case.execution)

SerialInv == RatingFollowsScore /\ \A u \in Users : UpToDate(u)

\* Only two actions write the vendor row.
LEMMA WhoScores ==
    ASSUME [Next]_vars
    PROVE  \/ vendor' = vendor
           \/ \E u \in Users : execute_residual_risk_activation(u)
           \/ \E u \in Users, severity \in Severities : monitoring_create(u, severity)
BY DEF Next, PageRun, Elsewhere, vars, records, start_run, render,
       evaluate_activation, check_activation,
       build_revalidation_case_snapshot, rollback, open_revalidation_case,
       save_control_disposition, update_assessment, change_condition,
       close_incident, redeploy, save_residual_risk_activation_review

\* An UPDATE over the row the session loaded is what the session wrote.
LEMMA UpdateOfLoaded ==
    ASSUME NEW written \in Vendors
    PROVE  update_vendor(vendor, written) = written
BY DEF update_vendor, Vendors

\* What the commit of an activation by an up-to-date run does.
LEMMA ExecutedUpToDate ==
    ASSUME IInv, NEW u \in Users, UpToDate(u), execute_residual_risk_activation(u)
    PROVE  LET review == reviews[run[u].review] IN
           /\ vendor' = [vendor EXCEPT !.residual = review.decision.proposed,
                                       !.rating = review.decision.rating]
           /\ vendor.residual = review.decision.stored
           /\ review.decision.rating = rating_from_score(review.decision.proposed)
           /\ Activated
           /\ Activation.review = run[u].review
           /\ Activation.activated = review.decision.proposed
           /\ Activation.rating = review.decision.rating
<1> DEFINE review == reviews[run[u].review]
           written == [vendor EXCEPT !.residual = review.decision.proposed,
                                     !.rating = review.decision.rating]
<1>1. run[u].step = "checked" /\ CheckedRun(u) /\ run[u].vendor = vendor
  BY DEF execute_residual_risk_activation, IInv, RunSound, UpToDate
<1>2. /\ vendor.residual = review.decision.stored
      /\ review.decision.rating = rating_from_score(review.decision.proposed)
  BY <1>1 DEF CheckedRun, IInv, ReviewsSound, SoundDecision
<1>3. vendor' = update_vendor(vendor, written)
  BY <1>1 DEF execute_residual_risk_activation
<1>4. review.decision \in Decisions
  <2>1. reviews \in Seq(Reviews) /\ run[u].review \in DOMAIN reviews
    BY <1>1 DEF IInv, TypeOK, CheckedRun
  <2>2. review \in Reviews
    BY <2>1
  <2> QED
    BY <2>2 DEF Reviews
<1>5. written \in Vendors
  BY <1>4 DEF IInv, TypeOK, Vendors, Decisions
<1>6. vendor' = written
  BY <1>3, <1>5, UpdateOfLoaded
<1>7. PICK x : /\ executions' = Append(executions, x)
               /\ x.review = run[u].review
               /\ x.activated = review.decision.proposed
               /\ x.rating = review.decision.rating
  BY DEF execute_residual_risk_activation
<1>8. Activated /\ Activation = x
  BY <1>7 DEF Activated, Activation, IInv, TypeOK
<1> QED
  BY <1>2, <1>6, <1>7, <1>8

LEMMA RatingStep == IInv /\ SerialInv /\ [Next]_vars => RatingFollowsScore'
<1> SUFFICES ASSUME IInv, SerialInv, [Next]_vars PROVE RatingFollowsScore'
  OBVIOUS
<1>1. CASE vendor' = vendor
  BY <1>1 DEF SerialInv, RatingFollowsScore
<1>2. ASSUME NEW u \in Users, execute_residual_risk_activation(u)
      PROVE  RatingFollowsScore'
  BY <1>2, ExecutedUpToDate DEF SerialInv, RatingFollowsScore, IInv, TypeOK, Vendors
<1>3. ASSUME NEW u \in Users, NEW severity \in Severities, monitoring_create(u, severity)
      PROVE  RatingFollowsScore'
  <2> DEFINE bumped == vendor.external + severity_bump(severity)
             written == scored_vendor(IF bumped > 100 THEN 100 ELSE bumped)
  <2>1. run[u].vendor = vendor
    BY <1>3 DEF SerialInv, UpToDate, monitoring_create
  <2>2. vendor' = update_vendor(vendor, written)
    BY <1>3, <2>1 DEF monitoring_create
  <2>3. vendor'.residual = written.residual /\ vendor'.rating = written.rating
    BY <2>2 DEF update_vendor
  <2> QED
    BY <2>3 DEF scored_vendor, RatingFollowsScore
<1> QED
  BY <1>1, <1>2, <1>3, WhoScores

\* The snapshot takes the newest execution and the score its run has loaded.
LEMMA SnapshotUpToDate ==
    ASSUME IInv, NEW u \in Users, UpToDate(u), NEW a \in Assessments,
           build_revalidation_case_snapshot(u, a)
    PROVE  UpToDate(u)'
<1> DEFINE e == latest_execution(a)
<1>1. /\ e \in ExecutionsOf(a) /\ \A f \in ExecutionsOf(a) : f <= e
  BY LatestType DEF build_revalidation_case_snapshot, IInv
<1> DEFINE reasons == validity_reasons(e, run[u].vendor.residual)
           case == [execution |-> e, trigger |-> validity_status(reasons),
                    reasons |-> reasons, current |-> run[u].vendor.residual]
<1>2. run'[u] = [step |-> "snapshot", case |-> case]
  BY DEF build_revalidation_case_snapshot, IInv, TypeOK
<1>3. run[u].vendor = vendor /\ vendor' = vendor /\ executions' = executions
  BY DEF build_revalidation_case_snapshot, UpToDate, records
<1>4. case.execution = e /\ case.current = vendor.residual
  BY <1>3
<1> HIDE DEF case, e
<1>5. run'[u].step = "snapshot" /\ run'[u].case = case
  BY <1>2
<1>6. \A f \in ExecutionsOf(executions[e].assessment) : f <= e
  BY <1>1 DEF ExecutionsOf
<1>7. \A f \in ExecutionsOf(executions[case.execution].assessment) : f <= case.execution
  BY <1>4, <1>6
<1> QED
  BY <1>3, <1>4, <1>5, <1>7 DEF UpToDate, Latest, ExecutionsOf

LEMMA UpToDateStep ==
    ASSUME IInv, Alone, SerialInv, [Next]_vars, NEW v \in Users
    PROVE  UpToDate(v)'
<1>0. TypeOK /\ UpToDate(v)
  BY DEF IInv, SerialInv
<1>1. run'[v] = Idle => UpToDate(v)'
  BY DEF UpToDate, Idle
<1>2. ASSUME run'[v] = run[v], vendor' = vendor, executions' = executions
      PROVE  UpToDate(v)'
  BY <1>0, <1>2 DEF UpToDate, Latest, ExecutionsOf
<1>3. ASSUME NEW u \in Users,
             start_run(u) \/ (\E a \in Assessments : evaluate_activation(u, a))
               \/ (\E r \in DOMAIN reviews : check_activation(u, r))
      PROVE  UpToDate(v)'
  <2>1. vendor' = vendor /\ executions' = executions
    BY <1>3 DEF start_run, evaluate_activation, check_activation, records
  <2>2. CASE v = u
    <3>1. \/ run'[u] = [step |-> "started", vendor |-> vendor]
          \/ run'[u].step = "decided"
          \/ /\ run[u].step = "started" /\ run'[u].step = "checked"
             /\ run'[u].vendor = run[u].vendor
      BY <1>0, <1>3 DEF TypeOK, start_run, evaluate_activation, check_activation
    <3> QED
      BY <1>0, <2>1, <2>2, <3>1 DEF UpToDate
  <2>3. CASE v # u
    <3>1. run'[v] = run[v]
      BY <1>0, <1>3, <2>3 DEF TypeOK, start_run, evaluate_activation, check_activation
    <3> QED
      BY <1>2, <2>1, <3>1
  <2> QED
    BY <2>2, <2>3
<1>4. ASSUME NEW u \in Users, NEW a \in Assessments, build_revalidation_case_snapshot(u, a)
      PROVE  UpToDate(v)'
  <2>1. CASE v = u
    BY <1>0, <1>4, <2>1, SnapshotUpToDate
  <2>2. CASE v # u
    BY <1>0, <1>2, <1>4, <2>2 DEF build_revalidation_case_snapshot, records, TypeOK
  <2> QED
    BY <2>1, <2>2
<1>5. ASSUME NEW u \in Users,
             \/ \E a \in Assessments : render(u, a)
             \/ \E approved \in BOOLEAN : save_residual_risk_activation_review(u, approved)
             \/ open_revalidation_case(u)
             \/ rollback(u)
      PROVE  UpToDate(v)'
  <2>1. run' = [run EXCEPT ![u] = Idle] /\ vendor' = vendor /\ executions' = executions
    BY <1>5 DEF render, save_residual_risk_activation_review, open_revalidation_case,
                rollback, records
  <2>2. run'[v] = Idle \/ run'[v] = run[v]
    BY <1>0, <2>1 DEF TypeOK
  <2> QED
    BY <1>1, <1>2, <2>1, <2>2
<1>6. ASSUME NEW u \in Users,
             \/ execute_residual_risk_activation(u)
             \/ \E severity \in Severities : monitoring_create(u, severity)
      PROVE  UpToDate(v)'
  <2>1. run[u] # Idle /\ run' = [run EXCEPT ![u] = Idle]
    BY <1>6 DEF execute_residual_risk_activation, monitoring_create, Idle
  <2>2. run'[v] = Idle
    BY <1>0, <2>1 DEF Alone, TypeOK
  <2> QED
    BY <1>1, <2>2
<1>7. CASE Elsewhere \/ UNCHANGED vars
  <2>1. /\ run'[v] = run[v] \/ run'[v] = Idle
        /\ vendor' = vendor /\ executions' = executions
    BY <1>7 DEF Elsewhere, vars, save_control_disposition, update_assessment,
                change_condition, close_incident, redeploy, records
  <2> QED
    BY <1>1, <1>2, <2>1
<1> QED
  BY <1>3, <1>4, <1>5, <1>6, <1>7 DEF Next, PageRun

\* As long as no two runs overlap, what a run in flight has read is what is
\* committed, and the vendor's rating is that of its score.
THEOREM SerialInvariant == Spec /\ []Alone => []SerialInv
<1>1. Init => SerialInv
  BY DEF Init, SerialInv, RatingFollowsScore, scored_vendor, UpToDate, Idle
<1>2. IInv /\ Alone /\ SerialInv /\ [Next]_vars => SerialInv'
  BY RatingStep, UpToDateStep DEF SerialInv
<1> QED
  BY <1>1, <1>2, InductiveInvariant, PTL DEF Spec

\* RatingFollowsScore: without overlap, activations and monitoring events never
\* leave the vendor with the rating of another score.
THEOREM RatingFollowsSerially == Spec /\ []Alone => []RatingFollowsScore
<1>1. SerialInv => RatingFollowsScore
  BY DEF SerialInv
<1> QED
  BY <1>1, SerialInvariant, PTL

\* ActivationAppliesToReviewedScore: without overlap, an activation replaces the
\* very score its review was made against.
THEOREM ReviewedScoreSerially == Spec /\ []Alone => ActivationAppliesToReviewedScore
<1> DEFINE A == Activated => vendor.residual = reviews[Activation.review].decision.stored
<1>1. IInv /\ SerialInv /\ [Next]_vars => A
  <2> SUFFICES ASSUME IInv, SerialInv, [Next]_vars, Activated
               PROVE  vendor.residual = reviews[Activation.review].decision.stored
    OBVIOUS
  <2>1. PICK u \in Users : execute_residual_risk_activation(u)
    BY WhoWrites DEF Activated
  <2>2. UpToDate(u)
    BY DEF SerialInv
  <2>3. /\ vendor.residual = reviews[run[u].review].decision.stored
        /\ Activation.review = run[u].review
    BY <2>1, <2>2, ExecutedUpToDate
  <2> QED
    BY <2>3
<1>2. IInv /\ SerialInv /\ [Next]_vars => [A]_vars
  BY <1>1
<1> QED
  BY <1>2, SerialInvariant, InductiveInvariant, PTL DEF Spec, ActivationAppliesToReviewedScore

\* ActivationTakesEffect: without overlap, the row holds what was approved once
\* an activation is committed.
THEOREM EffectSerially == Spec /\ []Alone => ActivationTakesEffect
<1> DEFINE A == Activated => /\ vendor'.residual = Activation.activated
                             /\ vendor'.rating = Activation.rating
<1>1. IInv /\ SerialInv /\ [Next]_vars => A
  <2> SUFFICES ASSUME IInv, SerialInv, [Next]_vars, Activated PROVE A
    OBVIOUS
  <2>1. PICK u \in Users : execute_residual_risk_activation(u)
    BY WhoWrites DEF Activated
  <2>2. UpToDate(u) /\ vendor \in Vendors
    BY DEF SerialInv, IInv, TypeOK
  <2>3. /\ vendor' = [vendor EXCEPT !.residual = reviews[run[u].review].decision.proposed,
                                    !.rating = reviews[run[u].review].decision.rating]
        /\ Activation.activated = reviews[run[u].review].decision.proposed
        /\ Activation.rating = reviews[run[u].review].decision.rating
    BY <2>1, <2>2, ExecutedUpToDate
  <2> QED
    BY <2>2, <2>3 DEF Vendors
<1>2. IInv /\ SerialInv /\ [Next]_vars => [A]_vars
  BY <1>1
<1> QED
  BY <1>2, SerialInvariant, InductiveInvariant, PTL DEF Spec, ActivationTakesEffect

\* CaseOpenedOnCurrentState: without overlap, a case is opened for the latest
\* activation of its assessment and the score that is authoritative then.
THEOREM CaseSerially == Spec /\ []Alone => CaseOpenedOnCurrentState
<1> DEFINE opened == cases'[Len(cases')]
           A == Len(cases') > Len(cases) =>
                  /\ \A e \in DOMAIN executions :
                        executions[e].assessment = executions[opened.execution].assessment
                        => e <= opened.execution
                  /\ opened.current = vendor.residual
<1>1. IInv /\ SerialInv /\ [Next]_vars => A
  <2> SUFFICES ASSUME IInv, SerialInv, [Next]_vars, Len(cases') > Len(cases) PROVE A
    OBVIOUS
  <2>1. PICK u \in Users : open_revalidation_case(u)
    BY WhoWrites DEF IInv, TypeOK
  <2>2. opened = run[u].case
    BY <2>1 DEF open_revalidation_case, IInv, TypeOK
  <2>3. opened.current = vendor.residual /\ Latest(opened.execution)
    BY <2>1, <2>2 DEF SerialInv, UpToDate, open_revalidation_case
  <2> QED
    BY <2>3 DEF Latest, ExecutionsOf
<1>2. IInv /\ SerialInv /\ [Next]_vars => [A]_vars
  BY <1>1
<1> QED
  BY <1>2, SerialInvariant, InductiveInvariant, PTL DEF Spec, CaseOpenedOnCurrentState


-----------------------------------------------------------------------------
(* Where RRA-1.0 and RAV-1.0 agree                                            *)

Coverage(a) == evaluate_control_effectiveness(dispositions[a]).coverage

\* A decision that is ready would, if it were activated now, have no reason for
\* revalidation.
ReadyIsValid(a) ==
    LET decision == activation_decision(a, vendor)
    IN  decision.blocking = {} =>
          evaluate_residual_risk_activation_validity(
              decision.proposed, decision.proposed,
              evaluate_control_effectiveness(dispositions[a]),
              complete[a], TRUE) = {}

LEMMA StatusType ==
    ASSUME NEW decided
    PROVE  LET e == evaluate_control_effectiveness(decided) IN
           e.status = CASE e.score = Unavailable -> "Insufficient Decisions"
                        [] e.score # Unavailable /\ e.coverage < 50 -> "Provisional"
                        [] e.score # Unavailable /\ e.coverage \in 50..99
                             -> "Partially Governed"
                        [] OTHER -> "Governed"
BY DEF evaluate_control_effectiveness

LEMMA ReadyWhenCovered ==
    ASSUME IInv, NEW a \in Assessments, Coverage(a) \notin 80..99
    PROVE  ReadyIsValid(a)
<1> DEFINE effectiveness == evaluate_control_effectiveness(dispositions[a])
           decision == activation_decision(a, vendor)
<1> SUFFICES ASSUME decision.blocking = {}
             PROVE  evaluate_residual_risk_activation_validity(
                        decision.proposed, decision.proposed, effectiveness,
                        complete[a], TRUE) = {}
  BY DEF ReadyIsValid
<1>1. decision.proposed \in Score /\ decision.mode = "Governed"
  BY DecisionType DEF IInv, TypeOK, Decisions
<1>2. decision.mode = select_control_effectiveness_input(effectiveness).mode
  BY DEF activation_decision, evaluate_residual_risk_activation, reconcile_residual_risk
<1>3. effectiveness.score \in Int /\ effectiveness.coverage \in Int
  BY EffectivenessType DEF IInv, TypeOK
<1>4. effectiveness.score # Unavailable /\ effectiveness.coverage >= 100
  <2>1. effectiveness.coverage \notin 80..99
    BY DEF Coverage
  <2>2. select_control_effectiveness_input(effectiveness).mode = "Governed"
    BY <1>1, <1>2
  <2> HIDE DEF effectiveness
  <2>3. effectiveness.score # Unavailable
    BY <2>2 DEF select_control_effectiveness_input
  <2>4. ~ effectiveness.coverage < 50 /\ effectiveness.coverage \notin 50..79
    BY <2>2, <2>3 DEF select_control_effectiveness_input
  <2> QED
    BY <1>3, <2>1, <2>3, <2>4
<1>5. effectiveness.status = "Governed"
  <2>1. effectiveness.status =
          CASE effectiveness.score = Unavailable -> "Insufficient Decisions"
            [] effectiveness.score # Unavailable /\ effectiveness.coverage < 50 -> "Provisional"
            [] effectiveness.score # Unavailable /\ effectiveness.coverage \in 50..99
                 -> "Partially Governed"
            [] OTHER -> "Governed"
    BY StatusType
  <2> HIDE DEF effectiveness
  <2>2. ~ effectiveness.coverage < 50 /\ effectiveness.coverage \notin 50..99
    BY <1>3, <1>4
  <2> QED
    BY <1>4, <2>1, <2>2
<1>6. complete[a]
  BY DEF activation_decision, evaluate_residual_risk_activation, triggered_guardrails
<1>7. bounded_score(decision.proposed) = decision.proposed
  BY <1>1 DEF Score, bounded_score
<1> HIDE DEF effectiveness, decision
<1>8. control_reasons(effectiveness) = {}
  BY <1>3, <1>4, <1>5 DEF control_reasons
<1> QED
  BY <1>6, <1>7, <1>8 DEF evaluate_residual_risk_activation_validity

\* What RRA-1.0 calls ready, RAV-1.0 calls valid, at every coverage but 80 to 99
\* percent, where the one activates and the other asks for all controls: for any
\* number of controls (control_effectiveness_guardrail.py,
\* residual_risk_activation_validity.py).
THEOREM ReadyIsValidWhenCovered ==
    Spec => [](\A a \in Assessments : Coverage(a) \notin 80..99 => ReadyIsValid(a))
<1>1. IInv => \A a \in Assessments : Coverage(a) \notin 80..99 => ReadyIsValid(a)
  BY ReadyWhenCovered
<1> QED
  BY <1>1, InductiveInvariant, PTL
=============================================================================
