--------------------------- MODULE RiskActivation ---------------------------
(***************************************************************************)
(* The governed residual risk of one vendor: a review of the proposed value *)
(* (RRA-1.0), its execution (RAE-1.0), the validity of what was activated   *)
(* (RAV-1.0), revalidation cases, and monitoring events, which overwrite    *)
(* the same score.                                                          *)
(*                                                                         *)
(* Every click of a user is one RUN of the page script.  A run opens a      *)
(* database session, loads the vendor row, evaluates the policies, and      *)
(* writes and commits.  The session hands back the attribute values it      *)
(* loaded first whenever it meets the row again, takes no lock and checks   *)
(* no row version, and its UPDATE names only the columns whose value        *)
(* changed.  Runs of different users interleave between those steps.        *)
(***************************************************************************)
EXTENDS RiskPolicy, Authz, Sequences

CONSTANTS Users,               \* signed-in principals
          Role,                \* the role of each
          Assessments,         \* assessments of the vendor
          InitialExternal,     \* vendors.external_risk_score at intake, points
          DispositionInputs,   \* dispositions recorded in this instance
          Severities,          \* severities of the monitoring events recorded
          Conditions,          \* vendor-wide guardrails that come and go here
          Deployable,          \* policies a redeployment may bring a new version of
          MaxReviews,          \* bound on recorded activation reviews
          MaxEvents,           \* bound on recorded monitoring events
          MaxRedeploys         \* bound on redeployments

Policies == {"RRA", "RRR", "RR", "RAE"}

ASSUME RoleAssumption == Role \in [Users -> Roles]
ASSUME InitialExternalAssumption == InitialExternal \in Points
ASSUME DispositionInputsAssumption == DispositionInputs \subseteq Dispositions
ASSUME SeveritiesAssumption ==
    Severities \subseteq {"Low", "Moderate", "High", "Critical"}
ASSUME ConditionsAssumption ==
    Conditions \subseteq {"UNRESOLVED_CRITICAL_FINDING", "REQUIRED_EVIDENCE_EXPIRED"}
ASSUME DeployableAssumption == Deployable \subseteq Policies
ASSUME BoundsAssumption ==
    MaxReviews \in Nat /\ MaxEvents \in Nat /\ MaxRedeploys \in Nat

VARIABLES
    vendor,        \* the committed row: residual, rating, external
    dispositions,  \* per assessment, the verified disposition of each control
    complete,      \* per assessment, whether its status is "Completed"
    conditions,    \* vendor-wide guardrails now true: critical finding, expired evidence
    events,        \* monitoring events recorded so far
    incidents,     \* those of severity Critical that are still open
    deployed,      \* policy versions of the running build
    reviews,       \* residual_risk_activation_records, in insertion order
    executions,    \* residual_risk_activation_executions, in insertion order
    cases,         \* revalidation_cases, in insertion order
    run,           \* per user, the page run in flight
    shown          \* per user, the decision the last rendered page displays

records   == <<reviews, executions, cases>>
assurance == <<dispositions, complete, conditions>>
vars == <<vendor, assurance, events, incidents, deployed, records, run, shown>>

-----------------------------------------------------------------------------
(* The rows *)

Vendors == [residual : Score, rating : Ratings, external : Points]

\* What RRA-1.0 decides, and what the page that displays it remembers.
Decisions ==
    [stored : Score, proposed : Score, rating : Ratings, mode : Modes,
     blocking : SUBSET BlockingReasons]

NotShown == [ready |-> FALSE]
Displays == [assessment : Assessments, ready : BOOLEAN, proposed : Score]

Lineage == [{"RRA", "RRR", "RR"} -> Nat]

Reviews ==
    [analyst : Users, assessment : Assessments, decision : Decisions,
     system_ready : BOOLEAN, analyst_approved : BOOLEAN,
     activation_eligible : BOOLEAN, lineage : Lineage]

Executions ==
    [review : Nat, assessment : Assessments, previous : Score,
     activated : Score, rating : Ratings, lineage : [Policies -> Nat]]

Cases ==
    [execution : Nat, trigger : {"Challenged", "Revalidation Required"},
     reasons : SUBSET ValidityReasons, current : Score]

\* A run is idle, or has loaded the vendor row, or has evaluated the policies
\* for the write its form asked for.
Idle == [step |-> "idle"]
Runs ==
    {Idle}
    \cup [step : {"started"}, vendor : Vendors]
    \cup [step : {"decided"}, assessment : Assessments, decision : Decisions]
    \cup [step : {"checked"}, vendor : Vendors, review : Nat]
    \cup [step : {"snapshot"}, case : Cases]

-----------------------------------------------------------------------------
(* What a run computes from the rows it reads *)

severity_bump(severity) ==
    CASE severity = "Low" -> 2
      [] severity = "Moderate" -> 5
      [] severity = "High" -> 10
      [] OTHER -> 25

\* Intake, the demo seed and monitoring score a vendor in this one way.
scored_vendor(external) ==
    LET score == calculate_residual_risk(Legacy, external)
    IN  [residual |-> score, rating |-> rating_from_score(score),
         external |-> external]

triggered_guardrails(a) ==
    (IF incidents > 0 THEN {"ACTIVE_CRITICAL_SECURITY_INCIDENT"} ELSE {})
    \cup conditions
    \cup (IF complete[a] THEN {} ELSE {"ASSESSMENT_INCOMPLETE"})

activation_decision(a, row) ==
    LET guarded == select_control_effectiveness_input(
                       evaluate_control_effectiveness(dispositions[a]))
    IN  evaluate_residual_risk_activation(
            reconcile_residual_risk(row.residual, row.external, guarded),
            evaluate_residual_risk(guarded.input, row.external,
                                   triggered_guardrails(a)),
            triggered_guardrails(a))

ExecutionsOf(a) == {e \in DOMAIN executions : executions[e].assessment = a}

\* Mutant: the history is read oldest first.
first_execution(a) ==
    CHOOSE e \in ExecutionsOf(a) : \A f \in ExecutionsOf(a) : e <= f

latest_execution(a) ==
    CHOOSE e \in ExecutionsOf(a) : \A f \in ExecutionsOf(a) : f <= e

validity_reasons(e, residual) ==
    evaluate_residual_risk_activation_validity(
        executions[e].activated, residual,
        evaluate_control_effectiveness(dispositions[executions[e].assessment]),
        complete[executions[e].assessment],
        executions[e].lineage = deployed)

\* Mutant: the service's check and the constraint are both missing.
executed_again(r) == r \in DOMAIN reviews

\* The two UNIQUE constraints.
unexecuted(r)   == \A e \in DOMAIN executions : executions[e].review # r
without_case(e) == \A c \in DOMAIN cases : cases[c].execution # e

current_lineage == [p \in {"RRA", "RRR", "RR"} |-> deployed[p]]

\* Mutant: a write that forgets one column.
update_vendor_without_rating(cached, written) ==
    [vendor EXCEPT !.residual = written.residual, !.external = written.external]

\* An UPDATE of the vendor row by a session that loaded `cached`: a column
\* whose new value equals the cached one is not named.
update_vendor(cached, written) ==
    [residual |-> IF written.residual = cached.residual
                  THEN vendor.residual ELSE written.residual,
     rating   |-> IF written.rating = cached.rating
                  THEN vendor.rating ELSE written.rating,
     external |-> IF written.external = cached.external
                  THEN vendor.external ELSE written.external]

-----------------------------------------------------------------------------
(* Page runs *)

\* render_vendors, first query: every Vendor enters the session.
start_run(u) ==
    /\ run[u] = Idle
    /\ run' = [run EXCEPT ![u] = [step |-> "started", vendor |-> vendor]]
    /\ UNCHANGED <<vendor, assurance, events, incidents, deployed, records, shown>>

\* A run with no form submitted: the decision is displayed.
render(u, a) ==
    /\ run[u].step = "started"
    /\ LET decision == activation_decision(a, run[u].vendor)
       IN  shown' = [shown EXCEPT ![u] =
                       [assessment |-> a, ready |-> decision.blocking = {},
                        proposed |-> decision.proposed]]
    /\ run' = [run EXCEPT ![u] = Idle]
    /\ UNCHANGED <<vendor, assurance, events, incidents, deployed, records>>

\* The run "Record Activation Review" starts: everything is computed again.
evaluate_activation(u, a) ==
    /\ run[u].step = "started"
    /\ shown[u] # NotShown /\ shown[u].assessment = a
    /\ can(Role[u], "assessment.manage")
    /\ run' = [run EXCEPT ![u] =
                 [step |-> "decided", assessment |-> a,
                  decision |-> activation_decision(a, run[u].vendor)]]
    /\ UNCHANGED <<vendor, assurance, events, incidents, deployed, records, shown>>

\* An analyst-approved decision must be eligible, that is, unblocked.
approvable(decision, approved) == approved => decision.blocking = {}

\* The checkbox is enabled when the displayed decision was ready.
save_residual_risk_activation_review(u, approved) ==
    /\ run[u].step = "decided"
    /\ approved => shown[u].ready
    /\ approvable(run[u].decision, approved)
    /\ Len(reviews) < MaxReviews
    /\ LET decision == run[u].decision
       IN  reviews' = Append(reviews,
               [analyst |-> u, assessment |-> run[u].assessment,
                decision |-> decision,
                system_ready |-> decision.blocking = {},
                analyst_approved |-> approved,
                activation_eligible |-> decision.blocking = {} /\ approved,
                lineage |-> current_lineage])
    /\ run' = [run EXCEPT ![u] = Idle]
    /\ shown' = [shown EXCEPT ![u] = NotShown]
    /\ UNCHANGED <<vendor, assurance, events, incidents, deployed, executions, cases>>

\* Mutants: one check of the service is missing.
executable_when_stale(r, row) ==
    /\ reviews[r].activation_eligible
    /\ reviews[r].lineage = current_lineage

executable_when_ready(r, row) ==
    /\ reviews[r].system_ready
    /\ reviews[r].lineage = current_lineage
    /\ row.residual = reviews[r].decision.stored

executable_under_old_policy(r, row) ==
    /\ reviews[r].activation_eligible
    /\ row.residual = reviews[r].decision.stored

\* What execute_residual_risk_activation requires of the review it is given;
\* `row` is the vendor as this session knows it.
executable(r, row) ==
    /\ reviews[r].system_ready
    /\ reviews[r].analyst_approved
    /\ reviews[r].activation_eligible
    /\ reviews[r].decision.blocking = {}
    /\ reviews[r].decision.mode = "Governed"
    /\ reviews[r].lineage = current_lineage
    /\ row.residual = reviews[r].decision.stored

\* The run "Activate Approved Residual Risk" starts: the service's checks.
check_activation(u, r) ==
    /\ run[u].step = "started"
    /\ shown[u] # NotShown /\ shown[u].assessment = reviews[r].assessment
    /\ can(Role[u], "vendor.write")
    /\ unexecuted(r)
    /\ executable(r, run[u].vendor)
    /\ run' = [run EXCEPT ![u] =
                 [step |-> "checked", vendor |-> run[u].vendor, review |-> r]]
    /\ UNCHANGED <<vendor, assurance, events, incidents, deployed, records, shown>>

\* The flush and commit: UPDATE vendors, INSERT under its UNIQUE constraint.
execute_residual_risk_activation(u) ==
    /\ run[u].step = "checked"
    /\ unexecuted(run[u].review)
    /\ LET cached == run[u].vendor
           review == reviews[run[u].review]
       IN  /\ vendor' = update_vendor(cached,
                  [cached EXCEPT !.residual = review.decision.proposed,
                                 !.rating   = review.decision.rating])
           /\ executions' = Append(executions,
                  [review |-> run[u].review, assessment |-> review.assessment,
                   previous |-> cached.residual,
                   activated |-> review.decision.proposed,
                   rating |-> review.decision.rating,
                   lineage |-> [p \in Policies |->
                                  IF p = "RAE" THEN deployed[p]
                                               ELSE review.lineage[p]]])
    /\ run' = [run EXCEPT ![u] = Idle]
    /\ shown' = [shown EXCEPT ![u] = NotShown]
    /\ UNCHANGED <<assurance, events, incidents, deployed, reviews, cases>>

\* The run "Open Revalidation Case" starts: the snapshot of the trigger.
build_revalidation_case_snapshot(u, a) ==
    /\ run[u].step = "started"
    /\ shown[u] # NotShown /\ shown[u].assessment = a
    /\ can(Role[u], "assessment.manage")
    /\ ExecutionsOf(a) # {}
    /\ LET e       == latest_execution(a)
           reasons == validity_reasons(e, run[u].vendor.residual)
       IN  /\ reasons # {}
           /\ without_case(e)
           /\ run' = [run EXCEPT ![u] =
                [step |-> "snapshot",
                 case |-> [execution |-> e, trigger |-> validity_status(reasons),
                           reasons |-> reasons,
                           current |-> run[u].vendor.residual]]]
    /\ UNCHANGED <<vendor, assurance, events, incidents, deployed, records, shown>>

open_revalidation_case(u) ==
    /\ run[u].step = "snapshot"
    /\ without_case(run[u].case.execution)
    /\ cases' = Append(cases, run[u].case)
    /\ run' = [run EXCEPT ![u] = Idle]
    /\ shown' = [shown EXCEPT ![u] = NotShown]
    /\ UNCHANGED <<vendor, assurance, events, incidents, deployed, reviews, executions>>

\* "Record event" on the Monitoring page: the vendor is scored again from the
\* legacy effectiveness, in the run that loaded it.
monitoring_create(u, severity) ==
    /\ run[u].step = "started"
    /\ can(Role[u], "monitoring.manage")
    /\ events < MaxEvents
    /\ LET cached   == run[u].vendor
           bumped   == cached.external + severity_bump(severity)
       IN  vendor' = update_vendor(cached,
                         scored_vendor(IF bumped > 100 THEN 100 ELSE bumped))
    /\ events' = events + 1
    /\ incidents' = IF severity = "Critical" THEN incidents + 1 ELSE incidents
    /\ run' = [run EXCEPT ![u] = Idle]
    /\ shown' = [shown EXCEPT ![u] = NotShown]
    /\ UNCHANGED <<assurance, deployed, records>>

\* A refused write, an exception or a dropped connection: session.rollback().
rollback(u) ==
    /\ run[u] # Idle
    /\ run' = [run EXCEPT ![u] = Idle]
    /\ UNCHANGED <<vendor, assurance, events, incidents, deployed, records, shown>>

-----------------------------------------------------------------------------
(* What the other pages and the calendar change *)

\* A newer disposition of a control wins; none is ever withdrawn.
save_control_disposition(a, c, disposition) ==
    /\ dispositions' = [dispositions EXCEPT ![a][c] = disposition]
    /\ UNCHANGED <<vendor, complete, conditions, events, incidents, deployed,
                   records, run, shown>>

\* "Save assessment update": any status may follow any other.
update_assessment(a) ==
    /\ complete' = [complete EXCEPT ![a] = ~complete[a]]
    /\ UNCHANGED <<vendor, dispositions, conditions, events, incidents, deployed,
                   records, run, shown>>

\* A critical finding is raised or closed; required evidence expires or is
\* replaced.
change_condition(condition) ==
    /\ conditions' = IF condition \in conditions THEN conditions \ {condition}
                                                 ELSE conditions \cup {condition}
    /\ UNCHANGED <<vendor, dispositions, complete, events, incidents, deployed,
                   records, run, shown>>

\* The analyst dismisses an event: its status becomes "Closed".
close_incident ==
    /\ incidents > 0
    /\ incidents' = incidents - 1
    /\ UNCHANGED <<vendor, assurance, events, deployed, records, run, shown>>

\* A build with a newer policy replaces the running one; its pages die with it.
redeploy(p) ==
    /\ deployed[p] < MaxRedeploys
    /\ deployed' = [deployed EXCEPT ![p] = @ + 1]
    /\ run' = [u \in Users |-> Idle]
    /\ shown' = [u \in Users |-> NotShown]
    /\ UNCHANGED <<vendor, assurance, events, incidents, records>>

-----------------------------------------------------------------------------
Init ==
    /\ vendor = scored_vendor(InitialExternal)
    /\ dispositions = [a \in Assessments |-> [c \in Controls |-> Undecided]]
    /\ complete = [a \in Assessments |-> FALSE]
    /\ conditions = {}
    /\ events = 0
    /\ incidents = 0
    /\ deployed = [p \in Policies |-> 0]
    /\ reviews = <<>>
    /\ executions = <<>>
    /\ cases = <<>>
    /\ run = [u \in Users |-> Idle]
    /\ shown = [u \in Users |-> NotShown]

PageRun(u) ==
    \/ start_run(u)
    \/ \E a \in Assessments :
         \/ render(u, a)
         \/ evaluate_activation(u, a)
         \/ build_revalidation_case_snapshot(u, a)
    \/ \E approved \in BOOLEAN : save_residual_risk_activation_review(u, approved)
    \/ \E r \in DOMAIN reviews : check_activation(u, r)
    \/ execute_residual_risk_activation(u)
    \/ open_revalidation_case(u)
    \/ \E severity \in Severities : monitoring_create(u, severity)
    \/ rollback(u)

Elsewhere ==
    \/ \E a \in Assessments, c \in Controls, d \in DispositionInputs :
         save_control_disposition(a, c, d)
    \/ \E a \in Assessments : update_assessment(a)
    \/ \E condition \in Conditions : change_condition(condition)
    \/ close_incident
    \/ \E p \in Deployable : redeploy(p)

Next == (\E u \in Users : PageRun(u)) \/ Elsewhere

Spec == Init /\ [][Next]_vars
-----------------------------------------------------------------------------
(* Properties *)

\* Every variable holds rows, runs and displays of the kinds above.
TypeOK ==
    /\ vendor \in Vendors
    /\ dispositions \in [Assessments -> [Controls -> Dispositions \cup {Undecided}]]
    /\ complete \in [Assessments -> BOOLEAN]
    /\ conditions \in SUBSET Conditions
    /\ events \in Nat
    /\ incidents \in Nat
    /\ deployed \in [Policies -> Nat]
    /\ reviews \in Seq(Reviews)
    /\ executions \in Seq(Executions)
    /\ cases \in Seq(Cases)
    /\ run \in [Users -> Runs]
    /\ shown \in [Users -> Displays \cup {NotShown}]

\* However the runs of two executors interleave, a review is executed at most
\* once (the service's check, and UNIQUE(activation_review_id) behind it).
AtMostOneExecutionPerReview ==
    \A e, f \in DOMAIN executions :
        executions[e].review = executions[f].review => e = f

\* However the runs of two analysts interleave, an execution has at most one
\* revalidation case (the service's check, and its UNIQUE constraint).
OneCasePerExecution ==
    \A c, d \in DOMAIN cases : cases[c].execution = cases[d].execution => c = d

\* What was activated is what an authorised analyst approved: the execution
\* records an existing review of the same assessment, eligible and unblocked in
\* Governed mode, and its two scores and its rating are the reviewed ones.
ExecutionMatchesReview ==
    \A e \in DOMAIN executions :
        /\ executions[e].review \in DOMAIN reviews
        /\ LET review == reviews[executions[e].review]
           IN  /\ can(Role[review.analyst], "assessment.manage")
               /\ review.analyst_approved
               /\ review.decision.blocking = {}
               /\ review.decision.mode = "Governed"
               /\ executions[e].assessment = review.assessment
               /\ executions[e].previous = review.decision.stored
               /\ executions[e].activated = review.decision.proposed
               /\ executions[e].rating = review.decision.rating

\* The activated rating is the rating of the activated score: a guardrail that
\* raises a rating also blocks the review, so none survives to an execution.
ActivatedRatingFollowsScore ==
    \A e \in DOMAIN executions :
        executions[e].rating = rating_from_score(executions[e].activated)

\* A case keeps a true trigger: it names an execution of the log, has a reason,
\* and says "Challenged" exactly when the score it saw is not the activated one.
CaseTriggerSound ==
    \A c \in DOMAIN cases :
        /\ cases[c].execution \in DOMAIN executions
        /\ cases[c].reasons # {}
        /\ (cases[c].trigger = "Challenged") <=>
              (cases[c].current # executions[cases[c].execution].activated)

\* The rating of the vendor row is the rating of its score, after any sequence
\* of activations and monitoring events.
RatingFollowsScore == vendor.rating = rating_from_score(vendor.residual)

Activated == Len(executions') > Len(executions)
Activation == executions'[Len(executions')]

\* An activation replaces the score it was reviewed against: at the commit, the
\* authoritative score is still the reviewed one.
ActivationAppliesToReviewedScore ==
    [][Activated => vendor.residual = reviews[Activation.review].decision.stored]_vars

\* After the commit of an activation the row holds the approved score and rating.
ActivationTakesEffect ==
    [][Activated => /\ vendor'.residual = Activation.activated
                    /\ vendor'.rating = Activation.rating]_vars

\* An activation runs under the policies its review was made under: no review
\* outlives a redeployment of RRA, RRR or RR.
ActivationUnderCurrentPolicy ==
    [][Activated => Activation.lineage = deployed]_vars

\* A case is opened for the latest activation of its assessment, with the score
\* that is authoritative when it is opened.
CaseOpenedOnCurrentState ==
    [][Len(cases') > Len(cases) =>
         LET opened == cases'[Len(cases')]
         IN  /\ \A e \in DOMAIN executions :
                   executions[e].assessment = executions[opened.execution].assessment
                   => e <= opened.execution
             /\ opened.current = vendor.residual]_vars
=============================================================================
