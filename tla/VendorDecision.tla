-------------------------- MODULE VendorDecision --------------------------
(***************************************************************************)
(* The record of one vendor and the decision to approve it.  Intake creates *)
(* the vendor and its engagement; documents are registered as evidence, and *)
(* the exceptions that an analysis of a document found become findings;     *)
(* findings are remediated, accepted and escalated; the risk decision gate  *)
(* weighs evidence, findings, reassessments and residual risk, and an       *)
(* approver decides, against the gate if he says so.  Each of these writes  *)
(* the audit log.                                                          *)
(*                                                                         *)
(* Every click is one RUN of a page, which reads rows query by query and    *)
(* then writes; runs of different users interleave at every query and every *)
(* commit, and a run may die anywhere.  An UPDATE names the columns that    *)
(* differ from what the run read.                                          *)
(***************************************************************************)
EXTENDS Integers, Sequences, FiniteSets, Authz

CONSTANTS Users,               \* browser sessions, each of another principal
          Role,                \* the role of each
          Requirements,        \* the document types a vendor may be asked for
          EngagementEvidence,  \* those asked for because of its engagement
          Files,               \* the files analysts have
          FileName, Exceptions,\* their names, the severities of their exceptions
          None,                \* no file, no vendor
          Scores,              \* the residual risk scores that occur
          AssessmentStatuses,  \* the statuses analysts use here
          FindingStatuses,     \* of findings
          NewSeverities,       \* the severities of the findings they write
          Escalations,         \* of escalations, besides "Not Escalated"
          Decisions,           \* of decisions
          Targets,             \* of target dates; "" is none
          Window,              \* of duplicate submissions, in ticks of the clock
          MaxAssessments, MaxEvidence, MaxFindings, MaxApprovals, MaxClock

Statuses == {"Open", "In Remediation", "Risk Accepted", "Closed"}
EscalationStatuses ==
    {"Escalated", "Vendor Action Required", "Management Review",
     "Risk Acceptance Review", "Resolved"}
HumanDecisions == {"Approved", "Approved with Conditions", "Rejected", "Deferred"}
ReassessmentStatuses ==
    {"Not Started", "In Progress", "Vendor Responding", "Analyst Review",
     "Completed", "Closed"}
Severities == {"Low", "Moderate", "High", "Critical"}

ASSUME UsersAssumption == Role \in [Users -> Roles]
ASSUME EvidenceAssumption ==
    /\ EngagementEvidence \subseteq Requirements
    /\ None \notin Files
    /\ Exceptions \in [Files -> Seq(Severities)]
    /\ DOMAIN FileName = Files
ASSUME ChoicesAssumption ==
    /\ Scores \subseteq 0..100
    /\ AssessmentStatuses \subseteq ReassessmentStatuses
    /\ FindingStatuses \subseteq Statuses
    /\ NewSeverities \subseteq Severities
    /\ Escalations \subseteq EscalationStatuses
    /\ Decisions \subseteq HumanDecisions
    /\ "" \in Targets
ASSUME BoundsAssumption ==
    {Window, MaxAssessments, MaxEvidence, MaxFindings, MaxApprovals, MaxClock} \subseteq Nat

VARIABLES
    vendor,         \* the vendor's row and whether its engagement exists
    assessments,    \* statuses of its reassessments
    evidence,       \* its evidence rows
    findings,       \* its findings
    approvals,      \* its approval decisions
    audit,          \* the audit log
    clock,          \* the time
    run,            \* per user, the page run in flight
    form,           \* per user, the upload and the analysis of the evidence page
    shown,          \* per user, what the last run of the vendor page displayed
    standing        \* per user, the blockers there were at every moment of the run

rows == <<vendor, assessments, evidence, findings, approvals, audit>>
vars == <<rows, clock, run, form, shown, standing>>

-----------------------------------------------------------------------------
(* The rows *)

VendorRows == [residual : Scores, engaged : BOOLEAN]

\* Before intake there is no row.
ASSUME NoneAssumption == None \notin VendorRows

\* file is what was stored, analysis the file whose extraction was saved with it.
EvidenceRows ==
    [type : Requirements, file : Files \cup {None}, analysis : Files \cup {None},
     expired : BOOLEAN]

\* evidence is 0 for a finding an analyst wrote.
FindingRows ==
    [evidence : Nat, index : Nat, severity : Severities, status : Statuses,
     target : Targets, escalation : EscalationStatuses \cup {"Not Escalated"},
     escalated_by : Users \cup {None}, escalated_at : Nat]

\* One entry per requirement, finding or assessment that is in the way.
Reasons ==
    ({"evidence_incomplete"} \X Requirements)
    \cup ({"high_risk_finding", "open_reassessment", "critical_residual_risk",
           "high_residual_risk"} \X Nat)
blocking(reasons) == {r \in reasons : r[1] # "high_residual_risk"}

Outcomes == {"Approve", "Approve with Conditions", "Further Review Required"}
ApprovalRows ==
    [approver : Users, decision : HumanDecisions, recommendation : Outcomes,
     reasons : SUBSET Reasons, override : BOOLEAN]

Events ==
    {"vendor.create", "evidence.register", "finding.create", "finding.update",
     "finding.escalation_update", "approval_decision.create", "assessment.create",
     "assessment.update", "monitoring.create"}
Words ==
    Statuses \cup Severities \cup ReassessmentStatuses \cup HumanDecisions \cup Outcomes
    \cup EscalationStatuses \cup {"Not Escalated"} \cup Targets
AuditRows ==
    [actor : Users, action : Events, object : Nat, details : Seq(Words), at : Nat]

\* Files are told apart by a SHA-256 of their bytes.
\* Mutant: by their names.
name_hash(f) == FileName[f]
file_hash(f) == f

-----------------------------------------------------------------------------
(* The risk decision gate *)

required_evidence(engaged) ==
    IF engaged THEN Requirements ELSE Requirements \ EngagementEvidence

missing(required, held) ==
    {q \in required : \A e \in DOMAIN held : held[e].type = q => held[e].expired}

high_risk(finding) ==
    finding.severity \in {"Critical", "High"} /\ finding.status \notin {"Closed", "Risk Accepted"}

evidence_reasons(required, held) ==
    {"evidence_incomplete"} \X missing(required, held)
finding_reasons(found) ==
    {"high_risk_finding"} \X {f \in DOMAIN found : high_risk(found[f])}
reassessment_reasons(statuses) ==
    {"open_reassessment"} \X {a \in DOMAIN statuses : statuses[a] \notin {"Completed", "Closed"}}
risk_reasons(residual) ==
    CASE residual >= 75 -> {<<"critical_residual_risk", 0>>}
      [] residual \in 50..74 -> {<<"high_residual_risk", 0>>}
      [] OTHER -> {}

outcome(reasons) ==
    IF blocking(reasons) # {} THEN "Further Review Required"
    ELSE IF reasons # {} THEN "Approve with Conditions"
    ELSE "Approve"

\* What is in the way of an approval right now.
blockers ==
    IF vendor = None THEN {}
    ELSE blocking(
           evidence_reasons(required_evidence(vendor.engaged), evidence)
           \cup finding_reasons(findings)
           \cup reassessment_reasons(assessments)
           \cup risk_reasons(vendor.residual))

-----------------------------------------------------------------------------
(* Runs *)

Idle == [stage |-> "Idle"]
Runs ==
    {Idle}
    \cup [stage : {"Intake"}]
    \cup [stage : {"Register"}, evidence : Nat]
    \cup [stage : {"Findings"}, read : Seq(FindingRows)]
    \cup [stage : {"Profile"}, residual : Scores]
    \cup [stage : {"Evidence"}, residual : Scores, required : SUBSET Requirements]
    \cup [stage : {"Gate findings", "Gate assessments", "Gate"},
          residual : Scores, reasons : SUBSET Reasons]

NothingShown == [reasons |-> {}, acknowledgement |-> FALSE]

go(u, next) == run' = [run EXCEPT ![u] = next]

\* Another page takes the widgets of the vendor page away.
may_open(u, permission) ==
    /\ run[u] = Idle
    /\ can(Role[u], permission)
    /\ shown' = [shown EXCEPT ![u] = NothingShown]

\* A repeat by the same actor within the window is taken for a double submit.
\* Mutant: whatever its details are.
same_target_repeat(row, event) ==
    /\ [row EXCEPT !.at = event.at, !.details = event.details] = event
    /\ row.at >= event.at - Window

is_repeat(row, event) ==
    /\ [row EXCEPT !.at = event.at] = event
    /\ row.at >= event.at - Window

record_audit_event(u, action, object, details) ==
    LET event == [actor |-> u, action |-> action, object |-> object,
                  details |-> details, at |-> clock]
    IN  audit' = audit \cup
            (IF \E row \in audit : is_repeat(row, event) THEN {} ELSE {event})

\* The columns that differ from what was read.
merged(row, read, new) ==
    [c \in DOMAIN row |-> IF new[c] # read[c] THEN new[c] ELSE row[c]]

-----------------------------------------------------------------------------
(* Intake: the vendor is committed before its engagement *)

create_vendor(u, residual) ==
    /\ may_open(u, "vendor.write")
    /\ vendor = None
    /\ vendor' = [residual |-> residual, engaged |-> FALSE]
    /\ go(u, [stage |-> "Intake"])
    /\ UNCHANGED <<assessments, evidence, findings, approvals, audit, clock, form>>

create_engagement(u) ==
    /\ run[u].stage = "Intake"
    /\ vendor' = [vendor EXCEPT !.engaged = TRUE]
    /\ record_audit_event(u, "vendor.create", 1, <<>>)
    /\ go(u, Idle)
    /\ UNCHANGED <<assessments, evidence, findings, approvals, clock, form, shown>>

-----------------------------------------------------------------------------
(* Evidence page: the upload and its analysis live in the browser session *)

kept_analysis(stored, file) ==
    IF file = None \/ stored = None THEN None
    ELSE IF file_hash(stored) = file_hash(file) THEN stored
    ELSE None

choose_file(u, file) ==
    /\ may_open(u, "evidence.upload")
    /\ vendor # None
    /\ file # form[u].file
    /\ form' = [form EXCEPT ![u] =
                  [file |-> file, analysis |-> kept_analysis(form[u].analysis, file)]]
    /\ UNCHANGED <<rows, clock, run>>

\* An analysis that fails leaves none.
analyze(u, succeeds) ==
    /\ may_open(u, "evidence.upload")
    /\ vendor # None
    /\ form[u].file # None
    /\ form' = [form EXCEPT ![u].analysis = IF succeeds THEN form[u].file ELSE None]
    /\ UNCHANGED <<rows, clock, run>>

\* Saving what was extracted takes a confirmation; the row is committed first.
save_evidence(u, type, confirmed) ==
    LET analysis == kept_analysis(form[u].analysis, form[u].file) IN
    /\ may_open(u, "evidence.upload")
    /\ vendor # None
    /\ Len(evidence) < MaxEvidence
    /\ analysis # None => confirmed
    /\ evidence' = Append(evidence,
                     [type |-> type, file |-> form[u].file,
                      analysis |-> analysis, expired |-> FALSE])
    /\ go(u, [stage |-> "Register", evidence |-> Len(evidence) + 1])
    /\ UNCHANGED <<vendor, assessments, findings, approvals, audit, clock, form>>

exceptions_of(e) ==
    IF evidence[e].analysis = None THEN <<>> ELSE Exceptions[evidence[e].analysis]

\* Mutant: severity and status are swapped.
swapped_finding(e, i, severity, target) ==
    [evidence |-> e, index |-> i, severity |-> "Open", status |-> severity,
     target |-> target, escalation |-> "Not Escalated",
     escalated_by |-> None, escalated_at |-> 0]

new_finding(e, i, severity, target) ==
    [evidence |-> e, index |-> i, severity |-> severity, status |-> "Open",
     target |-> target, escalation |-> "Not Escalated",
     escalated_by |-> None, escalated_at |-> 0]

\* Mutant: the first exception is skipped.
findings_but_first(e) ==
    [i \in 1..(Len(exceptions_of(e)) - 1) |->
        new_finding(e, i + 1, exceptions_of(e)[i + 1], "")]

\* One finding per exception, without a target date.
findings_from(e) ==
    [i \in DOMAIN exceptions_of(e) |-> new_finding(e, i, exceptions_of(e)[i], "")]

register_findings(u) ==
    /\ run[u].stage = "Register"
    /\ Len(findings) + Len(exceptions_of(run[u].evidence)) <= MaxFindings
    /\ findings' = findings \o findings_from(run[u].evidence)
    /\ record_audit_event(u, "evidence.register", run[u].evidence, <<>>)
    /\ form' = [form EXCEPT ![u].analysis = None]
    /\ go(u, Idle)
    /\ UNCHANGED <<vendor, assessments, evidence, approvals, clock, shown>>

-----------------------------------------------------------------------------
(* Findings page *)

create_finding(u, severity, target) ==
    /\ may_open(u, "finding.manage")
    /\ vendor # None
    /\ Len(findings) < MaxFindings
    /\ findings' = Append(findings, new_finding(0, 0, severity, target))
    /\ record_audit_event(u, "finding.create", Len(findings) + 1, <<severity, target>>)
    /\ UNCHANGED <<vendor, assessments, evidence, approvals, clock, run, form>>

start_findings(u) ==
    /\ may_open(u, "finding.manage")
    /\ findings # <<>>
    /\ go(u, [stage |-> "Findings", read |-> findings])
    /\ UNCHANGED <<rows, clock, form>>

write_finding(u, f, new) ==
    findings' = [findings EXCEPT ![f] = merged(findings[f], run[u].read[f], new)]

update_finding(u, f, status, target) ==
    /\ run[u].stage = "Findings"
    /\ f \in DOMAIN run[u].read
    /\ write_finding(u, f, [run[u].read[f] EXCEPT !.status = status, !.target = target])
    /\ record_audit_event(u, "finding.update", f, <<status, target>>)
    /\ go(u, Idle)
    /\ UNCHANGED <<vendor, assessments, evidence, approvals, clock, form, shown>>

escalated(read, u, escalation, target) ==
    IF escalation = "Not Escalated"
    THEN [read EXCEPT !.escalation = escalation, !.target = target]
    ELSE [read EXCEPT !.escalation = escalation, !.target = target,
                      !.escalated_by = u, !.escalated_at = clock]

\* The row is queried again, which returns the one the run has read.
save_escalation(u, f, escalation, target) ==
    /\ run[u].stage = "Findings"
    /\ f \in DOMAIN run[u].read
    /\ write_finding(u, f, escalated(run[u].read[f], u, escalation, target))
    /\ record_audit_event(u, "finding.escalation_update", f,
                          <<run[u].read[f].escalation, escalation, target>>)
    /\ go(u, Idle)
    /\ UNCHANGED <<vendor, assessments, evidence, approvals, clock, form, shown>>

-----------------------------------------------------------------------------
(* Vendor page: the gate is worked out query by query *)

start_vendor_page(u) ==
    /\ run[u] = Idle
    /\ can(Role[u], "vendor.read")
    /\ vendor # None
    /\ go(u, [stage |-> "Profile", residual |-> vendor.residual])
    /\ UNCHANGED <<rows, clock, form, shown>>

read_profile(u) ==
    /\ run[u].stage = "Profile"
    /\ go(u, [stage |-> "Evidence", residual |-> run[u].residual,
              required |-> required_evidence(vendor.engaged)])
    /\ UNCHANGED <<rows, clock, form, shown>>

found(u, next, reasons) ==
    go(u, [stage |-> next, residual |-> run[u].residual, reasons |-> reasons])

read_evidence(u) ==
    /\ run[u].stage = "Evidence"
    /\ found(u, "Gate findings", evidence_reasons(run[u].required, evidence))
    /\ UNCHANGED <<rows, clock, form, shown>>

\* Mutant: what the evidence is missing is forgotten.
read_findings_anew(u) ==
    /\ run[u].stage = "Gate findings"
    /\ found(u, "Gate assessments", finding_reasons(findings))
    /\ UNCHANGED <<rows, clock, form, shown>>

read_findings(u) ==
    /\ run[u].stage = "Gate findings"
    /\ found(u, "Gate assessments", run[u].reasons \cup finding_reasons(findings))
    /\ UNCHANGED <<rows, clock, form, shown>>

evaluate_vendor_decision(u) ==
    /\ run[u].stage = "Gate assessments"
    /\ found(u, "Gate", run[u].reasons \cup reassessment_reasons(assessments)
                                       \cup risk_reasons(run[u].residual))
    /\ UNCHANGED <<rows, clock, form, shown>>

\* The acknowledgement is asked for when the decision submitted, or kept by the
\* form from the last submission, approves against the gate.
display(u, acknowledgement) ==
    shown' = [shown EXCEPT ![u] =
                [reasons |-> run[u].reasons, acknowledgement |-> acknowledgement]]

overrides(reasons, decision) ==
    /\ outcome(reasons) = "Further Review Required"
    /\ decision \in {"Approved", "Approved with Conditions"}

\* Mutant: a box that was not displayed before counts as ticked.
ticked_by_default(u) == TRUE

\* A box can be ticked that the last run displayed; a new one is not ticked.
ticked(u) == shown[u].acknowledgement

\* The page is read, or what is submitted is refused.
display_page(u, decision) ==
    /\ run[u].stage = "Gate"
    /\ display(u, overrides(run[u].reasons, decision))
    /\ go(u, Idle)
    /\ UNCHANGED <<rows, clock, form>>

record_approval(u, decision) ==
    /\ run[u].stage = "Gate"
    /\ Len(approvals) < MaxApprovals
    /\ overrides(run[u].reasons, decision) => ticked(u)
    /\ approvals' = Append(approvals,
                      [approver |-> u, decision |-> decision,
                       recommendation |-> outcome(run[u].reasons),
                       reasons |-> run[u].reasons,
                       override |-> overrides(run[u].reasons, decision)])
    /\ record_audit_event(u, "approval_decision.create", Len(approvals) + 1,
                          <<decision, outcome(run[u].reasons)>>)
    /\ display(u, overrides(run[u].reasons, decision))
    /\ go(u, Idle)
    /\ UNCHANGED <<vendor, assessments, evidence, findings, clock, form>>

-----------------------------------------------------------------------------
(* Around these pages *)

\* A run dies, or its user leaves: what it has not committed is lost.
end_run(u) ==
    /\ run[u] # Idle
    /\ go(u, Idle)
    /\ UNCHANGED <<rows, clock, form, shown>>

\* Assessments of the types that are no reassessment are not in the way.
launch_reassessment(u) ==
    /\ may_open(u, "assessment.manage")
    /\ vendor # None
    /\ Len(assessments) < MaxAssessments
    /\ assessments' = Append(assessments, "In Progress")
    /\ record_audit_event(u, "assessment.create", Len(assessments) + 1, <<>>)
    /\ UNCHANGED <<vendor, evidence, findings, approvals, clock, run, form>>

update_reassessment(u, a, status) ==
    /\ may_open(u, "assessment.manage")
    /\ assessments' = [assessments EXCEPT ![a] = status]
    /\ record_audit_event(u, "assessment.update", a, <<status>>)
    /\ UNCHANGED <<vendor, evidence, findings, approvals, clock, run, form>>

\* A monitoring event gives the vendor another score, worked out elsewhere.
record_event(u, residual) ==
    LET event == Cardinality({row \in audit : row.action = "monitoring.create"}) + 1 IN
    /\ may_open(u, "monitoring.manage")
    /\ vendor # None
    /\ vendor' = [vendor EXCEPT !.residual = residual]
    /\ record_audit_event(u, "monitoring.create", event, <<>>)
    /\ UNCHANGED <<assessments, evidence, findings, approvals, clock, run, form>>

expire(e) ==
    /\ evidence' = [evidence EXCEPT ![e].expired = TRUE]
    /\ UNCHANGED <<vendor, assessments, findings, approvals, audit, clock, run, form, shown>>

tick ==
    /\ clock < MaxClock
    /\ clock' = clock + 1
    /\ UNCHANGED <<rows, run, form, shown>>

Init ==
    /\ vendor = None
    /\ assessments = <<>>
    /\ evidence = <<>>
    /\ findings = <<>>
    /\ approvals = <<>>
    /\ audit = {}
    /\ clock = 0
    /\ run = [u \in Users |-> Idle]
    /\ form = [u \in Users |-> [file |-> None, analysis |-> None]]
    /\ shown = [u \in Users |-> NothingShown]
    /\ standing = [u \in Users |-> {}]

Intake(u) == (\E s \in Scores : create_vendor(u, s)) \/ create_engagement(u)

EvidencePage(u) ==
    \/ \E f \in Files \cup {None} : choose_file(u, f)
    \/ \E b \in BOOLEAN : analyze(u, b)
    \/ \E q \in Requirements, b \in BOOLEAN : save_evidence(u, q, b)
    \/ register_findings(u)

FindingsPage(u) ==
    \/ \E s \in NewSeverities, t \in Targets : create_finding(u, s, t)
    \/ start_findings(u)
    \/ \E f \in DOMAIN findings, t \in Targets :
         \/ \E s \in FindingStatuses : update_finding(u, f, s, t)
         \/ \E x \in Escalations \cup {"Not Escalated"} : save_escalation(u, f, x, t)

VendorPage(u) ==
    \/ start_vendor_page(u)
    \/ read_profile(u)
    \/ read_evidence(u)
    \/ read_findings(u)
    \/ evaluate_vendor_decision(u)
    \/ \E d \in Decisions : display_page(u, d) \/ record_approval(u, d)

Elsewhere(u) ==
    \/ end_run(u)
    \/ launch_reassessment(u)
    \/ \E a \in DOMAIN assessments, s \in AssessmentStatuses : update_reassessment(u, a, s)
    \/ \E s \in Scores : record_event(u, s)

Step ==
    \/ \E u \in Users :
         Intake(u) \/ EvidencePage(u) \/ FindingsPage(u) \/ VendorPage(u) \/ Elsewhere(u)
    \/ \E e \in DOMAIN evidence : expire(e)
    \/ tick

\* What was in the way when a run began and has been since.
watch ==
    standing' = [u \in Users |->
                   IF run'[u] = Idle THEN {}
                   ELSE IF run[u] = Idle THEN blockers'
                   ELSE standing[u] \cap blockers']

Next == Step /\ watch

Spec == Init /\ [][Next]_vars

-----------------------------------------------------------------------------
(* Properties *)

\* Every variable keeps its type.
TypeOK ==
    /\ vendor \in VendorRows \cup {None}
    /\ assessments \in Seq(ReassessmentStatuses)
    /\ evidence \in Seq(EvidenceRows)
    /\ findings \in Seq(FindingRows)
    /\ approvals \in Seq(ApprovalRows)
    /\ audit \subseteq AuditRows
    /\ clock \in Nat
    /\ run \in [Users -> Runs]
    /\ form \in [Users -> [file : Files \cup {None}, analysis : Files \cup {None}]]
    /\ shown \in [Users -> [reasons : SUBSET Reasons, acknowledgement : BOOLEAN]]
    /\ standing \in [Users -> SUBSET Reasons]

\* "The recommendation is based on current evidence, findings, reassessment status
\* and residual risk": what was in the way of an approval from the beginning of the
\* run to its commit is in the reasons the approval is stored with, whatever else
\* changed while the page was read.
GateSeesStandingBlockers ==
    [][\A a \in DOMAIN approvals' \ DOMAIN approvals :
         standing[approvals'[a].approver] \subseteq approvals'[a].reasons]_vars

\* Nobody approves against the gate unless the page he was last shown displayed a
\* reason in the way of an approval; it need not be the reason he then overrides
\* (app.py, render_vendors).
OverrideWasShown ==
    [][\A a \in DOMAIN approvals' \ DOMAIN approvals :
         approvals'[a].override => blocking(shown[approvals'[a].approver].reasons) # {}]_vars

\* A change of a finding's status or target is in the audit log with the values
\* that were written and who wrote them, even when a repeat was dropped.
ChangesAreAudited ==
    [][\A f \in DOMAIN findings :
         \/ findings'[f].status = findings[f].status /\ findings'[f].target = findings[f].target
         \/ \E row \in audit' :
              /\ run[row.actor].stage = "Findings" /\ run'[row.actor] = Idle
              /\ row.object = f
              /\ row.at >= clock - Window
              /\ \/ /\ row.action = "finding.update"
                    /\ findings'[f].status \in {findings[f].status, row.details[1]}
                    /\ findings'[f].target \in {findings[f].target, row.details[2]}
                 \/ /\ row.action = "finding.escalation_update"
                    /\ findings'[f].status = findings[f].status
                    /\ findings'[f].target = row.details[3]]_vars

\* What is registered is registered whole, whichever run died between its commits:
\* a vendor whose creation is in the audit log has its engagement, and the gate asks
\* for what the engagement needs; of the exceptions of an evidence row all have
\* their finding or none has, and all have when the row is in the audit log.
RegistrationIsWhole ==
    /\ (\E row \in audit : row.action = "vendor.create") => vendor # None /\ vendor.engaged
    /\ \A e \in DOMAIN evidence :
         LET linked == {findings[f].index : f \in {g \in DOMAIN findings : findings[g].evidence = e}}
             audited == \E row \in audit : row.action = "evidence.register" /\ row.object = e
         IN  linked = IF audited THEN DOMAIN exceptions_of(e) ELSE {}

\* What an evidence row says was extracted from its document was.
AnalysisOfThisFile ==
    \A e \in DOMAIN evidence : evidence[e].analysis \in {evidence[e].file, None}

=============================================================================
