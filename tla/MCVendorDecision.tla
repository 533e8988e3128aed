------------------------- MODULE MCVendorDecision -------------------------
(* Instances of VendorDecision for TLC. *)
EXTENDS VendorDecision, TLC

CONSTANTS u1, u2, report, other

Managers == [u \in Users |-> "Risk Manager"]

\* Two files of one name; one has exceptions.
OneName == [f \in Files |-> "soc2.pdf"]
Found == [f \in Files |-> IF f = report THEN <<"High", "Low">> ELSE <<>>]

Symmetry == Permutations(Users)

nothing_uploaded == \A u \in Users : form[u].file = None
no_evidence == evidence = <<>> /\ nothing_uploaded
on_gate(u) == "residual" \in DOMAIN run[u] \/ shown[u] # NothingShown
no_gate == ~ \E u \in Users : on_gate(u)
\* One approver; nothing in the model depends on an approval that is recorded.
one_gate == approvals = <<>> /\ Cardinality({u \in Users : on_gate(u)}) <= 1
quiet == vendor = None \/ vendor.residual = 40

audited(actions) == \A row \in audit : row.action \in actions
plain(fs) ==
    \A f \in DOMAIN fs : fs[f].target = "" /\ fs[f].escalation = "Not Escalated"

GateOverEvidence ==
    /\ clock = 0 /\ nothing_uploaded /\ one_gate /\ quiet
    /\ findings = <<>> /\ assessments = <<>>
    /\ audited({"vendor.create", "evidence.register"})

GateOverFindings ==
    /\ clock = 0 /\ no_evidence /\ one_gate
    /\ Len(findings) <= 1
    /\ plain(findings) /\ \A u \in Users : "read" \in DOMAIN run[u] => plain(run[u].read)
    /\ audited({"finding.create", "finding.update", "assessment.create", "assessment.update",
                "monitoring.create"})
    /\ Cardinality(audit) <= 4

FindingsOverTime ==
    /\ audited({"vendor.create", "finding.create", "finding.update",
                "finding.escalation_update"})
    /\ no_evidence /\ no_gate /\ quiet
    /\ assessments = <<>>
    /\ Len(findings) <= 1
    /\ \A f \in DOMAIN findings : findings[f].status # "In Remediation"
    /\ Cardinality(audit) <= 3

Registration ==
    /\ clock = 0 /\ no_gate /\ quiet
    /\ assessments = <<>>
    /\ \A u \in Users : run[u].stage # "Findings"
    /\ \A f \in DOMAIN findings : findings[f].evidence # 0
    /\ audited({"vendor.create", "evidence.register"})
    /\ \A e \in DOMAIN evidence : evidence[e].type = "SOC 2 Type II" /\ ~ evidence[e].expired

\* The gate over evidence, the gate over a finding and a reassessment, a finding
\* over time, and the registration of documents.
Slices == GateOverEvidence \/ GateOverFindings \/ FindingsOverTime \/ Registration
=============================================================================
