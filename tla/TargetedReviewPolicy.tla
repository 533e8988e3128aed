----------------------- MODULE TargetedReviewPolicy -----------------------
(***************************************************************************)
(* From a monitoring event to an evidence request, as pure policies: what *)
(* is recommended for an event, what an analyst's action does, which      *)
(* evidence a targeted review is about, what there is to do for each piece*)
(* of it, and how far a response satisfies a request.                     *)
(*                                                                        *)
(* A required piece of evidence is known by its name; those that a scope  *)
(* asks for together, with what an event, a tier or AI adds to them, are  *)
(* one. A document is known by the requirements its type and name match;  *)
(* the status stored with it is the one of the day it was registered and  *)
(* says nothing more than its day of expiry. Controls under review and    *)
(* excluded domains, rationales, materiality and confidence are texts for *)
(* the reader.                                                            *)
(***************************************************************************)
EXTENDS Naturals, Sequences

CONSTANT ExpiryWindow       \* days before expiry in which evidence is to be validated

ASSUME ExpiryWindowAssumption == ExpiryWindow \in Nat

-----------------------------------------------------------------------------
(* Material change: what is recommended for an event *)

Incidents ==
    {"Breach disclosure", "Ransomware event", "Credential exposure",
     "Critical KEV exposure"}
EventTypes ==
    Incidents \cup {"Expired assurance evidence", "Material vendor change",
                    "Security rating deterioration"}

\* Severities are ranked: Low, Moderate, High and Critical.
Events == [type : EventTypes, severity : 1..4]

\* A vendor, with the one engagement its intake creates.
Vendors ==
    [tier : {"T1", "T2", "T3", "T4"},
     criticality : {"Low", "Moderate", "High", "Critical"},
     data : {"Public", "Internal", "Confidential", "PII", "Sensitive PII",
             "PHI / PCI / Credentials"},
     production_access : BOOLEAN, privileged_access : BOOLEAN, ai_enabled : BOOLEAN]

points(condition, n) == IF condition THEN n ELSE 0

\* Of the data labels an intake offers, the list of sensitive ones names one.
context_score(vendor) ==
    points(vendor.tier = "T1", 3) + points(vendor.tier = "T2", 2)
      + points(vendor.tier = "T3", 1)
      + points(vendor.criticality = "Critical", 2)
      + points(vendor.criticality = "High", 1)
      + points(vendor.data = "Confidential", 2)
      + points(vendor.production_access, 1) + points(vendor.privileged_access, 2)
      + points(vendor.ai_enabled, 1)

Domains ==
    {"Assurance Evidence", "Security Incident", "AI / Service Change",
     "Service / Architecture", "External Security Posture", "General"}

evaluate_material_change(event, vendor) ==
    LET severe  == event.severity >= 3
        exposed == context_score(vendor) >= 4
        advise(action, domain) == [action |-> action, domain |-> domain]
    IN  CASE event.type = "Expired assurance evidence" ->
               advise("Request Evidence", "Assurance Evidence")
          [] event.type \in Incidents /\ severe ->
               advise(IF exposed THEN "Escalate" ELSE "Targeted Review",
                      "Security Incident")
          [] event.type = "Material vendor change" /\ vendor.ai_enabled ->
               advise("Targeted Review", "AI / Service Change")
          [] event.type = "Material vendor change" /\ ~vendor.ai_enabled ->
               advise(IF exposed THEN "Targeted Review" ELSE "Monitor",
                      "Service / Architecture")
          [] event.type = "Security rating deterioration" ->
               advise(IF severe /\ exposed THEN "Targeted Review" ELSE "Monitor",
                      "External Security Posture")
          [] event.type \in Incidents /\ ~severe ->
               advise(IF event.severity = 1 THEN "No Action" ELSE "Monitor", "General")

-----------------------------------------------------------------------------
(* Material action: what an analyst's action does *)

AnalystActions ==
    {"Monitor", "Request Evidence", "Targeted Review", "Full Reassessment",
     "Escalate", "Dismiss"}

ReviewTypes ==
    {"Targeted Material Change Review", "Full Material Change Reassessment"}

\* The assessments an action opens: one or none.
plan_material_action(action) ==
    CASE action = "Targeted Review"   -> {"Targeted Material Change Review"}
      [] action = "Full Reassessment" -> {"Full Material Change Reassessment"}
      [] OTHER                        -> {}

status_after(action) ==
    CASE action = "Dismiss"          -> "Closed"
      [] action = "Monitor"          -> "Monitoring"
      [] action = "Request Evidence" -> "Evidence Requested"
      [] action = "Escalate"         -> "Escalated"
      [] OTHER                       -> "In Review"

requires_review_after(action) == action \notin {"Dismiss", "Monitor"}

-----------------------------------------------------------------------------
(* Targeted scope: the evidence a review is about *)

\* Two scopes put a sentence where evidence is named; no document has such a name.
Sentences ==
    {"All other current evidence remains reusable",
     "Current evidence outside the changed risk domain"}

Requirements ==
    Sentences \cup
    {"Incident evidence", "Incident Response Plan", "Security Policy",
     "Assurance report", "AI and data documentation", "Architecture evidence",
     "Remediation evidence", "Renewed assurance evidence", "Change evidence"}

Scopes == [request : SUBSET Requirements, reuse : SUBSET Requirements]

build_targeted_review_scope(domain) ==
    CASE domain = "External Security Posture" ->
           [request |-> {"Remediation evidence"},
            reuse   |-> {"Assurance report", "Security Policy"}]
      [] domain = "Security Incident" ->
           [request |-> {"Incident evidence"},
            reuse   |-> {"Incident Response Plan", "Assurance report"}]
      [] domain = "AI / Service Change" ->
           [request |-> {"AI and data documentation"},
            reuse   |-> {"Assurance report", "Security Policy"}]
      [] domain = "Service / Architecture" ->
           [request |-> {"Architecture evidence"},
            reuse   |-> {"Assurance report", "Security Policy"}]
      [] domain = "Assurance Evidence" ->
           [request |-> {"Renewed assurance evidence"},
            reuse   |-> {"All other current evidence remains reusable"}]
      [] domain = "General" ->
           [request |-> {"Change evidence"},
            reuse   |-> {"Current evidence outside the changed risk domain"}]

-----------------------------------------------------------------------------
(* Assurance: which document stands for a requirement *)

\* The requirements a document matches, its day of expiry if it has one,
\* whether it has exceptions, and whether its extraction is trusted.
Documents ==
    {d \in [matches : SUBSET (Requirements \ Sentences), expires : SUBSET Nat,
            exceptions : BOOLEAN, confident : BOOLEAN] :
        \A x, y \in d.expires : x = y}

status_for_evidence(document, today) ==
    IF \E day \in document.expires : day < today THEN "Expired"
    ELSE IF \E day \in document.expires : day <= today + ExpiryWindow
         THEN "Expiring Soon"
         ELSE "Satisfied"

rank(status) ==
    CASE status = "Satisfied" -> 3 [] status = "Expiring Soon" -> 2 [] OTHER -> 1

matching(requirement, evidence) ==
    {e \in DOMAIN evidence : requirement \in evidence[e].matches}

\* Mutant: of equals the newest counts.
newest_evidence(requirement, evidence, today) ==
    {best \in matching(requirement, evidence) :
        \A e \in matching(requirement, evidence) :
            LET r(x) == rank(status_for_evidence(evidence[x], today))
            IN  r(e) < r(best) \/ (r(e) = r(best) /\ e <= best)}

\* The best by status, if any; the sort is stable, so of equals the first registered.
best_evidence(requirement, evidence, today) ==
    {best \in matching(requirement, evidence) :
        \A e \in matching(requirement, evidence) :
            LET r(x) == rank(status_for_evidence(evidence[x], today))
            IN  r(e) < r(best) \/ (r(e) = r(best) /\ best <= e)}

-----------------------------------------------------------------------------
(* Targeted gap and reconciliation: what there is to do *)

workflow_action(requirement, evidence, today) ==
    LET best      == best_evidence(requirement, evidence, today)
        status(e) == status_for_evidence(evidence[e], today)
    IN  IF \A e \in best : status(e) = "Expired" THEN "Request Vendor"
        ELSE IF \E e \in best : \/ status(e) = "Expiring Soon"
                                \/ evidence[e].exceptions
                                \/ ~evidence[e].confident
             THEN "Analyst Validate"
             ELSE "Reuse"

\* The requirements of an approved scope that are left to the vendor.
request_items(scope, evidence, today) ==
    {r \in scope.request \cup scope.reuse :
        workflow_action(r, evidence, today) = "Request Vendor"}

\* Mutant: what waits for validation counts as satisfied.
nothing_outstanding(requested, evidence, today) ==
    \A r \in requested : workflow_action(r, evidence, today) # "Request Vendor"

\* Nothing that was requested is outstanding or waits for validation.
reconciliation_complete(requested, evidence, today) ==
    \A r \in requested : workflow_action(r, evidence, today) = "Reuse"

-----------------------------------------------------------------------------
(* The life of an evidence request *)

RequestStatuses == {"Draft", "Sent", "Received", "Closed"}

can_transition_request(current, next) ==
    <<current, next>> \in
        {<<"Draft", "Sent">>, <<"Sent", "Received">>, <<"Received", "Closed">>}
=============================================================================
