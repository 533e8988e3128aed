--------------------------- MODULE ControlPolicy ---------------------------
(***************************************************************************)
(* From a document to a control disposition, as pure policies: which        *)
(* claims a document suggests (ECA-1.0), which of them may be accepted      *)
(* (CG-1.1 and CCR-1.0), what the accepted ones say of a control (CS-1.0)   *)
(* and what is then recommended (CD-1.0).                                   *)
(*                                                                         *)
(* A document is known by what the policies ask of it.  Statements, source  *)
(* references and rationales are texts the adapter and the form always      *)
(* fill in; confidence is above or below its threshold of 0.65.             *)
(***************************************************************************)
EXTENDS Naturals

CONSTANTS Controls,         \* the applicable controls, which are those in scope
          ExpiryWindow      \* days before expiry in which evidence is limited

ASSUME ExpiryWindowAssumption == ExpiryWindow \in Nat

\* An uploaded document: the controls its type maps to, the controls its
\* detected exceptions name, whether it has any exception at all, whether its
\* extraction is confident, and the day it expires, if it does.
Documents ==
    {d \in [controls : SUBSET Controls, exceptions : SUBSET Controls,
            flawed : BOOLEAN, confident : BOOLEAN, expires : SUBSET Nat] :
        /\ d.exceptions # {} => d.flawed
        /\ \A x, y \in d.expires : x = y}

FactNames ==
    {"covered", "tested", "scope_matches", "service_matches", "exception_present"}
Answers == {"Not confirmed", "Yes", "No"}
Facts == [FactNames -> Answers]

-----------------------------------------------------------------------------
(* ECA-1.0: what a document suggests *)

\* A candidate from an exception takes the place of the one from the type.
exception_candidates(document) ==
    {[control |-> c, exception_present |-> "Yes", confident |-> document.confident] :
        c \in document.exceptions}

document_mapping_candidates(document) ==
    {[control |-> c, exception_present |-> "Not confirmed",
      confident |-> document.confident] : c \in document.controls}

build_evidence_control_candidates(document) ==
    exception_candidates(document)
        \cup {m \in document_mapping_candidates(document) :
                m.control \notin document.exceptions}

-----------------------------------------------------------------------------
(* CG-1.1 and CCR-1.0: what may be accepted *)

required_facts_known(facts) == \A n \in FactNames : facts[n] # "Not confirmed"

material_review_condition(facts) ==
    \/ \E n \in FactNames \ {"exception_present"} : facts[n] = "No"
    \/ facts.exception_present = "Yes"

\* Whether CG-1.1 makes the candidate an authoritative claim.
generate_control_claim(control, facts, confident, human_confirmed) ==
    /\ control \in Controls
    /\ required_facts_known(facts)
    /\ \/ human_confirmed
       \/ confident /\ ~material_review_condition(facts)

\* The analyst's answers replace the candidate's, and count as a human
\* confirmation when none is missing.
review_control_claim_candidate(candidate, answers) ==
    generate_control_claim(candidate.control, answers, candidate.confident,
                           required_facts_known(answers))

-----------------------------------------------------------------------------
(* CS-1.0: what the accepted claims say of a control *)

\* Mutant: evidence never runs out.
expires_never(document, today) == FALSE

is_expired(document, today) == \E day \in document.expires : day < today

is_expiring_soon(document, today) ==
    \E day \in document.expires : today <= day /\ day <= today + ExpiryWindow

\* Claims that count: the evidence covers the control and is in date.
usable(claim, evidence, today) ==
    /\ claim.evidence \in DOMAIN evidence
    /\ claim.facts.covered = "Yes"
    /\ ~is_expired(evidence[claim.evidence], today)

\* Claims an analyst has to look at again: out of scope, for another service,
\* untested or uncertain, or about evidence the page did not find.
doubtful(claim, evidence, today) ==
    \/ claim.evidence \notin DOMAIN evidence
    \/ /\ usable(claim, evidence, today)
       /\ \/ \E n \in {"scope_matches", "service_matches", "tested"} :
                claim.facts[n] = "No"
          \/ ~claim.confident

\* Claims that support the control with a known limitation.
limited(claim, evidence, today) ==
    \/ claim.facts.exception_present = "Yes"
    \/ evidence[claim.evidence].flawed
    \/ is_expiring_soon(evidence[claim.evidence], today)

Statuses == {"SUPPORTED", "PARTIAL", "REVIEW", "UNSUPPORTED"}

evidence_of(claims) == {claim.evidence : claim \in claims}

evaluate_control_evidence(control, evidence, claims, today) ==
    LET own       == {c \in claims : c.control = control}
        review    == {c \in own : doubtful(c, evidence, today)}
        sound     == {c \in own \ review : usable(c, evidence, today)}
        partial   == {c \in sound : limited(c, evidence, today)}
        supported == sound \ partial
    IN  [status |-> IF supported # {} THEN "SUPPORTED"
                    ELSE IF partial # {} THEN "PARTIAL"
                    ELSE IF review # {} THEN "REVIEW"
                    ELSE "UNSUPPORTED",
         supporting |-> evidence_of(IF supported # {} THEN supported ELSE partial),
         review |-> evidence_of(review)]

-----------------------------------------------------------------------------
(* CD-1.0: what is recommended, and what an analyst may decide *)

FINAL_DISPOSITIONS ==
    {"Satisfied", "Partially Satisfied", "Not Satisfied", "Not Applicable",
     "Compensating Control"}

Recommendations == {"Satisfied", "Partially Satisfied", "Analyst Review Required"}

recommend_disposition(status) ==
    CASE status = "SUPPORTED" -> "Satisfied"
      [] status = "PARTIAL"   -> "Partially Satisfied"
      [] OTHER                -> "Analyst Review Required"
=============================================================================
