------------------------- MODULE ControlGovernance -------------------------
(***************************************************************************)
(* How the controls of one assessment come to have dispositions.  Analysts  *)
(* register evidence, confirm what a document says of a control (a claim),  *)
(* and decide on a control from the sufficiency the accepted claims give    *)
(* it; a disposition is recorded only with a claim as its basis (CBE-1.0).  *)
(* Rows from before CBE-1.0 are verified by a backfill.                     *)
(*                                                                         *)
(* Every submitted form is one RUN of the page.  It reads the evidence,     *)
(* then the claims, works out the sufficiency of each control, and only     *)
(* then saves and commits.  The runs of different analysts interleave at    *)
(* every query: the database isolates no more than single statements.  An   *)
(* id is drawn when a row is saved, and the row is seen by others once      *)
(* committed.  The audit row each save adds is part of its transaction.     *)
(***************************************************************************)
EXTENDS ControlPolicy, Authz, Sequences

CONSTANTS Users,              \* signed-in principals
          Role,               \* the role of each
          Library,            \* the documents that are registered here
          Confirmations,      \* the answers analysts give to the five questions
          Choices,            \* the dispositions analysts decide on here
          Legacy,             \* dispositions recorded before CBE-1.0: control, evidence
          InitialEvidence,    \* evidence rows there are at first
          MaxEvidence,        \* bound on evidence rows
          MaxRows,            \* bound on claims and dispositions together
          MaxDay              \* bound on days

ASSUME UsersAssumption == Role \in [Users -> Roles]
ASSUME LibraryAssumption == Library \subseteq Documents
ASSUME ConfirmationsAssumption == Confirmations \subseteq Facts
ASSUME ChoicesAssumption == Choices \subseteq FINAL_DISPOSITIONS
ASSUME InitialEvidenceAssumption ==
    InitialEvidence \in Seq(Library) /\ Len(InitialEvidence) <= MaxEvidence
ASSUME LegacyAssumption ==
    Legacy \subseteq [control : Controls, evidence : SUBSET DOMAIN InitialEvidence]
ASSUME BoundsAssumption == MaxEvidence \in Nat /\ MaxRows \in Nat /\ MaxDay \in Nat

VARIABLES
    evidence,       \* evidence rows of the vendor, in the order of their ids
    claims,         \* control_claim_records that are committed
    dispositions,   \* control_disposition_records that are committed
    next_id,        \* the id the next saved row draws
    today,          \* the current date
    run             \* per user, the page run in flight

vars == <<evidence, claims, dispositions, next_id, today, run>>

-----------------------------------------------------------------------------
(* The rows and the runs *)

\* The five facts of a claim are columns that are true or false.
Claims ==
    [id : Nat, evidence : Nat, control : Controls, facts : [FactNames -> {"Yes", "No"}],
     confident : BOOLEAN, confirmed_by : Users]

\* The sufficiency, recommendation and evidence as recorded, the basis, and,
\* for the properties only, what the page of the run had read.
Recorded ==
    [id : Nat, control : Controls, status : Statuses, recommended : Recommendations,
     final : FINAL_DISPOSITIONS, evidence : SUBSET Nat, verified : {TRUE},
     mode : {"CLAIM"}, basis : SUBSET Claims, page : SUBSET Claims, day : Nat]

\* A row from before CBE-1.0; the backfill may give it a basis.
Historical ==
    [control : Controls, evidence : SUBSET Nat, verified : BOOLEAN,
     mode : {"CLAIM", "LEGACY_UNVERIFIED"}, basis : SUBSET Claims]

Idle == [stage |-> "Idle"]
Runs ==
    {Idle}
    \cup [stage : {"Reading"}, evidence : Seq(Library)]
    \cup [stage : {"Page"}, evidence : Seq(Library), claims : SUBSET Claims, today : Nat]
    \cup [stage : {"Claim"}, row : Claims]
    \cup [stage : {"Disposition"}, row : Recorded]

-----------------------------------------------------------------------------
(* The queries *)

\* Mutant: a superseded claim still counts.
every_claim == claims

\* The latest accepted claim of each pair of evidence and control.  Every
\* recorded claim is accepted and confirmed by an analyst, so the page and
\* CBE-1.0 ask the same.
latest_claims ==
    {c \in claims : \A o \in claims :
        o.evidence = c.evidence /\ o.control = c.control => o.id <= c.id}

\* Mutant: any claim of the control is a basis, whatever its evidence.
claims_of_control(control, ids) == {c \in latest_claims : c.control = control}

matching_claims(control, ids) ==
    {c \in latest_claims : c.control = control /\ c.evidence \in ids}

\* What a page offers for review: the candidates no claim was read for.
candidates(page, e) ==
    {c \in build_evidence_control_candidates(page.evidence[e]) :
        \A claim \in page.claims : ~(claim.evidence = e /\ claim.control = c.control)}

\* The work plan gives controls a sufficiency only when there is some claim.
sufficiency(page, control) ==
    evaluate_control_evidence(control, page.evidence, page.claims, page.today)

may_manage(u) == can(Role[u], "assessment.manage")

-----------------------------------------------------------------------------
(* The page *)

start_run(u) ==
    /\ run[u] = Idle
    /\ run' = [run EXCEPT ![u] = [stage |-> "Reading", evidence |-> evidence]]
    /\ UNCHANGED <<evidence, claims, dispositions, next_id, today>>

load_accepted_control_claims(u) ==
    /\ run[u].stage = "Reading"
    /\ run' = [run EXCEPT ![u] =
                [stage |-> "Page", evidence |-> run[u].evidence,
                 claims |-> latest_claims, today |-> today]]
    /\ UNCHANGED <<evidence, claims, dispositions, next_id, today>>

save_control_claim(u, e, candidate, answers) ==
    /\ may_manage(u)
    /\ review_control_claim_candidate(candidate, answers)
    /\ required_facts_known(answers)
    /\ next_id <= MaxRows
    /\ next_id' = next_id + 1
    /\ run' = [run EXCEPT ![u] =
                [stage |-> "Claim",
                 row |-> [id |-> next_id, evidence |-> e, control |-> candidate.control,
                          facts |-> answers, confident |-> candidate.confident,
                          confirmed_by |-> u]]]
    /\ UNCHANGED <<evidence, claims, dispositions, today>>

confirm_claim(u) ==
    /\ run[u].stage = "Page"
    /\ \E e \in DOMAIN run[u].evidence :
         \E candidate \in candidates(run[u], e), answers \in Confirmations :
            save_control_claim(u, e, candidate, answers)

\* The disposition is refused when no current claim of the control is about
\* the evidence the sufficiency names.
save_control_disposition(u, control, final) ==
    LET found == sufficiency(run[u], control)
        ids   == found.supporting \cup found.review
        basis == matching_claims(control, ids)
    IN  /\ may_manage(u)
        /\ basis # {}
        /\ next_id <= MaxRows
        /\ next_id' = next_id + 1
        /\ run' = [run EXCEPT ![u] =
                    [stage |-> "Disposition",
                     row |-> [id |-> next_id, control |-> control,
                              status |-> found.status,
                              recommended |-> recommend_disposition(found.status),
                              final |-> final, evidence |-> ids, verified |-> TRUE,
                              mode |-> "CLAIM", basis |-> basis,
                              page |-> run[u].claims, day |-> run[u].today]]]
        /\ UNCHANGED <<evidence, claims, dispositions, today>>

record_disposition(u) ==
    /\ run[u].stage = "Page"
    /\ run[u].claims # {}
    /\ \E control \in Controls, final \in Choices :
            save_control_disposition(u, control, final)

commit(u) ==
    /\ \/ /\ run[u].stage = "Claim"
          /\ claims' = claims \cup {run[u].row}
          /\ UNCHANGED dispositions
       \/ /\ run[u].stage = "Disposition"
          /\ dispositions' = dispositions \cup {run[u].row}
          /\ UNCHANGED claims
    /\ run' = [run EXCEPT ![u] = Idle]
    /\ UNCHANGED <<evidence, next_id, today>>

\* A page that submits nothing, a form that is refused, or a save that fails:
\* the session is rolled back, and an id it drew stays unused.
end_run(u) ==
    /\ run[u] # Idle
    /\ run' = [run EXCEPT ![u] = Idle]
    /\ UNCHANGED <<evidence, claims, dispositions, next_id, today>>

-----------------------------------------------------------------------------
(* Around the page *)

register_evidence(u, document) ==
    /\ can(Role[u], "evidence.upload")
    /\ Len(evidence) < MaxEvidence
    /\ evidence' = Append(evidence, document)
    /\ UNCHANGED <<claims, dispositions, next_id, today, run>>

\* What becomes of one row: a verified one is left alone, any other is
\* verified by the current claims about its own evidence, if there are any.
backfilled(d) ==
    LET basis == matching_claims(d.control, d.evidence)
    IN  IF d.verified THEN d
        ELSE IF basis = {} THEN [d EXCEPT !.mode = "LEGACY_UNVERIFIED"]
        ELSE [d EXCEPT !.verified = TRUE, !.mode = "CLAIM", !.basis = basis]

backfill_control_disposition_bases ==
    /\ dispositions' = {backfilled(d) : d \in dispositions}
    /\ UNCHANGED <<evidence, claims, next_id, today, run>>

advance_day ==
    /\ today < MaxDay
    /\ today' = today + 1
    /\ UNCHANGED <<evidence, claims, dispositions, next_id, run>>

-----------------------------------------------------------------------------
Init ==
    /\ evidence = InitialEvidence
    /\ claims = {}
    /\ dispositions =
        {[control |-> d.control, evidence |-> d.evidence, verified |-> FALSE,
          mode |-> "LEGACY_UNVERIFIED", basis |-> {}] : d \in Legacy}
    /\ next_id = 1
    /\ today = 0
    /\ run = [u \in Users |-> Idle]

Next ==
    \/ \E u \in Users :
        \/ start_run(u)
        \/ load_accepted_control_claims(u)
        \/ confirm_claim(u)
        \/ record_disposition(u)
        \/ commit(u)
        \/ end_run(u)
        \/ \E document \in Library : register_evidence(u, document)
    \/ backfill_control_disposition_bases
    \/ advance_day

Spec == Init /\ [][Next]_vars
-----------------------------------------------------------------------------
(* Properties *)

TypeOK ==
    /\ evidence \in Seq(Library) /\ Len(evidence) <= MaxEvidence
    /\ claims \subseteq Claims
    /\ dispositions \subseteq Recorded \cup Historical
    /\ next_id \in 1 .. MaxRows + 1
    /\ today \in 0 .. MaxDay
    /\ run \in [Users -> Runs]

from_page(d) == "status" \in DOMAIN d

\* A claim that its evidence covers and was tested for the control, in scope
\* and for the service, read with confidence and in date that day.
proves(claim, day) ==
    /\ claim.facts.covered = "Yes" /\ claim.facts.tested = "Yes"
    /\ claim.facts.scope_matches = "Yes" /\ claim.facts.service_matches = "Yes"
    /\ claim.confident
    /\ \A last \in evidence[claim.evidence].expires : day <= last

\* One that has no limitation either.
proves_cleanly(claim, day) ==
    /\ proves(claim, day)
    /\ claim.facts.exception_present = "No"
    /\ ~evidence[claim.evidence].flawed
    /\ \A last \in evidence[claim.evidence].expires : day + ExpiryWindow < last

\* The recommendation recorded with a disposition is proven by the claims the
\* disposition cites, unless another analyst replaced one of them after the
\* page had read it: evidence that is untested, out of scope, uncertain or
\* expired supports nothing, whatever the analyst decides.
RecommendationIsProven ==
    \A d \in dispositions :
        from_page(d) /\ d.basis \subseteq d.page =>
            /\ d.recommended = "Satisfied" =>
                    \E c \in d.basis : proves_cleanly(c, d.day)
            /\ d.recommended = "Partially Satisfied" =>
                    \E c \in d.basis : proves(c, d.day)

\* No disposition is recorded for a control that no claim says anything for:
\* CS-1.0 names no evidence for it, and CBE-1.0 finds no basis then.
UnsupportedIsNotDecided ==
    \A d \in dispositions : from_page(d) => d.status # "UNSUPPORTED"

\* The basis of a verified disposition, recorded or backfilled, is of its own
\* control and evidence, and speaks with one voice for each piece of evidence.
BasisIsCoherent ==
    \A d \in dispositions : d.verified =>
        /\ d.basis # {} /\ d.basis \subseteq claims
        /\ \A c \in d.basis : c.control = d.control /\ c.evidence \in d.evidence
        /\ \A c, o \in d.basis : c.evidence = o.evidence => c = o

\* A verified disposition is never touched again, by a backfill or otherwise.
VerifiedIsFinal ==
    [][\A d \in dispositions : d.verified => d \in dispositions']_vars

=============================================================================
