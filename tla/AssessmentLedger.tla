-------------------------- MODULE AssessmentLedger --------------------------
(***************************************************************************)
(* The ledger of an assessment session, common to the guided demo and to    *)
(* uploaded evidence: an append-only history of draft annotations, each     *)
(* bound to the fingerprint of the requirement's row, and the completion,   *)
(* which captures the report of a model and a history.                      *)
(***************************************************************************)
EXTENDS Naturals, Sequences

CONSTANTS Requirements,    \* of the worklist's rows
          Rationales,      \* that an analyst gives
          MaxActions,      \* bound on the annotations of a session
          None

Actions == {"Accept", "Create Finding"}   \* Challenge and Request Evidence are as Accept

Entry(fp, r, a, why) == [requirement |-> r, fingerprint |-> fp, action |-> a, rationale |-> why]
Entries(fps) ==
    [requirement : Requirements, fingerprint : fps, action : Actions, rationale : Rationales]

\* record_action(): a finding is not drafted twice in one context.
records(history, entry) ==
    /\ Len(history) < MaxActions
    /\ entry.action = "Create Finding" => \A i \in DOMAIN history : history[i] # entry

complete_review(model, actions) == [model |-> model, actions |-> actions]

\* Mutant: annotations are no part of what is compared.
same_model_is_current(model, actions, completion) == completion.model = model
completion_is_current(model, actions, completion) ==
    completion = complete_review(model, actions)
=============================================================================
