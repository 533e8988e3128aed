-------------------------- MODULE MCBrowserSession --------------------------
(* An instance of BrowserSession for TLC. *)
EXTENDS BrowserSession

ReviewerOf == [f \in Families |->
    CASE f = "Privileged MFA" -> "mfa" [] f = "Vulnerability remediation" -> "none"
      [] OTHER -> "typed"]
FamilyOfCase == [c \in Cases |->
    CASE c \in {"strong", "bypass", "conflict"} -> "Privileged MFA"
      [] c = "vm-present" -> "Vulnerability remediation"
      [] c \in {"dr-exercise", "dr-lapsed"} -> "Disaster-recovery testing"
      [] OTHER -> "Transport encryption (TLS)"]

Fact(id, dimension, subject, value, reads, kind, grouped) ==
    [id |-> id, dimension |-> dimension, subject |-> subject, value |-> value,
     document |-> "report", reads |-> reads, kind |-> kind, sound |-> TRUE,
     lapsed |-> FALSE, grouped |-> grouped]

\* The pilot packages, on two of the dimensions that each threshold requires.
enforcement(id, value, kind) ==
    Fact(id, "enforcement", "", value, IF value = "yes" THEN "support" ELSE "adverse", kind,
         value = "yes")
operating == Fact(2, "operating", "", "yes", "support", "test", TRUE)
method == Fact(2, "method", "primary-admin", "fido2", "support", "configuration", TRUE)
minimum(id, subject, value, kind) ==
    Fact(id, "minimum_version", subject, value, IF value = "1.0" THEN "adverse" ELSE "support",
         kind, FALSE)
listeners == "complete scope"
exercised(id, dimension) == Fact(id, dimension, listeners, "yes", "support", "test", FALSE)
another_exercise(f) == [f EXCEPT !.document = "another"]
long_ago(f) == [f EXCEPT !.lapsed = TRUE]

packaged(facts, signals, limited, needs) ==
    [facts |-> facts, signals |-> signals, verifies |-> {"configuration", "test"},
     limited |-> limited, eligible |-> TRUE, bound |-> FALSE, needs |-> needs]
mfa(facts, signals, limited) ==
    packaged(facts, signals, limited,
        {{<<"enforcement", "", "configuration">>, <<"enforcement", "", "test">>},
         {<<"operating", "", "test">>}})
tls(extra) ==
    packaged({minimum(1, listeners, "1.2", "configuration"), minimum(2, listeners, "1.2", "test")}
                \cup extra, {"inventory"}, FALSE,
        {{<<"minimum_version", listeners, k>>} : k \in {"configuration", "test"}})
dr(coverage) ==
    [packaged({exercised(1, "completed")} \cup coverage, {"inventory"}, FALSE,
              {{<<d, listeners, "test">>} : d \in {"completed", "scope_complete"}})
        EXCEPT !.verifies = {"test"}, !.bound = TRUE]

\* The second version of the strong MFA package has lost its test's freshness and
\* gained a signal; that of the recovery package takes its coverage from another
\* exercise.
Packages == [c \in Cases |-> [v \in Versions |->
    CASE c = "strong" ->
            mfa({enforcement(1, "yes", "configuration"), operating},
                IF v = 1 THEN {"inventory"} ELSE {"inventory", "exemption"}, v = 2)
      [] c = "bypass" -> mfa({method, enforcement(3, "no", "configuration")}, {"exemption"}, FALSE)
      [] c = "conflict" ->
            mfa({enforcement(1, "yes", "configuration"), operating, enforcement(3, "no", "test")},
                {}, FALSE)
      [] c = "tls-strong" -> tls({})
      [] c = "tls-exception" -> tls({minimum(3, "alternate endpoint", "1.0", "test")})
      [] c = "tls-reported" -> tls({minimum(3, "alternate endpoint", "1.0", "assertion")})
      [] c = "dr-exercise" ->
            dr({IF v = 1 THEN exercised(2, "scope_complete")
                ELSE another_exercise(exercised(2, "scope_complete"))})
      [] c = "dr-lapsed" ->
            dr({exercised(2, "scope_complete"), long_ago(exercised(3, "completed"))})
      [] c = "vm-present" ->
            packaged({Fact(1, "reported_closure_days", listeners, "25", "review", "configuration",
                           FALSE),
                      Fact(2, "reported_open_days", listeners, "45", "adverse", "assertion", FALSE)},
                     {"exemption"}, TRUE, {{}})]]

\* Two files of one name and one that cannot be read.
soc2 == [name |-> "soc2.txt", content |-> "first"]
soc2_again == [name |-> "soc2.txt", content |-> "second"]
scan == [name |-> "scan.pdf", content |-> "image"]
FilesAtHand == {soc2, soc2_again, scan}
TextFiles == {soc2, soc2_again}
Routes == [d \in Declarations |-> IF d = "tls test" THEN {"ENC-01"} ELSE {}]
FirstOffered == [f \in FilesAtHand |-> IF f = soc2 THEN "tls test" ELSE "context only"]
\* The source says the kind; it does not supply a scope that was left out.
FromSource == [f \in FilesAtHand |-> [d \in Declarations |->
    IF f # soc2 THEN None ELSE IF d = "no scope" THEN d ELSE "context only"]]

ScenarioList == <<"gap", "exception">>
ProfileList == <<"Confidential", "Public">>
\* The recovery row depends on the exercise that is replayed, the TLS row on the scenario.
Rows == [s \in {"gap", "exception"} |-> [received \in BOOLEAN |-> [r \in Requirements |->
            IF r = "BCP-01" THEN (IF received THEN "exercise" ELSE "plan") ELSE s]]]

no_review ==
    /\ saved = NothingSaved /\ stay = Unreviewed /\ version = 1 /\ shown.case = "strong"
    /\ shown.bundle = bundle("strong")
no_demo == demo = Started /\ sight = shows(Started)
no_upload == session = Untouched /\ drawn = on_screen(Untouched)

annotations == IF session.actions = None THEN <<>> ELSE session.actions
unannotated == annotations = <<>> /\ session.completion = None
one_file == attached(session) \subseteq {soc2} /\ ~ session.metadata_confirmation_pending
one_context ==
    \A i \in DOMAIN annotations :
        annotations[i].requirement = "ENC-01" /\ annotations[i].action = "Create Finding"

\* The pages share no state: one of them is used; New Assessment with every file
\* and no annotation, or with one file and a finding on one requirement.
Slices ==
    \/ no_upload /\ no_demo
    \/ no_upload /\ no_review
    \/ no_review /\ no_demo /\ DOMAIN session.metadata_edits \subseteq {soc2}
          /\ (unannotated \/ (one_file /\ one_context))
=============================================================================
