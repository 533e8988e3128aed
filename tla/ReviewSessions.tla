--------------------------- MODULE ReviewSessions ---------------------------
(***************************************************************************)
(* The control assurance review of the Evidence Center: an analyst, in one  *)
(* browser session, reviews the evidence packages of the control families,  *)
(* one at a time.  MFA keeps its own reviewer (M3C over M3B and M3A); the    *)
(* typed evaluators (TLS, DR) and the families without one share M3D.       *)
(*                                                                         *)
(* What is decided is kept in the session under the prefix of the case and  *)
(* the digest of its package, here the package itself: a development server *)
(* reloads packages that are edited under an open session.  A package is    *)
(* its draft facts, the exception signals of its documents and whether a    *)
(* document is stale, out of scope or without provenance.  A confirmation   *)
(* is given with its check box ticked and a reason.                         *)
(***************************************************************************)
EXTENDS FiniteSets

CONSTANTS Families,      \* registered_review_families
          Reviewer,        \* of each: "mfa", "typed" or "none"
          Cases,           \* case IDs
          FamilyOf,        \* of each, its family
          Versions,        \* of the packages on the server
          Package,         \* of each case and version, the package
          FactIds, Signals,
          Nil

Kinds == {"policy", "assertion", "configuration", "test"}
\* A fact: what it says of the customer's threshold, the kind of its source, and
\* whether source, quotation, scope, date and fields hold.  Every method of an MFA
\* fact is on a path of its own that is active.
Facts ==
    [id : FactIds, dimension : STRING, subject : STRING, value : STRING, document : STRING,
     reads : {"support", "adverse", "review"}, kind : Kinds, sound : BOOLEAN,
     lapsed : BOOLEAN,                       \* a test outside DR's interval
     grouped : BOOLEAN]                      \* MFA's supporting_fact_ids

\* verifies: the kinds that establish a failure; needs: per requirement of the
\* threshold, the dimension, subject and kind of the facts that meet it; bound:
\* whether one document must meet them all (DR's exercise).
IsPackage(p) ==
    /\ p.facts \subseteq Facts
    /\ \A f, g \in p.facts : f.id = g.id => f = g
    /\ p.signals \subseteq Signals
    /\ p.verifies \subseteq Kinds
    /\ {p.limited, p.eligible, p.bound} \subseteq BOOLEAN
    /\ p.needs \subseteq SUBSET (STRING \X STRING \X Kinds)

ASSUME CasesAssumption ==
    /\ Reviewer \in [Families -> {"mfa", "typed", "none"}]
    /\ FamilyOf \in [Cases -> Families]
    /\ \A c \in Cases, v \in Versions : IsPackage(Package[c][v])

Decisions == {Nil, "supported", "exception", "challenged"}
Reviews ==
    [facts : [FactIds -> Decisions], signals : [Signals -> {Nil, "material", "dismissed"}],
     ack : {Nil} \cup [Signals -> {Nil, "material", "dismissed"}]]
\* Nil is no review and nothing a review is made of.
ASSUME NilAssumption ==
    /\ Nil \notin {"supported", "exception", "challenged", "material", "dismissed"}
    /\ Nil \notin [Signals -> {Nil, "material", "dismissed"}]
    /\ Nil \notin [prefix : Cases \X {Package[c][v] : c \in Cases, v \in Versions},
                  review : Reviews]

Outcomes == {"Met", "Partially Met", "Evidence Missing", "Needs Review", "Risk Identified"}
Keys == {"m3c1_current_review", "m3d_current_review"}

VARIABLES
    version,   \* of the packages the server has loaded
    saved,     \* the session's reviews: the prefix and the state, or Nil
    shown,     \* the family, case and package last rendered, and the outcome
    stay       \* what was decided since this package came up (a history variable)

reviewVars == <<version, saved, shown, stay>>

Unreviewed ==
    [facts |-> [f \in FactIds |-> Nil], signals |-> [s \in Signals |-> Nil], ack |-> Nil]
NothingSaved == [k \in Keys |-> Nil]

-----------------------------------------------------------------------------
(* The evaluators: of the package p under the review r *)

bundle(c) == Package[c][version]
accepted(p, r) == {f \in p.facts : f.sound /\ r.facts[f.id] \in {"supported", "exception"}}
current(p, r) == {f \in accepted(p, r) : ~ f.lapsed}
supporting(p, r) == {f \in current(p, r) : f.reads = "support"}
adverse(p, r) == {f \in current(p, r) : f.reads = "adverse"}
alike(f, g) == f.dimension = g.dimension /\ f.subject = g.subject

\* Different enabled protocols can coexist.
conflict(p, r) ==
    \E f, g \in current(p, r) :
        alike(f, g) /\ f.value # g.value /\ f.dimension # "enabled_version"
failed(p, r) == \E f \in adverse(p, r) : f.kind \in p.verifies
reported(p, r) == \E f \in adverse(p, r) : f.kind \notin p.verifies /\ f.kind # "policy"
meets(f, n) == <<f.dimension, f.subject, f.kind>> \in n
met(p, support) == {n \in p.needs : \E f \in support : meets(f, n)}
exercise_binding(p, support) ==
    \E f \in support : \A n \in p.needs :
        \E g \in support : g.document = f.document /\ meets(g, n)
complete(p, support) ==
    met(p, support) = p.needs /\ (p.bound => exercise_binding(p, support))
covered(p, support, otherwise) ==
    IF complete(p, support) THEN "Met"
    ELSE IF met(p, support) # {} THEN "Partially Met" ELSE otherwise

\* Of MFA, a policy or an assertion establishes nothing, and what it leaves unknown
\* of a dimension no stronger source erases.
establishing(p, r) == {f \in supporting(p, r) : f.kind \in {"configuration", "test"}}
resolved(p, r) ==
    {f \in establishing(p, r) :
        \A g \in supporting(p, r) \ establishing(p, r) : g.dimension # f.dimension}
active_weak_path(p, r) ==
    \E f \in adverse(p, r) : f.kind \in p.verifies /\ \A g \in establishing(p, r) : ~ alike(f, g)

\* A failure beside support for the same subject is a conflict.
evaluate_privileged_mfa(p, r) ==
    IF active_weak_path(p, r) THEN "Risk Identified"
    ELSE IF failed(p, r) \/ reported(p, r) THEN "Needs Review"
    ELSE IF accepted(p, r) = {} THEN "Evidence Missing"
    ELSE covered(p, resolved(p, r), "Needs Review")

\* evaluate_tls and evaluate_dr, all of whose facts are active here.
evaluate_typed(p, r) ==
    IF conflict(p, r) THEN "Needs Review"
    ELSE IF failed(p, r) THEN "Risk Identified"
    ELSE IF current(p, r) # accepted(p, r) \/ adverse(p, r) # {} THEN "Needs Review"
    ELSE covered(p, supporting(p, r), "Evidence Missing")

\* The limitations that withhold assurance, in M3B and in M3D.
follow_up(p, r) ==
    \/ p.limited \/ r.ack = Nil
    \/ accepted(p, r) # p.facts
    \/ \E f \in p.facts : r.facts[f.id] = "exception"
    \/ r.ack # Nil /\ \E s \in p.signals : r.ack[s] # "dismissed"
limitations(p, r) ==
    \/ p.limited \/ r.ack # r.signals
    \/ accepted(p, r) # p.facts
    \/ \E s \in p.signals : r.signals[s] # "dismissed"

outcome(c, p, r) ==
    LET reviewer == Reviewer[FamilyOf[c]]
        technical == IF reviewer = "mfa" THEN evaluate_privileged_mfa(p, r)
                                         ELSE evaluate_typed(p, r)
        withheld == IF reviewer = "mfa" THEN follow_up(p, r) ELSE limitations(p, r)
    IN IF reviewer = "none" THEN (IF p.eligible THEN "Needs Review" ELSE "Evidence Missing")
       ELSE IF withheld /\ technical # "Risk Identified" THEN "Needs Review" ELSE technical

-----------------------------------------------------------------------------
(* Rendering *)

state_key(c) ==
    IF Reviewer[FamilyOf[c]] = "mfa" THEN "m3c1_current_review" ELSE "m3d_current_review"
prefix(c) == <<c, bundle(c)>>
kept(c, reviews) ==
    LET s == reviews[state_key(c)] IN s # Nil /\ s.prefix = prefix(c)
state(c, reviews) == IF kept(c, reviews) THEN reviews[state_key(c)].review ELSE Unreviewed

\* Mutant: the adapter's own key is forgotten.
pop_common_key(c) ==
    IF FamilyOf[c] = FamilyOf[shown.case] THEN saved
    ELSE [saved EXCEPT !["m3d_current_review"] = Nil]
pop_family(c) == IF FamilyOf[c] = FamilyOf[shown.case] THEN saved ELSE NothingSaved

render(c, reviews) ==
    /\ saved' = [reviews EXCEPT ![state_key(c)] = IF kept(c, reviews) THEN @ ELSE Nil]
    /\ shown' = [case |-> c, bundle |-> bundle(c),
                 outcome |-> outcome(c, bundle(c), state(c, reviews))]

same_stay(c) == c = shown.case /\ bundle(c) = shown.bundle
display(c) ==
    /\ render(c, pop_family(c))
    /\ stay' = IF same_stay(c) THEN stay ELSE Unreviewed
    /\ UNCHANGED version

\* Another family or case is selected; the page is left, which may reset its
\* widgets to the first family and case, and opened again; or the page is rendered.
select(c) == display(c)

\* The server loads edited packages; the page shows them when it next renders.
reload ==
    /\ version' \in Versions \ {version}
    /\ UNCHANGED <<saved, shown, stay>>

-----------------------------------------------------------------------------
(* Decisions *)

\* A click on a widget that the run renders no more is lost.
record(r) ==
    LET c == shown.case
        k == state_key(c)
    IN /\ same_stay(c)
       /\ render(c, [saved EXCEPT ![k] = [prefix |-> prefix(c), review |-> r]])
       /\ UNCHANGED version

decided(r, ids, d) ==
    [r EXCEPT !.facts = [f \in FactIds |-> IF f \in ids THEN d ELSE @[f]], !.ack = Nil]
decide(facts, d) ==
    LET ids == {f.id : f \in facts}
        own == state(shown.case, saved)
    IN /\ record(decided(own, ids, d))
       /\ stay' = [stay EXCEPT !.facts = [f \in FactIds |-> IF f \in ids THEN d ELSE @[f]],
                               !.ack = Nil]

reviewer == Reviewer[FamilyOf[shown.case]]
facts_shown == shown.bundle.facts
review_of(f) == state(shown.case, saved).facts[f.id]

contested(f) ==
    f.dimension # "method" /\ \E a, b \in facts_shown :
        /\ f.dimension = a.dimension /\ f.dimension = b.dimension
        /\ a.value # b.value
positive_candidate(f) == f.reads = "support" /\ f.kind \in {"configuration", "test"}

\* The interpretations that are confirmed together.
group ==
    {f \in facts_shown :
        /\ f.reads = "support" /\ f.sound /\ review_of(f) # "challenged"
        /\ reviewer = "mfa" => f.grouped /\ positive_candidate(f) /\ ~ contested(f)}

confirm_supporting ==
    /\ group # {} /\ \E f \in group : review_of(f) = Nil
    /\ reviewer = "mfa" => \A f \in group : review_of(f) = Nil
    /\ decide(group, "supported")

confirm_exception(f) ==
    /\ f \in facts_shown /\ f.reads = "adverse" /\ f.sound /\ review_of(f) = Nil
    /\ reviewer = "mfa" => f.kind # "policy"
    /\ decide({f}, IF reviewer = "mfa" THEN "exception" ELSE "supported")

confirm_meaning(f) ==
    /\ reviewer = "none"
    /\ f \in facts_shown /\ f.reads = "review" /\ f.sound /\ review_of(f) = Nil
    /\ decide({f}, "supported")

challenge(f) ==
    /\ f \in facts_shown
    /\ reviewer = "mfa" => f.grouped
    /\ decide({f}, "challenged")

triage_signal(s, d) ==
    LET own == state(shown.case, saved)
    IN /\ s \in shown.bundle.signals
       /\ record([own EXCEPT !.signals[s] = d, !.ack = Nil])
       /\ stay' = [stay EXCEPT !.signals[s] = d, !.ack = Nil]

acknowledge_bundle ==
    LET own == state(shown.case, saved)
    IN /\ reviewer = "mfa" => own.ack = Nil
       /\ record([own EXCEPT !.ack = own.signals])
       /\ stay' = [stay EXCEPT !.ack = stay.signals]

-----------------------------------------------------------------------------
ReviewInit ==
    \E c \in Cases, v \in Versions :
        /\ version = v
        /\ saved = NothingSaved
        /\ shown = [case |-> c, bundle |-> Package[c][v],
                    outcome |-> outcome(c, Package[c][v], Unreviewed)]
        /\ stay = Unreviewed

ReviewNext ==
    \/ \E c \in Cases : select(c)
    \/ reload
    \/ confirm_supporting
    \/ \E f \in facts_shown :
          confirm_exception(f) \/ confirm_meaning(f) \/ challenge(f)
    \/ \E s \in Signals, d \in {"material", "dismissed"} : triage_signal(s, d)
    \/ acknowledge_bundle

\* A package is displayed as meeting the customer's requirement only if the
\* analyst, while it was displayed and since it last came up, confirmed every one
\* of its interpretations and challenged none since, found every exception signal
\* of its documents immaterial, and reviewed the whole bundle after all of that
\* (mfa_analyst_review.py, control_assurance.py).
MetIsEarned ==
    shown.outcome = "Met" =>
        /\ ~ shown.bundle.limited
        /\ \A f \in facts_shown : f.reads = "support" /\ stay.facts[f.id] = "supported"
        /\ \A s \in shown.bundle.signals : stay.signals[s] = "dismissed"
        /\ stay.ack # Nil
=============================================================================
