------------------------ MODULE BrowserSession_proofs ------------------------
(***************************************************************************)
(* Proofs about BrowserSession, for every set of packages and files.        *)
(***************************************************************************)
EXTENDS BrowserSession, TLAPS

-----------------------------------------------------------------------------
(* The review on the screen *)

Bundles == {Package[c][v] : c \in Cases, v \in Versions}
SavedReviews == [prefix : Cases \X Bundles, review : Reviews]

\* The review kept under the key of the case on the screen.
Key == state_key(shown.case)
Kept == IF saved[Key] = Nil THEN Unreviewed ELSE saved[Key].review

ReviewTypes ==
    /\ version \in Versions
    /\ saved \in [Keys -> SavedReviews \cup {Nil}]
    /\ shown \in [case : Cases, bundle : Bundles, outcome : Outcomes]
    /\ stay \in Reviews

\* What is kept is of the package on the screen and was all decided in this
\* stay, and the outcome on the screen is that of these decisions.
OnScreen ==
    /\ saved[Key] = Nil \/ saved[Key].prefix = <<shown.case, shown.bundle>>
    /\ stay = Kept
    /\ shown.outcome = outcome(shown.case, shown.bundle, stay)

\* What the buttons of each reviewer may confirm.
Confirmable ==
    /\ stay.ack # Nil => stay.ack = stay.signals
    /\ \A f \in shown.bundle.facts :
         /\ stay.facts[f.id] = "exception" => reviewer = "mfa"
         /\ stay.facts[f.id] = "supported" =>
              \/ f.reads = "support"
              \/ f.reads = "adverse" /\ reviewer = "typed"
              \/ reviewer = "none"

ReviewInv == ReviewTypes /\ OnScreen /\ Confirmable

LEMMA MfaType ==
    ASSUME NEW p, NEW r
    PROVE  evaluate_privileged_mfa(p, r) \in Outcomes
BY DEF evaluate_privileged_mfa, covered, Outcomes

LEMMA TypedType ==
    ASSUME NEW p, NEW r
    PROVE  evaluate_typed(p, r) \in Outcomes
BY DEF evaluate_typed, covered, Outcomes

LEMMA OutcomeType ==
    ASSUME NEW c \in Cases, NEW p, NEW r
    PROVE  outcome(c, p, r) \in Outcomes
<1>1. {"Needs Review", "Evidence Missing"} \subseteq Outcomes
  BY DEF Outcomes
<1> QED
  BY <1>1, MfaType, TypedType DEF outcome

LEMMA UnreviewedType ==
    Unreviewed \in Reviews /\ \A i \in FactIds : Unreviewed.facts[i] = Nil
BY DEF Unreviewed, Reviews, Decisions

LEMMA BundleType ==
    ASSUME NEW p \in Bundles
    PROVE  IsPackage(p)
BY CasesAssumption DEF Bundles

\* An outcome that meets the requirement, of the package p under the review r.
LEMMA MetMeans ==
    ASSUME ReviewInv, shown.outcome = "Met"
    PROVE  MetIsEarned
<1> DEFINE p == shown.bundle
<1>1. shown.case \in Cases /\ p \in Bundles /\ IsPackage(p) /\ stay \in Reviews
  BY BundleType DEF ReviewInv, ReviewTypes
<1>2. reviewer \in {"mfa", "typed"}
  BY <1>1, CasesAssumption DEF ReviewInv, OnScreen, outcome, reviewer
<1>3. SUFFICES /\ ~ p.limited
               /\ \A f \in p.facts : f.reads = "support" /\ stay.facts[f.id] = "supported"
               /\ \A s \in p.signals : stay.signals[s] = "dismissed"
               /\ stay.ack # Nil
  BY DEF MetIsEarned, facts_shown
<1>4. \A f \in p.facts : f.id \in FactIds /\ f.reads \in {"support", "adverse", "review"}
  BY <1>1 DEF IsPackage, Facts
<1>5. CASE reviewer = "mfa"
  <2>1. ~ follow_up(p, stay) /\ evaluate_privileged_mfa(p, stay) = "Met"
    BY <1>5 DEF ReviewInv, OnScreen, outcome, reviewer
  <2>2. accepted(p, stay) = p.facts
    BY <2>1 DEF follow_up
  <2>3. \A f \in p.facts : stay.facts[f.id] = "supported"
    BY <2>1, <2>2 DEF follow_up, accepted
  <2>4. \A f \in p.facts : f.reads = "support"
    BY <2>3, <1>5 DEF ReviewInv, Confirmable
  <2>5. stay.ack # Nil /\ stay.ack = stay.signals
    BY <2>1 DEF follow_up, ReviewInv, Confirmable
  <2> QED
    BY <2>1, <2>3, <2>4, <2>5 DEF follow_up
<1>6. CASE reviewer = "typed"
  <2>1. ~ limitations(p, stay) /\ evaluate_typed(p, stay) = "Met"
    BY <1>6 DEF ReviewInv, OnScreen, outcome, reviewer
  <2>2. accepted(p, stay) = p.facts
    BY <2>1 DEF limitations
  <2>3. \A f \in p.facts : stay.facts[f.id] = "supported"
    BY <2>2, <1>6 DEF accepted, ReviewInv, Confirmable
  <2>4. adverse(p, stay) = {} /\ current(p, stay) = accepted(p, stay)
    BY <2>1 DEF evaluate_typed
  <2>5. \A f \in p.facts : f.reads # "adverse"
    BY <2>2, <2>4 DEF adverse
  <2>6. \A f \in p.facts : f.reads = "support"
    BY <2>3, <2>5, <1>6 DEF ReviewInv, Confirmable
  <2>7. stay.ack # Nil
    BY <2>1, <1>1, NilAssumption DEF limitations, Reviews
  <2> QED
    BY <2>1, <2>3, <2>6, <2>7 DEF limitations
<1> QED
  BY <1>2, <1>5, <1>6

LEMMA KeyType == \A c \in Cases : state_key(c) \in Keys
BY DEF state_key, Keys

LEMMA ReviewInitially == ReviewInit => ReviewInv
<1> SUFFICES ASSUME NEW c \in Cases, NEW v \in Versions,
                    version = v, saved = NothingSaved, stay = Unreviewed,
                    shown = [case |-> c, bundle |-> Package[c][v],
                             outcome |-> outcome(c, Package[c][v], Unreviewed)]
             PROVE  ReviewInv
  BY DEF ReviewInit
<1>1. ReviewTypes
  BY OutcomeType, UnreviewedType DEF ReviewTypes, NothingSaved, Bundles
<1>2. OnScreen
  BY KeyType DEF OnScreen, Kept, Key, NothingSaved
<1>3. Confirmable
  <2>1. \A f \in shown.bundle.facts : f.id \in FactIds
    BY BundleType, <1>1 DEF ReviewTypes, IsPackage, Facts
  <2>2. \A f \in shown.bundle.facts : stay.facts[f.id] = Nil
    BY <2>1, UnreviewedType
  <2> QED
    BY <2>2, NilAssumption DEF Confirmable, Unreviewed
<1> QED
  BY <1>1, <1>2, <1>3 DEF ReviewInv

\* A case comes to the screen with nothing kept for it, or as it was left.
LEMMA Displayed ==
    ASSUME ReviewInv, NEW c \in Cases, display(c)
    PROVE  ReviewInv'
<1> DEFINE popped == pop_family(c)
           review == state(c, popped)
<1>1. /\ saved' = [popped EXCEPT ![state_key(c)] = IF kept(c, popped) THEN @ ELSE Nil]
      /\ shown' = [case |-> c, bundle |-> bundle(c), outcome |-> outcome(c, bundle(c), review)]
      /\ stay' = IF same_stay(c) THEN stay ELSE Unreviewed
      /\ version' = version
  BY DEF display, render
<1>2. /\ popped \in [Keys -> SavedReviews \cup {Nil}]
      /\ state_key(c) \in Keys /\ bundle(c) \in Bundles
  BY KeyType DEF pop_family, NothingSaved, ReviewInv, ReviewTypes, bundle, Bundles
<1>3. /\ saved' \in [Keys -> SavedReviews \cup {Nil}]
      /\ saved'[state_key(c)] = IF kept(c, popped) THEN popped[state_key(c)] ELSE Nil
      /\ kept(c, popped) => popped[state_key(c)] \in SavedReviews
  BY <1>1, <1>2 DEF kept
<1>4. review = IF saved'[state_key(c)] = Nil THEN Unreviewed ELSE saved'[state_key(c)].review
  BY <1>3, NilAssumption DEF state, kept, SavedReviews, Bundles
<1>5. review \in Reviews
  BY <1>3, UnreviewedType DEF state, SavedReviews
<1>6. Key' = state_key(c) /\ Kept' = review
  BY <1>1, <1>4 DEF Key, Kept, state_key
<1>7. stay' = review
  <2>1. CASE same_stay(c)
    <3>1. popped = saved /\ Key = state_key(c)
      BY <2>1 DEF same_stay, pop_family, Key
    <3>2. saved[Key] # Nil => kept(c, saved)
      BY <2>1, <3>1 DEF ReviewInv, OnScreen, same_stay, kept, prefix
    <3> QED
      BY <1>1, <2>1, <3>1, <3>2 DEF ReviewInv, OnScreen, Kept, state, kept
  <2>2. CASE ~ same_stay(c)
    <3>1. ~ kept(c, popped)
      <4>1. CASE FamilyOf[c] = FamilyOf[shown.case]
        <5>1. popped = saved /\ Key = state_key(c)
          BY <4>1 DEF pop_family, Key, state_key
        <5> QED
          BY <5>1, <2>2 DEF ReviewInv, OnScreen, same_stay, kept, prefix
      <4>2. CASE FamilyOf[c] # FamilyOf[shown.case]
        BY <4>2, <1>2 DEF pop_family, NothingSaved, kept
      <4> QED
        BY <4>1, <4>2
    <3> QED
      BY <1>1, <2>2, <3>1 DEF state
  <2> QED
    BY <2>1, <2>2
<1>8. ReviewTypes'
  BY <1>1, <1>2, <1>3, <1>5, <1>7, OutcomeType DEF ReviewTypes, ReviewInv
<1>9. OnScreen'
  BY <1>1, <1>3, <1>6, <1>7 DEF OnScreen, kept, prefix, bundle
<1>10. Confirmable'
  <2>1. CASE same_stay(c)
    BY <2>1, <1>1 DEF same_stay, ReviewInv, Confirmable, reviewer
  <2>2. CASE ~ same_stay(c)
    <3>1. \A f \in shown'.bundle.facts : f.id \in FactIds
      BY BundleType, <1>1, <1>2 DEF IsPackage, Facts
    <3>2. \A f \in shown'.bundle.facts : stay'.facts[f.id] = Nil
      BY <3>1, <1>1, <2>2, UnreviewedType
    <3> QED
      BY <3>2, <1>1, <2>2, NilAssumption DEF Confirmable, Unreviewed
  <2> QED
    BY <2>1, <2>2
<1> QED
  BY <1>8, <1>9, <1>10 DEF ReviewInv

\* While the package on the screen is the server's, its review is that of the stay.
LEMMA StateIsStay ==
    ASSUME ReviewInv, same_stay(shown.case)
    PROVE  state(shown.case, saved) = stay
BY DEF ReviewInv, OnScreen, Kept, Key, same_stay, state, kept, prefix

LEMMA Recorded ==
    ASSUME ReviewInv, NEW r \in Reviews, record(r), stay' = r
    PROVE  /\ ReviewTypes' /\ OnScreen'
           /\ shown'.case = shown.case /\ shown'.bundle = shown.bundle
<1> DEFINE c == shown.case
           next == [saved EXCEPT ![Key] = [prefix |-> prefix(c), review |-> r]]
<1>1. /\ same_stay(c) /\ version' = version
      /\ saved' = [next EXCEPT ![Key] = IF kept(c, next) THEN @ ELSE Nil]
      /\ shown' = [case |-> c, bundle |-> bundle(c),
                   outcome |-> outcome(c, bundle(c), state(c, next))]
  BY DEF record, render, Key
<1>2. /\ c \in Cases /\ bundle(c) \in Bundles /\ bundle(c) = shown.bundle
      /\ Key \in Keys /\ prefix(c) = <<c, shown.bundle>>
      /\ [prefix |-> prefix(c), review |-> r] \in SavedReviews
  BY <1>1, KeyType DEF ReviewInv, ReviewTypes, same_stay, prefix, SavedReviews, Key
<1>3. /\ next \in [Keys -> SavedReviews \cup {Nil}]
      /\ next[Key] = [prefix |-> prefix(c), review |-> r]
      /\ next[Key] # Nil
  BY <1>2, NilAssumption DEF ReviewInv, ReviewTypes, SavedReviews, Bundles
<1>4. kept(c, next) /\ state(c, next) = r
  BY <1>3 DEF kept, state, Key
<1>5. saved' \in [Keys -> SavedReviews \cup {Nil}] /\ saved'[Key] = next[Key]
  BY <1>1, <1>2, <1>3, <1>4
<1>6. Key' = Key
  BY <1>1 DEF Key, state_key
<1>7. ReviewTypes'
  BY <1>1, <1>2, <1>4, <1>5, OutcomeType DEF ReviewTypes, ReviewInv
<1>8. OnScreen'
  BY <1>1, <1>2, <1>3, <1>4, <1>5, <1>6 DEF OnScreen, Kept
<1> QED
  BY <1>1, <1>2, <1>7, <1>8

\* Deciding facts that the reviewer may so decide keeps the invariant.
LEMMA DecidedSoundly ==
    ASSUME ReviewInv, NEW F \in SUBSET facts_shown, NEW d \in Decisions, decide(F, d),
           d = "exception" => reviewer = "mfa",
           d = "supported" => \A f \in F : \/ f.reads = "support"
                                           \/ f.reads = "adverse" /\ reviewer = "typed"
                                           \/ reviewer = "none"
    PROVE  ReviewInv'
<1> DEFINE ids == {f.id : f \in F}
           r == decided(stay, ids, d)
<1>1. same_stay(shown.case) /\ state(shown.case, saved) = stay
  BY StateIsStay DEF decide, record
<1>2. stay \in Reviews
  BY DEF ReviewInv, ReviewTypes
<1>3. /\ r \in Reviews /\ r.ack = Nil
      /\ r.facts = [i \in FactIds |-> IF i \in ids THEN d ELSE stay.facts[i]]
  BY <1>2 DEF decided, Reviews
<1>4. record(r)
  BY <1>1 DEF decide
<1>5. stay' = r
  BY <1>1, <1>2 DEF decide, decided, Reviews
<1>6. /\ ReviewTypes' /\ OnScreen'
      /\ shown'.case = shown.case /\ shown'.bundle = shown.bundle
  BY <1>3, <1>4, <1>5, Recorded
<1>7. Confirmable'
  <2>1. IsPackage(shown.bundle)
    BY BundleType DEF ReviewInv, ReviewTypes
  <2>2. reviewer' = reviewer
    BY <1>6 DEF reviewer
  <2>3. SUFFICES ASSUME NEW f \in shown.bundle.facts
                 PROVE  /\ r.facts[f.id] = "exception" => reviewer = "mfa"
                        /\ r.facts[f.id] = "supported" =>
                             \/ f.reads = "support"
                             \/ f.reads = "adverse" /\ reviewer = "typed"
                             \/ reviewer = "none"
    BY <1>3, <1>5, <1>6, <2>2 DEF Confirmable
  <2>4. f.id \in FactIds
    BY <2>1 DEF IsPackage, Facts
  <2>5. CASE f.id \in ids
    <3>1. f \in F
      BY <2>1, <2>5 DEF IsPackage, facts_shown
    <3> QED
      BY <1>3, <2>4, <2>5, <3>1
  <2>6. CASE f.id \notin ids
    BY <1>3, <2>4, <2>6 DEF ReviewInv, Confirmable
  <2> QED
    BY <2>5, <2>6
<1> QED
  BY <1>6, <1>7 DEF ReviewInv

LEMMA Triaged ==
    ASSUME ReviewInv, NEW s \in Signals, NEW d \in {"material", "dismissed"},
           triage_signal(s, d)
    PROVE  ReviewInv'
<1> DEFINE r == [stay EXCEPT !.signals[s] = d, !.ack = Nil]
<1>1. same_stay(shown.case) /\ state(shown.case, saved) = stay
  BY StateIsStay DEF triage_signal, record
<1>2. stay \in Reviews
  BY DEF ReviewInv, ReviewTypes
<1>3. r \in Reviews /\ r.ack = Nil /\ r.facts = stay.facts
  BY <1>2 DEF Reviews
<1>4. record(r) /\ stay' = r
  BY <1>1 DEF triage_signal
<1>5. /\ ReviewTypes' /\ OnScreen'
      /\ shown'.case = shown.case /\ shown'.bundle = shown.bundle
  BY <1>3, <1>4, Recorded
<1>6. Confirmable'
  BY <1>3, <1>4, <1>5 DEF ReviewInv, Confirmable, reviewer
<1> QED
  BY <1>5, <1>6 DEF ReviewInv

LEMMA Acknowledged ==
    ASSUME ReviewInv, acknowledge_bundle
    PROVE  ReviewInv'
<1> DEFINE r == [stay EXCEPT !.ack = stay.signals]
<1>1. same_stay(shown.case) /\ state(shown.case, saved) = stay
  BY StateIsStay DEF acknowledge_bundle, record
<1>2. stay \in Reviews
  BY DEF ReviewInv, ReviewTypes
<1>3. r \in Reviews /\ r.ack = r.signals /\ r.facts = stay.facts
  BY <1>2 DEF Reviews
<1>4. record(r) /\ stay' = r
  BY <1>1 DEF acknowledge_bundle
<1>5. /\ ReviewTypes' /\ OnScreen'
      /\ shown'.case = shown.case /\ shown'.bundle = shown.bundle
  BY <1>3, <1>4, Recorded
<1>6. Confirmable'
  BY <1>3, <1>4, <1>5 DEF ReviewInv, Confirmable, reviewer
<1> QED
  BY <1>5, <1>6 DEF ReviewInv

LEMMA ReviewStep == ReviewInv /\ ReviewNext => ReviewInv'
<1> SUFFICES ASSUME ReviewInv, ReviewNext PROVE ReviewInv'
  OBVIOUS
<1>1. CASE \E c \in Cases : select(c)
  BY <1>1, Displayed DEF select
<1>2. CASE reload
  BY <1>2 DEF reload, ReviewInv, ReviewTypes, OnScreen, Kept, Key, state_key, Confirmable,
              reviewer
<1>3. CASE confirm_supporting
  <2>1. group \in SUBSET facts_shown /\ \A f \in group : f.reads = "support"
    BY DEF group
  <2>2. decide(group, "supported") /\ "supported" \in Decisions
    BY <1>3 DEF confirm_supporting, Decisions
  <2> QED
    BY <2>1, <2>2, DecidedSoundly
<1>4. ASSUME NEW f \in facts_shown, confirm_exception(f)
      PROVE  ReviewInv'
  <2>1. reviewer \in {"mfa", "typed", "none"}
    BY CasesAssumption DEF reviewer, ReviewInv, ReviewTypes
  <2>2. f.reads = "adverse"
    BY <1>4 DEF confirm_exception
  <2>3. CASE reviewer = "mfa"
    <3>1. decide({f}, "exception") /\ "exception" \in Decisions
      BY <1>4, <2>3 DEF confirm_exception, Decisions
    <3> QED
      BY <2>3, <3>1, DecidedSoundly
  <2>4. CASE reviewer # "mfa"
    <3>1. decide({f}, "supported") /\ "supported" \in Decisions
      BY <1>4, <2>4 DEF confirm_exception, Decisions
    <3> QED
      BY <2>1, <2>2, <2>4, <3>1, DecidedSoundly
  <2> QED
    BY <2>3, <2>4
<1>5. ASSUME NEW f \in facts_shown, confirm_meaning(f)
      PROVE  ReviewInv'
  <2>1. reviewer = "none" /\ decide({f}, "supported") /\ "supported" \in Decisions
    BY <1>5 DEF confirm_meaning, Decisions
  <2> QED
    BY <2>1, DecidedSoundly
<1>6. ASSUME NEW f \in facts_shown, challenge(f)
      PROVE  ReviewInv'
  <2>1. decide({f}, "challenged") /\ "challenged" \in Decisions
    BY <1>6 DEF challenge, Decisions
  <2> QED
    BY <2>1, DecidedSoundly
<1>7. CASE \E s \in Signals, d \in {"material", "dismissed"} : triage_signal(s, d)
  BY <1>7, Triaged
<1>8. CASE acknowledge_bundle
  BY <1>8, Acknowledged
<1> QED
  BY <1>1, <1>2, <1>3, <1>4, <1>5, <1>6, <1>7, <1>8 DEF ReviewNext

\* A package is displayed as meeting the customer's requirement only if the
\* analyst decided so, in this stay with it, on all it holds; for every package,
\* reviewer and number of reloads (mfa_analyst_review.py, control_assurance.py).
THEOREM ReviewIsEarned == Spec => []MetIsEarned
<1>1. Init => ReviewInv
  BY ReviewInitially DEF Init
<1>2. ReviewInv /\ [Next]_vars => ReviewInv'
  <2>1. ReviewInv /\ UNCHANGED reviewVars => ReviewInv'
    BY DEF reviewVars, ReviewInv, ReviewTypes, OnScreen, Kept, Key, state_key, Confirmable,
           reviewer
  <2> QED
    BY <2>1, ReviewStep DEF Next, vars
<1>3. ReviewInv => MetIsEarned
  BY MetMeans DEF MetIsEarned
<1> QED
  BY <1>1, <1>2, <1>3, PTL DEF Spec

-----------------------------------------------------------------------------
(* The assessment of uploaded evidence *)

UploadHistories == Seq(UploadEntries)
Sessions ==
    [intake : BOOLEAN, model : Declared \cup {None}, actions : UploadHistories \cup {None},
     stage : Stage, pending_stage : Stage \cup {None},
     uploads : Declared, pending_files : SUBSET Files, file_error : BOOLEAN,
     metadata_edits : Declared, uploads_dirty : BOOLEAN,
     metadata_confirmation_pending : BOOLEAN,
     completion : {None} \cup [model : Declared, actions : UploadHistories]]

\* No page but the first before an assessment is created.
Fresh(s) == ~ s.intake => s.stage = "About vendor" /\ s.pending_stage = None
\* Nothing is pending unless the uploads are marked so.
Settled(s) == ~ s.file_error /\ ~ errors(s) /\ proposed(s) = s.uploads
Marked(s) == s.uploads_dirty \/ Settled(s)
Sound(s) == s \in Sessions /\ Fresh(s) /\ Marked(s)

\* What the pages show that depends on the uploads.
Later == {"Evaluate", "Review gaps", "Report"}
PagesSettled == drawn.whole /\ drawn.stage \in Later => Settled(session) /\ session.model # None
UploadFinished ==
    drawn.whole /\ drawn.finished =>
        /\ drawn.stage = "Report"
        /\ session.completion = complete_review(session.model, session.actions)
UploadInv ==
    Sound(session) /\ drawn \in Drawings /\ PagesSettled /\ UploadFinished

LEMMA Stages ==
    {"About vendor", "Upload evidence", "Evaluate", "Review gaps", "Report"} \subseteq Stage
<1>1. DOMAIN STAGES = 1..5
  BY DEF STAGES
<1>2. /\ STAGES[1] = "About vendor" /\ STAGES[2] = "Upload evidence" /\ STAGES[3] = "Evaluate"
      /\ STAGES[4] = "Review gaps" /\ STAGES[5] = "Report"
  BY DEF STAGES
<1>3. \A i \in 1..5 : STAGES[i] \in Stage
  BY <1>1 DEF Stage
<1>4. STAGES[1] \in Stage /\ STAGES[2] \in Stage /\ STAGES[3] \in Stage
  BY <1>3
<1>5. STAGES[4] \in Stage /\ STAGES[5] \in Stage
  BY <1>3
<1>6. "About vendor" \in Stage /\ "Upload evidence" \in Stage /\ "Evaluate" \in Stage
  BY <1>2, <1>4
<1>7. "Review gaps" \in Stage /\ "Report" \in Stage
  BY <1>2, <1>5
<1> QED
  BY <1>6, <1>7

LEMMA DeclarationType ==
    ASSUME NEW s \in Sessions, NEW f \in Files
    PROVE  declaration(s, f) \in Declarations
<1>1. s.uploads \in Declared /\ s.metadata_edits \in Declared
  BY DEF Sessions
<1>2. \A m \in Declared : \A g \in DOMAIN m : m[g] \in Declarations
  BY DEF Declared
<1>3. Suggested[f] \in Declarations
  BY UploadsAssumption
<1> QED
  BY <1>1, <1>2, <1>3 DEF declaration

LEMMA ProposedType ==
    ASSUME NEW s \in Sessions
    PROVE  /\ proposed(s) \in Declared
           /\ attached(s) \subseteq Files
           /\ ~ errors(s) => DOMAIN proposed(s) = attached(s)
           /\ \A f \in DOMAIN proposed(s) : proposed(s)[f] = declaration(s, f)
<1> DEFINE F == {g \in listed(s) : declaration(s, g) \notin Refused}
<1>1. s.uploads \in Declared /\ s.pending_files \subseteq Files
  BY DEF Sessions
<1>2. \A m \in Declared : DOMAIN m \subseteq Files
  BY DEF Declared
<1>3. attached(s) \subseteq Files
  BY <1>1, <1>2 DEF attached
<1>4. F \subseteq Files
  BY <1>3 DEF listed
<1>5. \A f \in F : declaration(s, f) \in Declarations
  BY <1>4, DeclarationType
<1>6. /\ DOMAIN proposed(s) = F
      /\ \A f \in F : proposed(s)[f] = declaration(s, f)
      /\ proposed(s) = [f \in F |-> declaration(s, f)]
  BY DEF proposed
<1>7. ~ errors(s) => F = attached(s)
  BY DEF errors, listed
<1> HIDE DEF F
<1>8. proposed(s) \in [F -> Declarations]
  BY <1>5, <1>6
<1> QED
  BY <1>3, <1>4, <1>6, <1>7, <1>8 DEF Declared

\* A stage is on the screen only of an assessment, whose stage it is and where
\* nothing holds it back or is missing.
LEMMA ScreenMeans ==
    ASSUME NEW s, NEW stage \in Later \cup {"Upload evidence"}, screen(s) = stage
    PROVE  s.intake /\ s.stage = stage /\ ~ held_back(s) /\ ~ fails(s)
BY DEF screen, Later

\* A run leaves the session sound and shows what is in it.
LEMMA RenderedSound ==
    ASSUME NEW s0, Sound(s0)
    PROVE  /\ Sound(rendered(s0))
           /\ rendered(s0).intake = s0.intake
           /\ LET s == rendered(s0)
              IN screen(s) = "Report" /\ s.completion # None =>
                    s.completion = complete_review(s.model, s.actions)
<1> DEFINE s == staged(s0)
<1>1. /\ s \in Sessions /\ Fresh(s) /\ s.intake = s0.intake
      /\ s.uploads_dirty = s0.uploads_dirty /\ s.file_error = s0.file_error
      /\ s.uploads = s0.uploads /\ s.pending_files = s0.pending_files
      /\ s.metadata_edits = s0.metadata_edits
  BY DEF Sound, Sessions, Fresh, staged
<1>2. Marked(s)
  BY <1>1 DEF Sound, Marked, Settled, errors, proposed, declaration, listed, attached
<1>0. CASE ~ s0.intake
  <2>1. rendered(s0) = s0
    BY <1>0 DEF rendered
  <2>2. screen(s0) = "Start"
    BY <1>0 DEF screen
  <2> QED
    BY <2>1, <2>2
<1>3. CASE s0.intake /\ (held_back(s) \/ fails(s))
  <2>1. rendered(s0) = s
    BY <1>3 DEF rendered
  <2>2. screen(s) # "Report"
    BY <1>1, <1>3 DEF screen
  <2> QED
    BY <1>1, <1>2, <2>1, <2>2 DEF Sound
<1>4. CASE s0.intake /\ ~ held_back(s) /\ ~ fails(s) /\ s.stage = "Upload evidence"
  <2>1. rendered(s0) = _uploads(s)
    BY <1>4 DEF rendered
  <2>0. rendered(s0).stage # "Report" => screen(rendered(s0)) # "Report"
    BY ScreenMeans DEF Later
  <2>2. CASE s.file_error
    BY <1>1, <1>2, <1>4, <2>0, <2>1, <2>2 DEF _uploads, Sound
  <2>3. CASE ~ s.file_error /\ over_limit(s)
    BY <1>1, <1>4, <2>0, <2>1, <2>3
       DEF _uploads, _invalidate_uploads, Sound, Sessions, Fresh, Marked
  <2>4. CASE ~ s.file_error /\ ~ over_limit(s)
    <3> DEFINE dirty == errors(s) \/ proposed(s) # s.uploads \/ s.metadata_confirmation_pending
               t == [s EXCEPT !.uploads_dirty = dirty,
                              !.completion = IF dirty THEN None ELSE @]
    <3>1. rendered(s0) = t
      BY <2>1, <2>4 DEF _uploads, compared
    <3>2. dirty \in BOOLEAN
      BY <1>1 DEF errors, Sessions
    <3>3. /\ t \in Sessions /\ t.stage = s.stage /\ t.intake = s.intake
          /\ t.uploads_dirty = dirty /\ t.file_error = s.file_error
          /\ t.uploads = s.uploads /\ t.pending_files = s.pending_files
          /\ t.metadata_edits = s.metadata_edits
      BY <1>1, <3>2 DEF Sessions
    <3>4. (errors(t) <=> errors(s)) /\ proposed(t) = proposed(s)
      BY <3>3 DEF errors, proposed, declaration, listed, attached
    <3>5. Marked(t)
      BY <2>4, <3>3, <3>4 DEF Marked, Settled
    <3> QED
      BY <1>1, <1>4, <2>0, <3>1, <3>3, <3>5 DEF Sound, Fresh
  <2> QED
    BY <2>2, <2>3, <2>4
<1>5. CASE s0.intake /\ ~ held_back(s) /\ ~ fails(s) /\ s.stage = "Report"
  <2>1. rendered(s0) = _report(s)
    BY <1>5 DEF rendered
  <2>2. CASE s.completion # None /\ ~ completion_is_current(s.model, s.actions, s.completion)
    <3> DEFINE t == [s EXCEPT !.completion = None]
    <3>1. rendered(s0) = t
      BY <2>1, <2>2 DEF _report
    <3>2. /\ t \in Sessions /\ t.completion = None
          /\ t.stage = s.stage /\ t.pending_stage = s.pending_stage /\ t.intake = s.intake
          /\ t.uploads_dirty = s.uploads_dirty /\ t.file_error = s.file_error
          /\ t.uploads = s.uploads /\ t.pending_files = s.pending_files
          /\ t.metadata_edits = s.metadata_edits
      BY <1>1 DEF Sessions
    <3>3. Marked(t)
      BY <1>2, <3>2 DEF Marked, Settled, errors, proposed, declaration, listed, attached
    <3> HIDE DEF t
    <3>4. Sound(t)
      BY <1>1, <3>2, <3>3 DEF Sound, Fresh
    <3> QED
      BY <1>1, <3>1, <3>2, <3>4
  <2>3. CASE s.completion = None \/ completion_is_current(s.model, s.actions, s.completion)
    <3>1. rendered(s0) = s
      BY <2>1, <2>3 DEF _report
    <3>2. s.completion # None => s.completion = complete_review(s.model, s.actions)
      BY <2>3 DEF completion_is_current
    <3>3. Sound(s) /\ s.intake = s0.intake
      BY <1>1, <1>2 DEF Sound
    <3> QED
      BY <3>1, <3>2, <3>3
  <2> QED
    BY <2>2, <2>3
<1>6. CASE s0.intake /\ ~ held_back(s) /\ ~ fails(s) /\ s.stage \notin {"Upload evidence", "Report"}
  <2>1. rendered(s0) = s
    BY <1>6 DEF rendered
  <2>2. screen(s) # "Report"
    BY <1>6, ScreenMeans DEF Later
  <2> QED
    BY <1>1, <1>2, <2>1, <2>2 DEF Sound
<1> QED
  BY <1>0, <1>3, <1>4, <1>5, <1>6

LEMMA RunSound ==
    ASSUME NEW s, Sound(s), run(s)
    PROVE  UploadInv'
<1> DEFINE t == rendered(s)
<1>1. session' = t /\ drawn' = on_screen(t)
  BY DEF run
<1>2. Sound(t) /\ t \in Sessions
  BY RenderedSound DEF Sound
<1>3. drawn' \in Drawings
  <2>1. t.stage \in Stage /\ attached(t) \subseteq Files
    BY <1>2, ProposedType DEF Sessions
  <2>2. screen(t) \in Stage \cup {"Start", "Held back", "Failed"}
    BY <2>1 DEF screen
  <2>3. offer(t) \subseteq Files
    BY <2>1 DEF offer, listed
  <2> QED
    BY <1>1, <2>2, <2>3 DEF on_screen, Drawings
<1>4. UploadFinished'
  BY <1>1, RenderedSound DEF UploadFinished, on_screen
<1>5. PagesSettled'
  <2>1. SUFFICES ASSUME NEW stage \in Later, screen(t) = stage
                 PROVE  Settled(t) /\ t.model # None
    BY <1>1 DEF PagesSettled, Settled, on_screen
  <2>2. t.stage \in Later /\ ~ held_back(t) /\ ~ fails(t)
    BY <2>1, ScreenMeans
  <2> QED
    BY <1>2, <2>2 DEF held_back, fails, Sound, Marked, Later
<1> QED
  BY <1>1, <1>2, <1>3, <1>4, <1>5 DEF UploadInv

LEMMA CutSound ==
    ASSUME NEW s, Sound(s), cut(s), drawn \in Drawings
    PROVE  UploadInv'
<1>1. session' = s /\ drawn' \in Drawings /\ ~ drawn'.whole
  BY DEF cut, Drawings
<1> QED
  BY <1>1 DEF UploadInv, PagesSettled, UploadFinished

LEMMA GestureSound ==
    ASSUME NEW s, Sound(s), gesture(s), drawn \in Drawings
    PROVE  UploadInv'
<1> QED
  BY RunSound, CutSound DEF gesture

LEMMA HandlerSound ==
    ASSUME NEW writes, \A n \in 1..Len(writes) : Sound(writes[n]), handler(writes),
           drawn \in Drawings
    PROVE  UploadInv'
<1>1. PICK n \in 1..Len(writes) : run(writes[n]) \/ cut(writes[n])
  BY DEF handler
<1>2. Sound(writes[n])
  BY <1>1
<1> QED
  BY <1>1, <1>2, RunSound, CutSound

-----------------------------------------------------------------------------
(* Callbacks *)

LEMMA InvalidatedSound ==
    ASSUME NEW s \in Sessions, Fresh(s)
    PROVE  Sound(_invalidate_uploads(s))
<1> QED
  BY DEF _invalidate_uploads, Sessions, Fresh, Marked, Sound

\* What is marked stays so, whatever else of the session is written.
LEMMA MarkedAlike ==
    ASSUME NEW s, NEW t, Marked(s),
           t.uploads_dirty = s.uploads_dirty, t.file_error = s.file_error,
           t.uploads = s.uploads, t.pending_files = s.pending_files,
           t.metadata_edits = s.metadata_edits
    PROVE  Marked(t)
<1> QED
  BY DEF Marked, Settled, errors, proposed, declaration, listed, attached

LEMMA FilesCaptured ==
    ASSUME NEW s, Sound(s), NEW F \in SUBSET Files
    PROVE  Sound(_capture_files(s, F)) /\ Sound(_discard_pending(s))
<1> DEFINE dirty == _invalidate_uploads(s)
           none == [dirty EXCEPT !.pending_files = {}, !.file_error = FALSE]
           refused == [dirty EXCEPT !.file_error = TRUE]
           more == [dirty EXCEPT !.pending_files = @ \cup F, !.file_error = FALSE]
           empty == [s EXCEPT !.pending_files = {}, !.file_error = FALSE]
<1>1. dirty \in Sessions /\ Fresh(dirty) /\ dirty.uploads_dirty
  BY DEF _invalidate_uploads, Sound, Sessions, Fresh
<1> HIDE DEF dirty
<1>2. Sound(none)
  BY <1>1 DEF Sound, Sessions, Fresh, Marked
<1>3. Sound(refused)
  BY <1>1 DEF Sound, Sessions, Fresh, Marked
<1>4. Sound(more)
  BY <1>1 DEF Sound, Sessions, Fresh, Marked
<1>5. Sound(_discard_pending(s))
  <2>1. empty \in Sessions /\ Fresh(empty)
    BY DEF Sound, Sessions, Fresh
  <2> QED
    BY <2>1, InvalidatedSound DEF _discard_pending
<1>6. _capture_files(s, F) \in {none, refused, more}
  BY DEF _capture_files, dirty
<1> QED
  BY <1>2, <1>3, <1>4, <1>5, <1>6

LEMMA MetadataCaptured ==
    ASSUME NEW s, Sound(s), NEW f \in Files, NEW d \in Declarations
    PROVE  /\ Sound(_capture_metadata(s, f, d))
           /\ Stated[f][declaration(s, f)] # None => Sound(_use_source_metadata(s, f))
<1>1. ASSUME NEW e \in Declarations
      PROVE  edited(s, f, e) \in Sessions /\ Fresh(edited(s, f, e))
  <2> DEFINE m == [g \in DOMAIN s.metadata_edits \cup {f} |->
                      IF g = f THEN e ELSE s.metadata_edits[g]]
  <2>1. /\ DOMAIN s.metadata_edits \subseteq Files
        /\ \A g \in DOMAIN s.metadata_edits : s.metadata_edits[g] \in Declarations
    BY DEF Sound, Sessions, Declared
  <2>2. m \in [DOMAIN s.metadata_edits \cup {f} -> Declarations]
    BY <2>1
  <2>3. m \in Declared
    BY <2>1, <2>2 DEF Declared
  <2> HIDE DEF m
  <2>4. [s EXCEPT !.metadata_edits = m] \in Sessions
    BY <2>3 DEF Sound, Sessions
  <2>5. edited(s, f, e) = [s EXCEPT !.metadata_edits = m]
    BY DEF edited, Sound, Sessions, m
  <2> QED
    BY <2>4, <2>5 DEF Sound, Sessions, Fresh
<1>2. Sound(_capture_metadata(s, f, d))
  BY <1>1, InvalidatedSound DEF _capture_metadata
<1>3. ASSUME Stated[f][declaration(s, f)] # None
      PROVE  Sound(_use_source_metadata(s, f))
  <2> DEFINE t == edited(s, f, Stated[f][declaration(s, f)])
             u == [t EXCEPT !.metadata_confirmation_pending = TRUE]
  <2>1. Stated[f][declaration(s, f)] \in Declarations
    BY <1>3, UploadsAssumption, DeclarationType DEF Sound
  <2>2. t \in Sessions /\ Fresh(t)
    BY <1>1, <2>1
  <2> HIDE DEF t
  <2>3. u \in Sessions /\ Fresh(u)
    BY <2>2 DEF Sessions, Fresh
  <2> QED
    BY <2>3, InvalidatedSound DEF _use_source_metadata, t
<1> QED
  BY <1>2, <1>3

LEMMA StageSet ==
    ASSUME NEW s, Sound(s), NEW stage \in Stage, s.intake \/ stage = "About vendor"
    PROVE  Sound([s EXCEPT !.stage = stage])
<1> DEFINE t == [s EXCEPT !.stage = stage]
<1>1. t \in Sessions /\ Fresh(t)
  BY DEF Sound, Sessions, Fresh
<1>2. Marked(t)
  BY MarkedAlike DEF Sound, Sessions
<1> QED
  BY <1>1, <1>2 DEF Sound

LEMMA NewSound ==
    LET w1 == [Untouched EXCEPT !.intake = TRUE]
        w2 == [w1 EXCEPT !.model = NoFiles]
        w3 == [w2 EXCEPT !.actions = <<>>]
        w4 == [w3 EXCEPT !.stage = "Upload evidence"]
        writes == <<Untouched, w1, w2, w3, w4>>
    IN  Sound(Untouched) /\ \A n \in 1..Len(writes) : Sound(writes[n])
<1> DEFINE w1 == [Untouched EXCEPT !.intake = TRUE]
           w2 == [w1 EXCEPT !.model = NoFiles]
           w3 == [w2 EXCEPT !.actions = <<>>]
           w4 == [w3 EXCEPT !.stage = "Upload evidence"]
           writes == <<Untouched, w1, w2, w3, w4>>
           Empty(w) == ~ w.file_error /\ w.uploads = NoFiles /\ w.pending_files = {}
<1>1. NoFiles \in Declared
  BY DEF NoFiles, Declared
<1>2. <<>> \in UploadHistories
  BY DEF UploadHistories
<1>3. Untouched \in Sessions /\ Fresh(Untouched) /\ Empty(Untouched)
  <2>1. Untouched \in Sessions
    BY <1>1, Stages DEF Untouched, Sessions
  <2> QED
    BY <2>1 DEF Untouched, Fresh
<1>4. w1 \in Sessions /\ w1.intake /\ Empty(w1)
  BY <1>3 DEF Sessions
<1> HIDE DEF w1
<1>5. w2 \in Sessions /\ w2.intake /\ Empty(w2)
  BY <1>1, <1>4 DEF Sessions
<1> HIDE DEF w2
<1>6. w3 \in Sessions /\ w3.intake /\ Empty(w3)
  BY <1>2, <1>5 DEF Sessions
<1> HIDE DEF w3
<1>7. w4 \in Sessions /\ w4.intake /\ Empty(w4)
  BY <1>6, Stages DEF Sessions
<1> HIDE DEF w4
<1>8. ASSUME NEW w \in Sessions, Fresh(w), Empty(w)
      PROVE  Sound(w)
  <2>1. attached(w) = {}
    BY <1>8 DEF attached, NoFiles
  <2>2. ~ errors(w) /\ proposed(w) = w.uploads
    BY <1>8, <2>1 DEF errors, proposed, listed, NoFiles
  <2> QED
    BY <1>8, <2>2 DEF Sound, Marked, Settled
<1> HIDE DEF Empty
<1>9. Sound(Untouched) /\ Sound(w1) /\ Sound(w2) /\ Sound(w3) /\ Sound(w4)
  BY <1>3, <1>4, <1>5, <1>6, <1>7, <1>8 DEF Fresh
<1>10. \A n \in 1..Len(writes) : Sound(writes[n])
  BY <1>9
<1> QED
  BY <1>9, <1>10 DEF w1, w2, w3, w4

-----------------------------------------------------------------------------
\* As long as Evaluate is not cut between its two writes, the model there is built
\* of what was taken over.
Matched == session.model \in {session.uploads, None}

LEMMA RenderedKeeps ==
    ASSUME NEW s \in Sessions
    PROVE  rendered(s).model = s.model /\ rendered(s).uploads = s.uploads
<1> DEFINE t == staged(s)
<1>1. t \in Sessions /\ t.model = s.model /\ t.uploads = s.uploads
  BY DEF staged, Sessions
<1> HIDE DEF t
<1>2. _uploads(t).model = t.model /\ _uploads(t).uploads = t.uploads
  BY <1>1 DEF _uploads, _invalidate_uploads, compared, Sessions
<1>3. _report(t).model = t.model /\ _report(t).uploads = t.uploads
  BY <1>1 DEF _report, Sessions
<1> QED
  BY <1>1, <1>2, <1>3 DEF rendered, t

\* A gesture or a handler none of whose writes takes the two apart leaves them so.
LEMMA MatchedGesture ==
    ASSUME NEW s, Sound(s), s.model \in {s.uploads, None}, run(s) \/ cut(s)
    PROVE  Matched'
<1>1. session' \in {rendered(s), s}
  BY DEF run, cut
<1> QED
  BY <1>1, RenderedKeeps DEF Matched, Sound

LEMMA MatchedHandler ==
    ASSUME NEW writes, handler(writes),
           \A n \in 1..Len(writes) :
              Sound(writes[n]) /\ writes[n].model \in {writes[n].uploads, None}
    PROVE  Matched'
<1>1. PICK n \in 1..Len(writes) : run(writes[n]) \/ cut(writes[n])
  BY DEF handler
<1> QED
  BY <1>1, MatchedGesture

LEMMA MatchedCallback ==
    ASSUME Matched, NEW s, Sound(s), gesture(s),
           s.model = session.model, s.uploads = session.uploads
    PROVE  Matched'
BY MatchedGesture DEF gesture, Matched

LEMMA MatchedCreate ==
    ASSUME create_assessment
    PROVE  Matched'
<1> DEFINE w1 == [Untouched EXCEPT !.intake = TRUE]
           w2 == [w1 EXCEPT !.model = NoFiles]
           w3 == [w2 EXCEPT !.actions = <<>>]
           w4 == [w3 EXCEPT !.stage = "Upload evidence"]
           writes == <<Untouched, w1, w2, w3, w4>>
           Alike(w) == w.model \in {w.uploads, None}
<1>1. handler(writes) /\ \A n \in 1..Len(writes) : Sound(writes[n])
  BY NewSound DEF create_assessment
<1>2. Alike(Untouched) /\ Alike(w1)
  BY DEF Untouched
<1>3. Alike(w2) /\ Alike(w3) /\ Alike(w4)
  BY DEF Untouched
<1> HIDE DEF w1, w2, w3, w4, Alike
<1>4. \A n \in 1..Len(writes) : Alike(writes[n])
  BY <1>2, <1>3
<1> HIDE DEF writes
<1> QED
  BY <1>1, <1>4, MatchedHandler DEF Alike

-----------------------------------------------------------------------------
(* Buttons *)

\* Taking the proposed uploads over settles them, whatever is still pending.
LEMMA TakenOver ==
    ASSUME NEW s \in Sessions, ~ errors(s),
           NEW t, ~ t.file_error, t.uploads = proposed(s), t.metadata_edits = s.metadata_edits,
           t.pending_files \in {s.pending_files, {}}
    PROVE  Settled(t)
<1>1. /\ DOMAIN proposed(s) = attached(s)
      /\ \A f \in attached(s) : proposed(s)[f] = declaration(s, f)
      /\ proposed(s) \in Declared
  BY ProposedType
<1>2. s.pending_files \subseteq attached(s)
  BY DEF attached
<1>3. attached(t) = attached(s)
  BY <1>1, <1>2 DEF attached
<1>4. \A f \in attached(s) : declaration(t, f) = declaration(s, f)
  BY <1>1 DEF declaration
<1>5. ~ errors(t)
  BY <1>3, <1>4 DEF errors
<1>6. proposed(t) = proposed(s)
  BY <1>3, <1>4 DEF proposed, listed
<1> QED
  BY <1>5, <1>6 DEF Settled

LEMMA EvaluatedSound ==
    ASSUME UploadInv, evaluate
    PROVE  UploadInv'
<1> DEFINE s == rendered(session)
           m == proposed(s)
           w1 == [s  EXCEPT !.model = m]
           w2 == [w1 EXCEPT !.uploads = m]
           w3 == [w2 EXCEPT !.pending_files = {}]
           w4 == [w3 EXCEPT !.completion = IF m = s.model THEN @ ELSE None]
           w5 == [w4 EXCEPT !.metadata_confirmation_pending = FALSE]
           w6 == [w5 EXCEPT !.uploads_dirty = FALSE]
           w7 == [w6 EXCEPT !.pending_stage = "Evaluate"]
           writes == <<w1, w2, w3, w4, w5, w6, w7>>
<1>1. Sound(s) /\ s \in Sessions /\ drawn \in Drawings
  BY RenderedSound DEF UploadInv, Sound
<1>2. s.intake /\ ~ s.file_error /\ ~ errors(s)
  BY ScreenMeans DEF evaluate, pressed
<1>3. run(s) \/ handler(writes)
  BY DEF evaluate
<1>4. m \in Declared
  BY <1>1, ProposedType
<1> HIDE DEF s, m
<1>5. /\ w1 \in Sessions /\ w1.intake
      /\ w1.uploads_dirty = s.uploads_dirty /\ w1.file_error = s.file_error
      /\ w1.uploads = s.uploads /\ w1.pending_files = s.pending_files
      /\ w1.metadata_edits = s.metadata_edits
  BY <1>1, <1>2, <1>4 DEF Sessions
<1>6. Sound(w1)
  BY <1>1, <1>2, <1>5, MarkedAlike DEF Sound, Fresh
\* What the later writes keep.
<1> DEFINE Taken(w) == /\ w \in Sessions /\ w.intake /\ ~ w.file_error
                       /\ w.uploads = m /\ w.metadata_edits = s.metadata_edits
                       /\ w.pending_files \in {s.pending_files, {}}
<1>7. ASSUME NEW w, Taken(w)
      PROVE  Sound(w)
  <2>1. Settled(w)
    BY <1>1, <1>2, <1>7, TakenOver DEF m
  <2> QED
    BY <1>7, <2>1 DEF Sound, Fresh, Marked
<1> HIDE DEF w1
<1>8. Taken(w2)
  BY <1>2, <1>4, <1>5 DEF Sessions
<1> HIDE DEF w2
<1>9. Taken(w3)
  BY <1>8 DEF Sessions
<1> HIDE DEF w3
<1>10. Taken(w4)
  BY <1>9 DEF Sessions
<1> HIDE DEF w4
<1>11. Taken(w5)
  BY <1>10 DEF Sessions
<1> HIDE DEF w5
<1>12. Taken(w6)
  BY <1>11 DEF Sessions
<1> HIDE DEF w6
<1>13. Taken(w7)
  BY <1>12, Stages DEF Sessions
<1> HIDE DEF w7
<1>14. Sound(w2) /\ Sound(w3) /\ Sound(w4) /\ Sound(w5) /\ Sound(w6) /\ Sound(w7)
  <2> HIDE DEF Taken
  <2> QED
    BY <1>7, <1>8, <1>9, <1>10, <1>11, <1>12, <1>13
<1>15. \A n \in 1..Len(writes) : Sound(writes[n])
  BY <1>6, <1>14
<1> HIDE DEF writes
<1> QED
  BY <1>1, <1>3, <1>15, RunSound, HandlerSound

LEMMA RecordedSound ==
    ASSUME UploadInv,
           NEW r \in Requirements, NEW a \in Actions, NEW why \in Rationales,
           record_draft_review(r, a, why)
    PROVE  UploadInv' /\ (Matched => Matched')
<1> DEFINE s == rendered(session)
           entry == Entry(upload_row_fingerprint(s.model, r), r, a, why)
           w1 == [s EXCEPT !.actions = Append(@, entry)]
           w2 == [w1 EXCEPT !.completion = None]
           writes == <<w1, w2>>
<1>1. Sound(s) /\ s \in Sessions /\ drawn \in Drawings
  BY RenderedSound DEF UploadInv, Sound
<1>0. Matched => s.model \in {s.uploads, None}
  BY RenderedKeeps DEF UploadInv, Sound, Matched
<1>2. handler(writes)
  BY DEF record_draft_review
<1>3. s.model \in Declared /\ s.actions \in Seq(UploadEntries)
  <2>1. s.stage = "Review gaps" /\ ~ held_back(s) /\ ~ fails(s)
    BY ScreenMeans DEF record_draft_review, pressed, Later
  <2> QED
    BY <1>1, <2>1 DEF fails, Sessions, UploadHistories
<1>4. entry \in UploadEntries
  BY <1>3 DEF Entry, Entries, UploadEntries
<1> HIDE DEF s, entry
<1>5. Append(s.actions, entry) \in UploadHistories
  BY <1>3, <1>4 DEF UploadHistories
<1>6. /\ w1 \in Sessions /\ w1.intake = s.intake
      /\ w1.stage = s.stage /\ w1.pending_stage = s.pending_stage
      /\ w1.uploads_dirty = s.uploads_dirty /\ w1.file_error = s.file_error
      /\ w1.uploads = s.uploads /\ w1.pending_files = s.pending_files
      /\ w1.model = s.model
      /\ w1.metadata_edits = s.metadata_edits
  BY <1>1, <1>5 DEF Sessions
<1> HIDE DEF w1
<1>7. /\ w2 \in Sessions /\ w2.intake = s.intake
      /\ w2.stage = s.stage /\ w2.pending_stage = s.pending_stage
      /\ w2.uploads_dirty = s.uploads_dirty /\ w2.file_error = s.file_error
      /\ w2.uploads = s.uploads /\ w2.pending_files = s.pending_files
      /\ w2.model = s.model
      /\ w2.metadata_edits = s.metadata_edits
  BY <1>6 DEF Sessions
<1> HIDE DEF w2
<1>8. Sound(w1) /\ Sound(w2)
  BY <1>1, <1>6, <1>7, MarkedAlike DEF Sound, Fresh
<1>9 \A n \in 1..Len(writes) :
         /\ Sound(writes[n])
         /\ writes[n].model = s.model /\ writes[n].uploads = s.uploads
  BY <1>6, <1>7, <1>8
<1> HIDE DEF writes
<1>10. UploadInv'
  BY <1>1, <1>2, <1>9, HandlerSound
<1>11. Matched => Matched'
  BY <1>2, <1>0, <1>9, MatchedHandler
<1> QED
  BY <1>10, <1>11

LEMMA FinishedSound ==
    ASSUME UploadInv, finish
    PROVE  UploadInv' /\ (Matched => Matched')
<1> DEFINE s == rendered(session)
           w == [s EXCEPT !.completion = complete_review(s.model, s.actions)]
           writes == <<w>>
<1>1. Sound(s) /\ s \in Sessions /\ drawn \in Drawings
  BY RenderedSound DEF UploadInv, Sound
<1>0. Matched => s.model \in {s.uploads, None}
  BY RenderedKeeps DEF UploadInv, Sound, Matched
<1>2. handler(writes)
  BY DEF finish
<1>3. complete_review(s.model, s.actions) \in [model : Declared, actions : UploadHistories]
  <2>1. s.stage = "Report" /\ ~ held_back(s) /\ ~ fails(s)
    BY ScreenMeans DEF finish, pressed, Later
  <2> QED
    BY <1>1, <2>1 DEF complete_review, fails, Sessions
<1> HIDE DEF s
<1>4. /\ w \in Sessions /\ w.intake = s.intake
      /\ w.stage = s.stage /\ w.pending_stage = s.pending_stage
      /\ w.uploads_dirty = s.uploads_dirty /\ w.file_error = s.file_error
      /\ w.uploads = s.uploads /\ w.pending_files = s.pending_files
      /\ w.model = s.model
      /\ w.metadata_edits = s.metadata_edits
  BY <1>1, <1>3 DEF Sessions
<1> HIDE DEF w
<1>5. Sound(w)
  BY <1>1, <1>4, MarkedAlike DEF Sound, Fresh
<1>6 \A n \in 1..Len(writes) :
         /\ Sound(writes[n])
         /\ writes[n].model = s.model /\ writes[n].uploads = s.uploads
  BY <1>4, <1>5
<1> HIDE DEF writes
<1>7. UploadInv'
  BY <1>1, <1>2, <1>6, HandlerSound
<1>8. Matched => Matched'
  BY <1>2, <1>0, <1>6, MatchedHandler
<1> QED
  BY <1>7, <1>8

LEMMA ReopenedSound ==
    ASSUME UploadInv, reopen
    PROVE  UploadInv' /\ (Matched => Matched')
<1> DEFINE s == rendered(session)
           w1 == [s EXCEPT !.completion = None]
           w2 == [w1 EXCEPT !.pending_stage = "Review gaps"]
           writes == <<w1, w2>>
<1>1. Sound(s) /\ s \in Sessions /\ drawn \in Drawings
  BY RenderedSound DEF UploadInv, Sound
<1>0. Matched => s.model \in {s.uploads, None}
  BY RenderedKeeps DEF UploadInv, Sound, Matched
<1>2. handler(writes)
  BY DEF reopen
<1>3. s.intake
  BY ScreenMeans DEF reopen, pressed, Later
<1> HIDE DEF s
<1>4. /\ w1 \in Sessions /\ w1.intake
      /\ w1.uploads_dirty = s.uploads_dirty /\ w1.file_error = s.file_error
      /\ w1.uploads = s.uploads /\ w1.pending_files = s.pending_files
      /\ w1.model = s.model
      /\ w1.metadata_edits = s.metadata_edits
  BY <1>1, <1>3 DEF Sessions
<1> HIDE DEF w1
<1>5. /\ w2 \in Sessions /\ w2.intake
      /\ w2.uploads_dirty = s.uploads_dirty /\ w2.file_error = s.file_error
      /\ w2.uploads = s.uploads /\ w2.pending_files = s.pending_files
      /\ w2.model = s.model
      /\ w2.metadata_edits = s.metadata_edits
  BY <1>4, Stages DEF Sessions
<1> HIDE DEF w2
<1>6. Sound(w1) /\ Sound(w2)
  BY <1>1, <1>4, <1>5, MarkedAlike DEF Sound, Fresh
<1>7 \A n \in 1..Len(writes) :
         /\ Sound(writes[n])
         /\ writes[n].model = s.model /\ writes[n].uploads = s.uploads
  BY <1>4, <1>5, <1>6
<1> HIDE DEF writes
<1>8. UploadInv'
  BY <1>1, <1>2, <1>7, HandlerSound
<1>9. Matched => Matched'
  BY <1>2, <1>0, <1>7, MatchedHandler
<1> QED
  BY <1>8, <1>9

-----------------------------------------------------------------------------
LEMMA UploadInitially == UploadInit => UploadInv
<1> SUFFICES ASSUME UploadInit
             PROVE  UploadInv
  OBVIOUS
<1>1. /\ session = Untouched
      /\ drawn = [stage |-> "Start", offers |-> {}, finished |-> FALSE, whole |-> TRUE]
  BY DEF UploadInit, on_screen, screen, Untouched
<1>2. Sound(session)
  BY <1>1, NewSound
<1>3. drawn \in Drawings
  BY <1>1 DEF Drawings
<1> QED
  BY <1>1, <1>2, <1>3 DEF UploadInv, PagesSettled, Later, UploadFinished

LEMMA UploadStep == UploadInv /\ UploadNext => UploadInv'
<1> SUFFICES ASSUME UploadInv, UploadNext
             PROVE  UploadInv'
  OBVIOUS
<1>0. Sound(session) /\ session \in Sessions /\ drawn \in Drawings
  BY DEF UploadInv, Sound
<1>1. CASE create_assessment
  BY <1>0, <1>1, NewSound, HandlerSound DEF create_assessment
<1>2. CASE \E F \in SUBSET Files : select_files(F)
  <2>1. PICK F \in SUBSET Files : select_files(F)
    BY <1>2
  <2> QED
    BY <1>0, <2>1, FilesCaptured, GestureSound DEF select_files
<1>3. CASE discard
  <2>1. Sound(_discard_pending(session))
    BY <1>0, FilesCaptured
  <2> QED
    BY <1>0, <1>3, <2>1, GestureSound DEF discard
<1>4. CASE \E f \in Files : use_source_metadata(f) \/ \E d \in Declarations : declare(f, d)
  <2>1. PICK f \in Files : use_source_metadata(f) \/ \E d \in Declarations : declare(f, d)
    BY <1>4
  <2>2. CASE use_source_metadata(f)
    <3>1. /\ Stated[f][declaration(session, f)] # None
          /\ gesture(_use_source_metadata(session, f))
      BY <2>2 DEF use_source_metadata
    <3>2. Suggested[f] \in Declarations
      BY UploadsAssumption
    <3>3. Sound(_use_source_metadata(session, f))
      BY <1>0, <3>1, <3>2, MetadataCaptured
    <3> QED
      BY <1>0, <3>1, <3>3, GestureSound
  <2>3. CASE \E d \in Declarations : declare(f, d)
    <3>1. PICK d \in Declarations : gesture(_capture_metadata(session, f, d))
      BY <2>3 DEF declare
    <3>2. Sound(_capture_metadata(session, f, d))
      BY <1>0, MetadataCaptured
    <3> QED
      BY <1>0, <3>1, <3>2, GestureSound
  <2> QED
    BY <2>1, <2>2, <2>3
<1>5. CASE \E stage \in Stage : go(stage)
  <2>1. PICK stage \in Stage : session.intake /\ gesture(_go(session, stage))
    BY <1>5 DEF go
  <2>2. Sound(_go(session, stage))
    BY <1>0, <2>1, StageSet DEF _go
  <2> QED
    BY <1>0, <2>1, <2>2, GestureSound
<1>6. CASE evaluate
  BY <1>6, EvaluatedSound
<1>7. CASE \E r \in Requirements, a \in Actions, why \in Rationales : record_draft_review(r, a, why)
  BY <1>7, RecordedSound
<1>8. CASE finish
  BY <1>8, FinishedSound
<1>9. CASE reopen
  BY <1>9, ReopenedSound
<1>10. CASE _reset
  BY <1>0, <1>10, NewSound, GestureSound DEF _reset
<1>11. CASE leave_page
  <2>1. PICK stage \in {session.stage, "About vendor"} : run([session EXCEPT !.stage = stage])
    BY <1>11 DEF leave_page
  <2>2. stage \in Stage
    BY <1>0, <2>1, Stages DEF Sessions
  <2>3. session.intake \/ stage = "About vendor"
    BY <1>0, <2>1 DEF Sound, Fresh
  <2>4. Sound([session EXCEPT !.stage = stage])
    BY <1>0, <2>2, <2>3, StageSet
  <2> QED
    BY <2>1, <2>4, RunSound
<1> QED
  BY <1>1, <1>2, <1>3, <1>4, <1>5, <1>6, <1>7, <1>8, <1>9, <1>10, <1>11 DEF UploadNext

LEMMA MatchedStep == UploadInv /\ Matched /\ UploadNext /\ ~ Interrupted => Matched'
<1> SUFFICES ASSUME UploadInv, Matched, UploadNext, ~ Interrupted
             PROVE  Matched'
  OBVIOUS
<1>0. Sound(session) /\ session \in Sessions
  BY DEF UploadInv, Sound
<1>1. CASE create_assessment
  BY <1>1, MatchedCreate
<1>2. CASE \E F \in SUBSET Files : select_files(F)
  <2>1. PICK F \in SUBSET Files : gesture(_capture_files(session, F))
    BY <1>2 DEF select_files
  <2>2. /\ Sound(_capture_files(session, F))
        /\ _capture_files(session, F).model = session.model
        /\ _capture_files(session, F).uploads = session.uploads
    BY <1>0, FilesCaptured DEF _capture_files, _invalidate_uploads, Sessions
  <2> QED
    BY <2>1, <2>2, MatchedCallback
<1>3. CASE discard
  <2>1. /\ Sound(_discard_pending(session))
        /\ _discard_pending(session).model = session.model
        /\ _discard_pending(session).uploads = session.uploads
    BY <1>0, FilesCaptured DEF _discard_pending, _invalidate_uploads, Sessions
  <2> QED
    BY <1>3, <2>1, MatchedCallback DEF discard
<1>4. CASE \E f \in Files : use_source_metadata(f) \/ \E d \in Declarations : declare(f, d)
  <2>1. PICK f \in Files : use_source_metadata(f) \/ \E d \in Declarations : declare(f, d)
    BY <1>4
  <2>2. CASE use_source_metadata(f)
    <3> DEFINE t == _use_source_metadata(session, f)
    <3>1. Stated[f][declaration(session, f)] # None /\ gesture(t)
      BY <2>2 DEF use_source_metadata
    <3>2. Suggested[f] \in Declarations
      BY UploadsAssumption
    <3>3. Sound(t)
      BY <1>0, <3>1, <3>2, MetadataCaptured
    <3>4. t.model = session.model /\ t.uploads = session.uploads
      BY <1>0 DEF _use_source_metadata, edited, _invalidate_uploads, Sessions
    <3> QED
      BY <3>1, <3>3, <3>4, MatchedCallback
  <2>3. CASE \E d \in Declarations : declare(f, d)
    <3>1. PICK d \in Declarations : gesture(_capture_metadata(session, f, d))
      BY <2>3 DEF declare
    <3> DEFINE t == _capture_metadata(session, f, d)
    <3>2. Sound(t)
      BY <1>0, MetadataCaptured
    <3>3. t.model = session.model /\ t.uploads = session.uploads
      BY <1>0 DEF _capture_metadata, edited, _invalidate_uploads, Sessions
    <3> QED
      BY <3>1, <3>2, <3>3, MatchedCallback
  <2> QED
    BY <2>1, <2>2, <2>3
<1>5. CASE \E stage \in Stage : go(stage)
  <2>1. PICK stage \in Stage : session.intake /\ gesture(_go(session, stage))
    BY <1>5 DEF go
  <2>2. /\ Sound(_go(session, stage))
        /\ _go(session, stage).model = session.model
        /\ _go(session, stage).uploads = session.uploads
    BY <1>0, <2>1, StageSet DEF _go, Sessions
  <2> QED
    BY <2>1, <2>2, MatchedCallback
<1>6. CASE evaluate
  BY <1>6 DEF Interrupted, Matched
<1>7. CASE \E r \in Requirements, a \in Actions, why \in Rationales : record_draft_review(r, a, why)
  BY <1>7, RecordedSound
<1>8. CASE finish
  BY <1>8, FinishedSound
<1>9. CASE reopen
  BY <1>9, ReopenedSound
<1>10. CASE _reset
  <2>1. Sound(Untouched) /\ Untouched.model \in {Untouched.uploads, None}
    BY NewSound DEF Untouched
  <2> QED
    BY <1>10, <2>1, MatchedGesture DEF _reset, gesture
<1>11. CASE leave_page
  <2>1. PICK stage \in {session.stage, "About vendor"} : run([session EXCEPT !.stage = stage])
    BY <1>11 DEF leave_page
  <2>2. stage \in Stage /\ (session.intake \/ stage = "About vendor")
    BY <1>0, <2>1, Stages DEF Sessions, Sound, Fresh
  <2> DEFINE t == [session EXCEPT !.stage = stage]
  <2>3. Sound(t) /\ t.model = session.model /\ t.uploads = session.uploads
    BY <1>0, <2>2, StageSet DEF Sessions
  <2> QED
    BY <2>1, <2>3, MatchedCallback DEF gesture
<1> QED
  BY <1>1, <1>2, <1>3, <1>4, <1>5, <1>6, <1>7, <1>8, <1>9, <1>10, <1>11 DEF UploadNext

LEMMA MatchedNext ==
    UploadInv /\ Matched /\ [Next /\ ~ Interrupted]_vars => UploadInv' /\ Matched'
<1>1. UploadInv /\ Matched /\ UNCHANGED uploadVars => UploadInv' /\ Matched'
  BY DEF uploadVars, UploadInv, PagesSettled, UploadFinished, Matched
<1> QED
  BY <1>1, UploadStep, MatchedStep DEF Next, vars

LEMMA MatchedInitially == UploadInit => Matched
<1>1. Untouched.model = None
  BY DEF Untouched
<1> QED
  BY <1>1 DEF UploadInit, Matched

\* A page that shows the evaluation, the gaps or the report shows those of what is
\* attached and declared now, whatever was attached, edited, refused or discarded
\* since Evaluate; for every number of files and declarations, as long as Evaluate
\* is not cut between its writes of the model and of the uploads
\* (upload_assessment_ui.py).
THEOREM NothingIsPending == UninterruptedSpec => []NothingPendingBehindReport
<1> DEFINE Inv == UploadInv /\ Matched
<1>1. Init => Inv
  BY UploadInitially, MatchedInitially DEF Init
<1>2. Inv /\ [Next /\ ~ Interrupted]_vars => Inv'
  BY MatchedNext
<1>3. Inv => NothingPendingBehindReport
  BY DEF UploadInv, PagesSettled, Later, Settled, Matched, NothingPendingBehindReport
<1> QED
  BY <1>1, <1>2, <1>3, PTL DEF UninterruptedSpec

-----------------------------------------------------------------------------
(* The guided demo *)

Walks ==
    [scenario : Scenarios, risk_profile : Profiles, step : Step, received : BOOLEAN,
     actions : Seq(DemoEntries),
     completion : {None} \cup [model : DemoModels, actions : Seq(DemoEntries)]]
Sights ==
    [step : Step, model : DemoModels, actions : Seq(DemoEntries),
     completion : {None} \cup [model : DemoModels, actions : Seq(DemoEntries)], whole : BOOLEAN]
DemoFinished ==
    sight.whole /\ sight.completion # None =>
        sight.completion = complete_review(build_demo(demo), demo.actions)
DemoInv == demo \in Walks /\ sight \in Sights /\ DemoFinished

LEMMA Steps ==
    {"Start", "Analyst Review"} \subseteq Step
<1>1. DOMAIN STEPS = 1..6
  BY DEF STEPS
<1>2. STEPS[1] = "Start" /\ STEPS[5] = "Analyst Review"
  BY DEF STEPS
<1>3. \A i \in 1..6 : STEPS[i] \in Step
  BY <1>1 DEF Step
<1>4. STEPS[1] \in Step /\ STEPS[5] \in Step
  BY <1>3
<1> QED
  BY <1>2, <1>4

LEMMA StartedType == Started \in Walks
<1>1. /\ SCENARIOS \in Seq(STRING) /\ Len(SCENARIOS) > 0
      /\ RISK_PROFILES \in Seq(STRING) /\ Len(RISK_PROFILES) > 0
  BY DemoAssumption
<1>2. Head(SCENARIOS) \in Scenarios
  BY <1>1 DEF Scenarios
<1>3. Head(RISK_PROFILES) \in Profiles
  BY <1>1 DEF Profiles
<1>4. <<>> \in Seq(DemoEntries)
  OBVIOUS
<1>5. "Start" \in Step
  BY Steps
<1> QED
  BY <1>2, <1>3, <1>4, <1>5 DEF Started, Walks

LEMMA Built ==
    ASSUME NEW d \in Walks
    PROVE  build_demo(d) \in DemoModels
<1> DEFINE e == [scenario |-> d.scenario, received |-> d.received, risk_profile |-> d.risk_profile]
<1>1. e \in [scenario : Scenarios, received : BOOLEAN, risk_profile : Profiles]
  BY DEF Walks
<1>2. build_demo(d) = build_demo(e)
  BY DEF build_demo
<1> QED
  BY <1>1, <1>2 DEF DemoModels

LEMMA ClickedSound ==
    ASSUME NEW d \in Walks, clicked(d), DemoInv
    PROVE  DemoInv'
<1>1. CASE run_demo(d)
  <2> DEFINE e == reopened(d)
  <2>1. /\ e \in Walks
        /\ e.completion # None => e.completion = complete_review(build_demo(e), e.actions)
    <3>1. CASE is_current(d)
      BY <3>1 DEF reopened, is_current, completion_is_current
    <3>2. CASE ~ is_current(d)
      <4>1. e = [d EXCEPT !.completion = None]
        BY <3>2 DEF reopened
      <4> QED
        BY <4>1 DEF Walks
    <3> QED
      BY <3>1, <3>2
  <2>2. demo' = e /\ sight' = shows(e)
    BY <1>1 DEF run_demo
  <2>3. build_demo(e) \in DemoModels
    BY <2>1, Built
  <2>4. shows(e) \in Sights
    BY <2>1, <2>3 DEF shows, Walks, Sights
  <2>5. DemoFinished'
    BY <2>1, <2>2 DEF DemoFinished, shows
  <2> QED
    BY <2>1, <2>2, <2>4, <2>5 DEF DemoInv
<1>2. CASE cut_demo(d)
  BY <1>2 DEF cut_demo, DemoInv, DemoFinished, Sights
<1> QED
  BY <1>1, <1>2 DEF clicked

LEMMA SimulatedSound ==
    ASSUME DemoInv,
           NEW r \in Requirements, NEW a \in Actions, NEW why \in Rationales,
           record_simulated_review(r, a, why)
    PROVE  DemoInv'
<1> DEFINE d == reopened(demo)
           entry == Entry(demo_row_fingerprint(d, r), r, a, why)
           w1 == [d EXCEPT !.actions = Append(@, entry)]
           w2 == [w1 EXCEPT !.completion = None]
<1>1. demo \in Walks
  BY DEF DemoInv
<1>2. d \in Walks
  BY <1>1 DEF reopened, Walks
<1>3. run_demo(w2) \/ cut_demo(w1)
  BY DEF record_simulated_review
<1>4. /\ d.risk_profile \in Profiles /\ d.scenario \in Scenarios /\ d.received \in BOOLEAN
      /\ d.actions \in Seq(DemoEntries)
  BY <1>2 DEF Walks
<1>5. demo_row_fingerprint(d, r) \in
         {<<p, RowOf[s][b][q]>> : p \in Profiles, s \in Scenarios, b \in BOOLEAN, q \in Requirements}
  BY <1>4 DEF demo_row_fingerprint
<1>6. entry \in DemoEntries
  BY <1>5 DEF Entry, Entries, DemoEntries
<1> HIDE DEF d, entry
<1>7. Append(d.actions, entry) \in Seq(DemoEntries)
  BY <1>4, <1>6
<1>8. w1 \in Walks
  BY <1>2, <1>7 DEF Walks
<1> HIDE DEF w1
<1>9. w2 \in Walks
  BY <1>8 DEF Walks
<1> HIDE DEF w2
<1> QED
  BY <1>3, <1>8, <1>9, ClickedSound DEF clicked

LEMMA DemoStep == DemoInv /\ DemoNext => DemoInv'
<1> SUFFICES ASSUME DemoInv, DemoNext
             PROVE  DemoInv'
  OBVIOUS
<1>0. demo \in Walks /\ sight \in Sights
  BY DEF DemoInv
<1>1. CASE \E s \in Scenarios : change_scenario(s)
  <2>1. PICK s \in Scenarios : clicked(_change_scenario(demo, s))
    BY <1>1 DEF change_scenario
  <2>2. _change_scenario(demo, s) \in Walks
    BY <1>0, StartedType DEF _change_scenario, Walks
  <2> QED
    BY <2>1, <2>2, ClickedSound
<1>2. CASE \E p \in Profiles : change_risk(p)
  <2>1. PICK p \in Profiles : clicked([demo EXCEPT !.risk_profile = p])
    BY <1>2 DEF change_risk
  <2>2. [demo EXCEPT !.risk_profile = p] \in Walks
    BY <1>0 DEF Walks
  <2> QED
    BY <2>1, <2>2, ClickedSound
<1>3. CASE reset_demo
  BY <1>3, StartedType, ClickedSound DEF reset_demo
<1>4. CASE receive
  <2>1. _receive(demo) \in Walks
    BY <1>0 DEF _receive, Walks
  <2> QED
    BY <1>4, <2>1, ClickedSound DEF receive
<1>5. CASE leave_demo
  <2> DEFINE forgotten == [Started EXCEPT !.received = demo.received, !.actions = demo.actions,
                                          !.completion = demo.completion]
  <2>1. forgotten \in Walks
    BY <1>0, StartedType DEF Walks
  <2> HIDE DEF forgotten
  <2>2. run_demo(demo) \/ run_demo(forgotten)
    BY <1>5 DEF leave_demo, forgotten
  <2> QED
    BY <1>0, <2>1, <2>2, ClickedSound DEF clicked
<1>6. CASE finish_demo
  <2>1. complete_review(sight.model, sight.actions) \in [model : DemoModels, actions : Seq(DemoEntries)]
    BY <1>0 DEF complete_review, Sights
  <2>2. _finish(demo) \in Walks
    BY <1>0, <2>1 DEF _finish, Walks
  <2> QED
    BY <1>6, <2>2, ClickedSound DEF finish_demo
<1>7. CASE reopen_demo
  <2>1. _reopen(demo) \in Walks
    BY <1>0, Steps DEF _reopen, Walks
  <2> QED
    BY <1>7, <2>1, ClickedSound DEF reopen_demo
<1>8. CASE \E step \in Step : walk(step)
  <2>1. PICK step \in Step : clicked([demo EXCEPT !.step = step])
    BY <1>8 DEF walk
  <2>2. [demo EXCEPT !.step = step] \in Walks
    BY <1>0 DEF Walks
  <2> QED
    BY <2>1, <2>2, ClickedSound
<1>9. CASE \E r \in Requirements, a \in Actions, why \in Rationales :
              record_simulated_review(r, a, why)
  BY <1>9, SimulatedSound
<1> QED
  BY <1>1, <1>2, <1>3, <1>4, <1>5, <1>6, <1>7, <1>8, <1>9 DEF DemoNext

LEMMA DemoInitially == DemoInit => DemoInv
<1> SUFFICES ASSUME DemoInit
             PROVE  DemoInv
  OBVIOUS
<1>1. demo = Started /\ sight = shows(Started) /\ Started.completion = None
  BY DEF DemoInit, Started
<1>2. build_demo(Started) \in DemoModels
  BY StartedType, Built
<1>3. shows(Started) \in Sights
  BY <1>2, StartedType DEF shows, Walks, Sights
<1>4. sight.completion = None
  BY <1>1 DEF shows
<1> QED
  BY <1>1, <1>3, <1>4, StartedType DEF DemoInv, DemoFinished

\* A page that says the review is completed offers a package of the evidence,
\* context and annotations as they stand, on New Assessment (as long as Evaluate is
\* not cut between its writes of the model and of the uploads) and in the guided
\* demo, whose button carries what an earlier run drew; for every scenario, file
\* and length of the ledger (upload_assessment_ui.py, guided_assessment_demo_ui.py).
THEOREM FinishedCurrent == UninterruptedSpec => []FinishedIsCurrent
<1> DEFINE Inv == UploadInv /\ Matched /\ DemoInv
<1>1. Init => Inv
  BY UploadInitially, MatchedInitially, DemoInitially DEF Init
<1>2. Inv /\ [Next /\ ~ Interrupted]_vars => Inv'
  <2>1. DemoInv /\ UNCHANGED demoVars => DemoInv'
    BY DEF demoVars, DemoInv, DemoFinished
  <2> QED
    BY <2>1, MatchedNext, DemoStep DEF Next, vars
<1>3. Inv => FinishedIsCurrent
  BY DEF UploadInv, PagesSettled, Later, Settled, UploadFinished, Matched, DemoInv, DemoFinished,
         FinishedIsCurrent
<1> QED
  BY <1>1, <1>2, <1>3, PTL DEF UninterruptedSpec

-----------------------------------------------------------------------------
(* The session as a whole *)

\* The browser session and what its pages last drew keep their types, for every
\* set of packages, files and scenarios and for ledgers of any length
\* (mfa_analyst_review.py, upload_assessment_ui.py, guided_assessment_demo_ui.py).
THEOREM TypeCorrect == Spec => []TypeOK
<1> DEFINE Inv == ReviewInv /\ UploadInv /\ DemoInv
<1>1. Init => Inv
  BY ReviewInitially, UploadInitially, DemoInitially DEF Init
<1>2. Inv /\ [Next]_vars => Inv'
  <2>1. ReviewInv /\ UNCHANGED reviewVars => ReviewInv'
    BY DEF reviewVars, ReviewInv, ReviewTypes, OnScreen, Kept, Key, state_key, Confirmable,
           reviewer
  <2>2. UploadInv /\ UNCHANGED uploadVars => UploadInv'
    BY DEF uploadVars, UploadInv, PagesSettled, UploadFinished
  <2>3. DemoInv /\ UNCHANGED demoVars => DemoInv'
    BY DEF demoVars, DemoInv, DemoFinished
  <2> QED
    BY <2>1, <2>2, <2>3, ReviewStep, UploadStep, DemoStep DEF Next, vars
<1>3. Inv => TypeOK
  <2> SUFFICES ASSUME Inv PROVE TypeOK
    OBVIOUS
  <2>1. /\ version \in Versions
        /\ DOMAIN saved = Keys
        /\ \A k \in Keys : saved[k] # Nil =>
              /\ saved[k].prefix[1] \in Cases /\ IsPackage(saved[k].prefix[2])
              /\ saved[k].review \in Reviews
        /\ shown.case \in Cases /\ IsPackage(shown.bundle) /\ shown.outcome \in Outcomes
        /\ stay \in Reviews
    BY BundleType DEF ReviewInv, ReviewTypes, SavedReviews
  <2>2. session \in Sessions /\ drawn \in Drawings
    BY DEF UploadInv, Sound
  <2>3. /\ DOMAIN session = DOMAIN Untouched
        /\ session.stage \in Stage /\ session.pending_stage \in Stage \cup {None}
        /\ session.model \in Declared \cup {None}
        /\ {session.uploads, session.metadata_edits} \subseteq Declared
        /\ session.pending_files \subseteq Files
        /\ session.actions # None => session.actions \in Seq(UploadEntries)
    BY <2>2 DEF Sessions, Untouched, UploadHistories
  <2>4. IsCompletion(session.completion, Declared, UploadEntries)
    BY <2>2 DEF Sessions, IsCompletion, UploadHistories
  <2>5. /\ demo.scenario \in Scenarios /\ demo.risk_profile \in Profiles
        /\ demo.step \in Step /\ demo.received \in BOOLEAN
        /\ demo.actions \in Seq(DemoEntries)
        /\ IsCompletion(demo.completion, DemoModels, DemoEntries)
        /\ sight.model \in DemoModels /\ sight.actions \in Seq(DemoEntries)
    BY DEF DemoInv, Walks, Sights, IsCompletion
  <2> QED
    BY <2>1, <2>2, <2>3, <2>4, <2>5 DEF TypeOK, Drawings
<1> QED
  BY <1>1, <1>2, <1>3, PTL DEF Spec
=============================================================================
