---------------------- MODULE ControlGovernance_proofs ----------------------
(***************************************************************************)
(* Proofs about ControlGovernance, for every set of users, controls,        *)
(* documents and old dispositions, and every bound.                         *)
(***************************************************************************)
EXTENDS ControlGovernance, TLAPS, SequenceTheorems, WellFoundedInduction

-----------------------------------------------------------------------------
(* The inductive invariant *)

\* Ids are drawn once, so the latest claim of a pair is one claim.
ClaimsInv ==
    /\ \A c \in claims : c.id < next_id /\ c.evidence \in DOMAIN evidence
    /\ \A c, o \in claims : c.id = o.id => c = o

\* A claim that is saved and not yet committed has an id of its own.
SavedInv ==
    \A u \in Users : run[u].stage = "Claim" =>
        /\ run[u].row.id < next_id
        /\ run[u].row.evidence \in DOMAIN evidence
        /\ \A c \in claims : c.id # run[u].row.id
        /\ \A v \in Users \ {u} : run[v].stage = "Claim" => run[v].row.id # run[u].row.id

Prefix(s, t) == Len(s) <= Len(t) /\ \A i \in 1 .. Len(s) : s[i] = t[i]

OnePerPair(S) ==
    \A c, o \in S : c.evidence = o.evidence /\ c.control = o.control => c = o

\* What a page has read was true once: rows are only ever added.
PagesInv ==
    \A u \in Users :
        /\ run[u].stage \in {"Reading", "Page"} => Prefix(run[u].evidence, evidence)
        /\ run[u].stage = "Page" => run[u].claims \subseteq claims /\ OnePerPair(run[u].claims)

Coherent(d) ==
    /\ d.basis # {} /\ d.basis \subseteq claims
    /\ \A c \in d.basis : c.control = d.control /\ c.evidence \in d.evidence
    /\ \A c, o \in d.basis : c.evidence = o.evidence => c = o

Proven(d) ==
    d.basis \subseteq d.page =>
        /\ d.recommended = "Satisfied" => \E c \in d.basis : proves_cleanly(c, d.day)
        /\ d.recommended = "Partially Satisfied" => \E c \in d.basis : proves(c, d.day)

Sound(d) == d.status # "UNSUPPORTED" /\ Coherent(d) /\ Proven(d)

\* The properties hold of a disposition from the moment it is saved.
RowsInv ==
    /\ \A u \in Users : run[u].stage = "Disposition" => Sound(run[u].row)
    /\ \A d \in dispositions :
        /\ from_page(d) => Sound(d)
        /\ d.verified => Coherent(d)

GInv == TypeOK /\ ClaimsInv /\ SavedInv /\ PagesInv /\ RowsInv

-----------------------------------------------------------------------------
(* Shapes *)

LEMMA RunShape ==
    ASSUME NEW r \in Runs
    PROVE  /\ r.stage = "Reading" => r.evidence \in Seq(Library)
           /\ r.stage = "Page" => /\ r.evidence \in Seq(Library)
                                  /\ r.claims \subseteq Claims
                                  /\ r.today \in Nat
           /\ r.stage = "Claim" => r.row \in Claims
           /\ r.stage = "Disposition" => r.row \in Recorded
           /\ r # Idle => r.stage \in {"Reading", "Page", "Claim", "Disposition"}
BY DEF Runs, Idle

LEMMA RowShape ==
    /\ \A d \in Recorded : from_page(d) /\ d.verified
    /\ \A d \in Historical : ~ from_page(d)
BY DEF Recorded, Historical, from_page

\* An answer that is not missing is one of two.
LEMMA CompleteFacts ==
    ASSUME NEW answers \in Facts, required_facts_known(answers)
    PROVE  answers \in [FactNames -> {"Yes", "No"}]
BY DEF Facts, Answers, required_facts_known

LEMMA CandidateShape ==
    ASSUME NEW document \in Documents,
           NEW candidate \in build_evidence_control_candidates(document)
    PROVE  candidate.control \in Controls /\ candidate.confident \in BOOLEAN
<1>1. candidate \in exception_candidates(document)
        \/ candidate \in document_mapping_candidates(document)
  BY DEF build_evidence_control_candidates
<1>2. /\ document.exceptions \subseteq Controls /\ document.controls \subseteq Controls
      /\ document.confident \in BOOLEAN
  BY DEF Documents
<1>3. CASE candidate \in exception_candidates(document)
  BY <1>2, <1>3 DEF exception_candidates
<1>4. CASE candidate \in document_mapping_candidates(document)
  <2>1. PICK c \in document.controls :
            candidate = [control |-> c, exception_present |-> "Not confirmed",
                         confident |-> document.confident]
    BY <1>4 DEF document_mapping_candidates
  <2> QED
    BY <1>2, <2>1
<1> QED
  BY <1>1, <1>3, <1>4

LEMMA SufficiencyShape ==
    ASSUME NEW S \in SUBSET Claims, NEW control, NEW rows, NEW day
    PROVE  LET r == evaluate_control_evidence(control, rows, S, day)
           IN  /\ r.status \in Statuses
               /\ r.supporting \subseteq Nat /\ r.review \subseteq Nat
               /\ recommend_disposition(r.status) \in Recommendations
<1> DEFINE r == evaluate_control_evidence(control, rows, S, day)
<1>1. r.status \in Statuses
  BY DEF evaluate_control_evidence, Statuses
<1>2. r.supporting \subseteq Nat /\ r.review \subseteq Nat
  BY DEF evaluate_control_evidence, evidence_of, Claims
<1>3. recommend_disposition(r.status) \in Recommendations
  BY DEF recommend_disposition, Recommendations
<1> QED
  BY <1>1, <1>2, <1>3

-----------------------------------------------------------------------------
(* The latest claims *)

LEMMA LatestUnique ==
    ASSUME TypeOK, ClaimsInv
    PROVE  OnePerPair(latest_claims)
<1> SUFFICES ASSUME NEW c \in latest_claims, NEW o \in latest_claims,
                    c.evidence = o.evidence, c.control = o.control
             PROVE  c = o
  BY DEF OnePerPair
<1>1. c \in claims /\ o \in claims /\ c.id <= o.id /\ o.id <= c.id
  BY DEF latest_claims
<1>2. c.id \in Nat /\ o.id \in Nat
  BY <1>1 DEF TypeOK, Claims
<1> QED
  BY <1>1, <1>2 DEF ClaimsInv

\* Every pair that has a claim has a latest one: ids are bounded.
LEMMA LatestExists ==
    ASSUME TypeOK, ClaimsInv, NEW c \in claims
    PROVE  \E m \in latest_claims : m.evidence = c.evidence /\ m.control = c.control
<1> DEFINE Same == {o \in claims : o.evidence = c.evidence /\ o.control = c.control}
           Room == {next_id - o.id : o \in Same}
<1>1. next_id \in Nat
  BY BoundsAssumption DEF TypeOK
<1>2. \A o \in claims : o.id \in Nat /\ o.id < next_id
  BY DEF TypeOK, Claims, ClaimsInv
<1>3. Room \subseteq Nat /\ Room # {}
  BY <1>1, <1>2
<1>4. IsWellFoundedOn(OpToRel(<, Nat), Nat)
  BY NatLessThanWellFounded
<1>5. PICK least \in Room : \A r \in Room : ~ (<<r, least>> \in OpToRel(<, Nat))
  BY <1>3, <1>4, WFMin
<1>6. PICK m \in Same : least = next_id - m.id
  OBVIOUS
<1>7. ASSUME NEW o \in Same PROVE o.id <= m.id
  <2>1. next_id - o.id \in Room
    OBVIOUS
  <2>2. ~ (next_id - o.id < least)
    BY <1>3, <1>5, <2>1 DEF OpToRel
  <2> QED
    BY <1>1, <1>2, <1>6, <2>2
<1>8. m \in latest_claims
  BY <1>6, <1>7 DEF latest_claims
<1> QED
  BY <1>6, <1>8

-----------------------------------------------------------------------------
(* What a page saves is sound *)

LEMMA UsableProves ==
    ASSUME NEW c \in Claims, NEW rows \in Seq(Library), NEW day \in Nat,
           Prefix(rows, evidence), evidence \in Seq(Library),
           usable(c, rows, day), ~ doubtful(c, rows, day)
    PROVE  /\ proves(c, day)
           /\ ~ limited(c, rows, day) => proves_cleanly(c, day)
<1>1. c.evidence \in DOMAIN rows /\ evidence[c.evidence] = rows[c.evidence]
  BY DEF usable, Prefix
<1>2. rows[c.evidence] \in Documents
  BY <1>1, LibraryAssumption
<1>3. rows[c.evidence].expires \subseteq Nat
  BY <1>2 DEF Documents
<1>4. /\ c.facts.covered = "Yes" /\ c.facts.tested = "Yes"
      /\ c.facts.scope_matches = "Yes" /\ c.facts.service_matches = "Yes"
      /\ c.facts.exception_present \in {"Yes", "No"}
      /\ c.confident
  <2>1. c.facts \in [FactNames -> {"Yes", "No"}]
    BY DEF Claims
  <2>2. /\ c.facts["tested"] # "No" /\ c.facts["scope_matches"] # "No"
        /\ c.facts["service_matches"] # "No" /\ c.confident
    BY DEF doubtful
  <2> QED
    BY <2>1, <2>2 DEF usable, FactNames
<1>5. \A last \in rows[c.evidence].expires : day <= last
  BY <1>3 DEF usable, is_expired
<1>6. proves(c, day)
  BY <1>1, <1>4, <1>5 DEF proves
<1>7. ASSUME ~ limited(c, rows, day) PROVE proves_cleanly(c, day)
  <2>1. \A last \in rows[c.evidence].expires : day + ExpiryWindow < last
    BY <1>3, <1>5, <1>7, ExpiryWindowAssumption DEF limited, is_expiring_soon
  <2> QED
    BY <1>1, <1>4, <1>6, <1>7, <2>1 DEF limited, proves_cleanly
<1> QED
  BY <1>6, <1>7

LEMMA SavedIsSound ==
    ASSUME GInv, NEW u \in Users, run[u].stage = "Page",
           NEW control \in Controls, NEW final \in Choices,
           save_control_disposition(u, control, final)
    PROVE  run'[u].stage = "Disposition" /\ run'[u].row \in Recorded /\ Sound(run'[u].row)
<1> DEFINE page  == run[u]
           found == sufficiency(page, control)
           ids   == found.supporting \cup found.review
           basis == matching_claims(control, ids)
           row   == [id |-> next_id, control |-> control, status |-> found.status,
                     recommended |-> recommend_disposition(found.status),
                     final |-> final, evidence |-> ids, verified |-> TRUE,
                     mode |-> "CLAIM", basis |-> basis,
                     page |-> page.claims, day |-> page.today]
<1>1. /\ page \in Runs /\ page.evidence \in Seq(Library)
      /\ page.claims \in SUBSET Claims /\ page.today \in Nat
  BY RunShape DEF GInv, TypeOK
<1>2. /\ Prefix(page.evidence, evidence) /\ page.claims \subseteq claims
      /\ OnePerPair(page.claims)
  BY DEF GInv, PagesInv
<1>3. run'[u] = [stage |-> "Disposition", row |-> row] /\ basis # {}
  BY DEF save_control_disposition, GInv, TypeOK
<1>4. found = evaluate_control_evidence(control, page.evidence, page.claims, page.today)
  BY DEF sufficiency
<1>5. /\ found.status \in Statuses /\ found.supporting \subseteq Nat
      /\ found.review \subseteq Nat
      /\ recommend_disposition(found.status) \in Recommendations
  BY <1>1, <1>4, SufficiencyShape
<1>6. basis \subseteq latest_claims /\ latest_claims \subseteq claims /\ claims \subseteq Claims
  BY DEF matching_claims, latest_claims, GInv, TypeOK
<1> DEFINE own       == {c \in page.claims : c.control = control}
           review    == {c \in own : doubtful(c, page.evidence, page.today)}
           sound     == {c \in own \ review : usable(c, page.evidence, page.today)}
           partial   == {c \in sound : limited(c, page.evidence, page.today)}
           supported == sound \ partial
<1>7. /\ found.status = IF supported # {} THEN "SUPPORTED"
                        ELSE IF partial # {} THEN "PARTIAL"
                        ELSE IF review # {} THEN "REVIEW" ELSE "UNSUPPORTED"
      /\ found.supporting = evidence_of(IF supported # {} THEN supported ELSE partial)
      /\ found.review = evidence_of(review)
  BY <1>4 DEF evaluate_control_evidence
<1>8. row \in Recorded
  <2> HIDE DEF found, basis, page
  <2>1. next_id \in Nat /\ ids \subseteq Nat /\ basis \subseteq Claims
    BY <1>5, <1>6, BoundsAssumption DEF GInv, TypeOK
  <2>2. final \in FINAL_DISPOSITIONS
    BY ChoicesAssumption
  <2> HIDE DEF ids
  <2> QED
    BY <1>1, <1>5, <2>1, <2>2 DEF Recorded
<1>9. found.status # "UNSUPPORTED"
  <2> SUFFICES ASSUME found.status = "UNSUPPORTED" PROVE FALSE
    OBVIOUS
  <2>1. supported = {} /\ partial = {} /\ review = {}
    BY <1>7
  <2>2. ids = {}
    BY <1>7, <2>1 DEF evidence_of
  <2> QED
    BY <1>3, <2>2 DEF matching_claims
<1>10. Coherent(row)
  <2>1. \A c \in basis : c.control = control /\ c.evidence \in ids
    BY DEF matching_claims
  <2>2. \A c, o \in basis : c.evidence = o.evidence => c = o
    BY <1>6, <2>1, LatestUnique DEF OnePerPair, GInv
  <2> HIDE DEF basis, ids, found, page
  <2> QED
    BY <1>3, <1>6, <2>1, <2>2 DEF Coherent
\* A claim the page counted is still the latest of its pair when the basis has
\* nothing newer than the page.
<1>11. ASSUME basis \subseteq page.claims, NEW c \in page.claims,
              c.control = control, c.evidence \in ids
       PROVE  c \in basis
  <2>1. PICK m \in latest_claims : m.evidence = c.evidence /\ m.control = c.control
    BY <1>2, LatestExists DEF GInv
  <2>2. m \in basis
    BY <1>11, <2>1 DEF matching_claims
  <2> QED
    BY <1>2, <1>11, <2>1, <2>2 DEF OnePerPair
<1>12. Proven(row)
  <2> SUFFICES ASSUME basis \subseteq page.claims
               PROVE  /\ recommend_disposition(found.status) = "Satisfied"
                           => \E c \in basis : proves_cleanly(c, page.today)
                      /\ recommend_disposition(found.status) = "Partially Satisfied"
                           => \E c \in basis : proves(c, page.today)
    BY DEF Proven
  <2>1. ASSUME supported # {} PROVE \E c \in basis : proves_cleanly(c, page.today)
    <3>1. PICK c \in supported : TRUE
      BY <2>1
    <3>2. c.evidence \in ids
      BY <1>7, <2>1 DEF evidence_of
    <3>3. c \in basis
      BY <1>11, <3>2
    <3>4. proves_cleanly(c, page.today)
      BY <1>1, <1>2, UsableProves DEF GInv, TypeOK
    <3> QED
      BY <3>3, <3>4
  <2>2. ASSUME supported = {}, partial # {} PROVE \E c \in basis : proves(c, page.today)
    <3>1. PICK c \in partial : TRUE
      BY <2>2
    <3>2. c.evidence \in ids
      BY <1>7, <2>2 DEF evidence_of
    <3>3. c \in basis
      BY <1>11, <3>2
    <3>4. proves(c, page.today)
      BY <1>1, <1>2, UsableProves DEF GInv, TypeOK
    <3> QED
      BY <3>3, <3>4
  <2>3. recommend_disposition(found.status) = "Satisfied" => found.status = "SUPPORTED"
    BY DEF recommend_disposition
  <2>4. recommend_disposition(found.status) = "Partially Satisfied" => found.status = "PARTIAL"
    BY DEF recommend_disposition
  <2> QED
    BY <1>7, <2>1, <2>2, <2>3, <2>4
<1> QED
  BY <1>3, <1>8, <1>9, <1>10, <1>12 DEF Sound

-----------------------------------------------------------------------------
(* Rows are only added *)

LEMMA PrefixOfItself == \A s \in Seq(Library) : Prefix(s, s)
BY DEF Prefix

LEMMA PrefixGrows ==
    ASSUME NEW s \in Seq(Library), NEW t \in Seq(Library), NEW x \in Library, Prefix(s, t)
    PROVE  /\ Prefix(s, Append(t, x)) /\ Append(t, x) \in Seq(Library)
           /\ DOMAIN t \subseteq DOMAIN Append(t, x)
           /\ \A i \in DOMAIN t : Append(t, x)[i] = t[i]
BY DEF Prefix

\* A row stays sound when claims and evidence are added.
LEMMA SoundStays ==
    ASSUME ClaimsInv, claims \subseteq claims',
           \A i \in DOMAIN evidence : evidence'[i] = evidence[i], NEW d
    PROVE  /\ Coherent(d) => Coherent(d)'
           /\ Sound(d) => Sound(d)'
<1>1. Coherent(d) => Coherent(d)'
  BY DEF Coherent
<1>2. ASSUME NEW c \in claims, NEW day
      PROVE  /\ proves(c, day) => proves(c, day)'
             /\ proves_cleanly(c, day) => proves_cleanly(c, day)'
  <2>1. evidence'[c.evidence] = evidence[c.evidence]
    BY DEF ClaimsInv
  <2> QED
    BY <2>1 DEF proves, proves_cleanly
<1>3. ASSUME Coherent(d), Proven(d) PROVE Proven(d)'
  <2> SUFFICES ASSUME d.basis \subseteq d.page PROVE Proven(d)'
    BY DEF Proven
  <2>1. d.basis \subseteq claims
    BY <1>3 DEF Coherent
  <2> QED
    BY <1>2, <1>3, <2>1 DEF Proven
<1> QED
  BY <1>1, <1>3 DEF Sound

-----------------------------------------------------------------------------
(* Every step *)

LEMMA InitInv == Init => GInv
<1> SUFFICES ASSUME Init PROVE GInv
  OBVIOUS
<1>1. \A u \in Users : run[u] = Idle
  BY DEF Init
<1>2. dispositions \subseteq Historical
  <2>1. \A d \in Legacy : d.control \in Controls /\ d.evidence \subseteq Nat
    BY LegacyAssumption, InitialEvidenceAssumption
  <2>2. ASSUME NEW d \in Legacy
        PROVE  [control |-> d.control, evidence |-> d.evidence, verified |-> FALSE,
                mode |-> "LEGACY_UNVERIFIED", basis |-> {}] \in Historical
    BY <2>1 DEF Historical
  <2> QED
    BY <2>2 DEF Init
<1>3. TypeOK
  BY <1>2, InitialEvidenceAssumption, BoundsAssumption DEF Init, TypeOK, Runs
<1>4. ClaimsInv /\ SavedInv /\ PagesInv
  BY <1>1 DEF Init, ClaimsInv, SavedInv, PagesInv, Idle
<1>5. RowsInv
  <2>1. \A d \in dispositions : ~ d.verified
    BY DEF Init
  <2> QED
    BY <1>1, <1>2, <2>1, RowShape DEF RowsInv, Idle
<1> QED
  BY <1>3, <1>4, <1>5 DEF GInv

\* A run that moves without touching the tables.
LEMMA RunMoves ==
    ASSUME GInv, NEW u \in Users, NEW r \in Runs, run' = [run EXCEPT ![u] = r],
           r.stage \in {"Idle", "Reading", "Page"},
           r.stage \in {"Reading", "Page"} => Prefix(r.evidence, evidence),
           r.stage = "Page" => r.claims \subseteq claims /\ OnePerPair(r.claims),
           UNCHANGED <<evidence, claims, dispositions, next_id, today>>
    PROVE  GInv'
<1>1. run' \in [Users -> Runs] /\ run'[u] = r /\ \A v \in Users \ {u} : run'[v] = run[v]
  BY DEF GInv, TypeOK
<1>2. TypeOK'
  BY <1>1 DEF GInv, TypeOK
<1>3. ClaimsInv'
  BY DEF GInv, ClaimsInv
<1>4. SavedInv'
  BY <1>1 DEF GInv, SavedInv
<1>5. PagesInv'
  BY <1>1 DEF GInv, PagesInv, Prefix
<1>6. \A d : (Sound(d) => Sound(d)') /\ (Coherent(d) => Coherent(d)')
  BY SoundStays DEF GInv
<1>7. RowsInv'
  BY <1>1, <1>6 DEF GInv, RowsInv
<1> QED
  BY <1>2, <1>3, <1>4, <1>5, <1>7 DEF GInv

LEMMA StartInv ==
    ASSUME GInv, NEW u \in Users, start_run(u)
    PROVE  GInv'
<1> DEFINE r == [stage |-> "Reading", evidence |-> evidence]
<1>1. r \in Runs
  BY DEF Runs, GInv, TypeOK
<1>2. Prefix(evidence, evidence)
  BY PrefixOfItself DEF GInv, TypeOK
<1>3. run' = [run EXCEPT ![u] = r]
  BY DEF start_run
<1> QED
  BY <1>1, <1>2, <1>3, RunMoves DEF start_run

LEMMA LoadInv ==
    ASSUME GInv, NEW u \in Users, load_accepted_control_claims(u)
    PROVE  GInv'
<1> DEFINE r == [stage |-> "Page", evidence |-> run[u].evidence,
                 claims |-> latest_claims, today |-> today]
<1>1. run[u].evidence \in Seq(Library) /\ Prefix(run[u].evidence, evidence)
  BY RunShape DEF load_accepted_control_claims, GInv, TypeOK, PagesInv
<1>2. latest_claims \subseteq claims /\ OnePerPair(latest_claims)
  BY LatestUnique DEF latest_claims, GInv
<1>3. r \in Runs
  BY <1>1, <1>2, BoundsAssumption DEF Runs, GInv, TypeOK
<1>4. run' = [run EXCEPT ![u] = r]
  BY DEF load_accepted_control_claims
<1> QED
  BY <1>1, <1>2, <1>3, <1>4, RunMoves DEF load_accepted_control_claims

LEMMA EndInv ==
    ASSUME GInv, NEW u \in Users, end_run(u)
    PROVE  GInv'
<1>1. Idle \in Runs /\ Idle.stage = "Idle"
  BY DEF Runs, Idle
<1> QED
  BY <1>1, RunMoves DEF end_run

\* A claim is saved with an id nobody else has.
LEMMA ConfirmInv ==
    ASSUME GInv, NEW u \in Users, confirm_claim(u)
    PROVE  GInv'
<1>0. PICK e \in DOMAIN run[u].evidence :
        \E candidate \in candidates(run[u], e), answers \in Confirmations :
            save_control_claim(u, e, candidate, answers)
  BY DEF confirm_claim
<1>1. PICK candidate \in candidates(run[u], e), answers \in Confirmations :
        save_control_claim(u, e, candidate, answers)
  BY <1>0
<1> DEFINE row == [id |-> next_id, evidence |-> e, control |-> candidate.control,
                   facts |-> answers, confident |-> candidate.confident,
                   confirmed_by |-> u]
           r == [stage |-> "Claim", row |-> row]
<1>2. run[u].evidence \in Seq(Library) /\ Prefix(run[u].evidence, evidence)
  BY RunShape DEF confirm_claim, GInv, TypeOK, PagesInv
<1>3. e \in DOMAIN evidence /\ e \in Nat /\ run[u].evidence[e] \in Documents
  BY <1>2, LibraryAssumption DEF Prefix, GInv, TypeOK
<1>4. candidate.control \in Controls /\ candidate.confident \in BOOLEAN
  BY <1>3, CandidateShape DEF candidates
<1>5. answers \in [FactNames -> {"Yes", "No"}]
  BY <1>1, ConfirmationsAssumption, CompleteFacts DEF save_control_claim
<1>6. next_id \in Nat /\ next_id' = next_id + 1 /\ next_id <= MaxRows
  BY <1>1, BoundsAssumption DEF save_control_claim, GInv, TypeOK
<1>7. row \in Claims
  BY <1>3, <1>4, <1>5, <1>6 DEF Claims
<1>8. r \in Runs
  BY <1>7 DEF Runs
<1>9. run' \in [Users -> Runs] /\ run'[u] = r /\ \A v \in Users \ {u} : run'[v] = run[v]
  BY <1>1, <1>8 DEF save_control_claim, GInv, TypeOK
<1>10. UNCHANGED <<evidence, claims, dispositions, today>>
  BY <1>1 DEF save_control_claim
<1>11. \A c \in claims : c.id \in Nat /\ c.id < next_id
  BY DEF GInv, TypeOK, Claims, ClaimsInv
<1>12. \A v \in Users : run[v].stage = "Claim"
          => run[v].row.id \in Nat /\ run[v].row.id < next_id
  BY RunShape DEF GInv, TypeOK, SavedInv, Claims
<1>13. TypeOK'
  BY <1>6, <1>9, <1>10, BoundsAssumption DEF GInv, TypeOK
<1>14. ClaimsInv'
  BY <1>6, <1>10, <1>11 DEF GInv, ClaimsInv
<1>15. SavedInv'
  <2>1. row.id = next_id /\ row.evidence = e
    OBVIOUS
  <2> HIDE DEF row
  <2> QED
    BY <2>1, <1>3, <1>6, <1>9, <1>10, <1>11, <1>12 DEF GInv, SavedInv
<1>16. PagesInv'
  BY <1>9, <1>10 DEF GInv, PagesInv, Prefix
<1>17. \A d : (Sound(d) => Sound(d)') /\ (Coherent(d) => Coherent(d)')
  BY <1>10, SoundStays DEF GInv
<1>18. RowsInv'
  BY <1>9, <1>10, <1>17 DEF GInv, RowsInv
<1> QED
  BY <1>13, <1>14, <1>15, <1>16, <1>18 DEF GInv

LEMMA RecordInv ==
    ASSUME GInv, NEW u \in Users, record_disposition(u)
    PROVE  GInv'
<1>1. PICK control \in Controls, final \in Choices :
        save_control_disposition(u, control, final)
  BY DEF record_disposition
<1>2. /\ run'[u].stage = "Disposition" /\ run'[u].row \in Recorded /\ Sound(run'[u].row)
  BY <1>1, SavedIsSound DEF record_disposition
<1>3. /\ run'[u] \in Runs
      /\ run' \in [Users -> Runs] /\ \A v \in Users \ {u} : run'[v] = run[v]
  <2>1. PICK row : run' = [run EXCEPT ![u] = [stage |-> "Disposition", row |-> row]]
    BY <1>1 DEF save_control_disposition
  <2>2. run'[u] = [stage |-> "Disposition", row |-> row]
    BY <2>1 DEF GInv, TypeOK
  <2>3. row \in Recorded
    BY <1>2, <2>2
  <2>4. [stage |-> "Disposition", row |-> row] \in Runs
    BY <2>3 DEF Runs
  <2> QED
    BY <2>1, <2>2, <2>4 DEF GInv, TypeOK
<1>4. /\ next_id \in Nat /\ next_id' = next_id + 1 /\ next_id <= MaxRows
      /\ UNCHANGED <<evidence, claims, dispositions, today>>
  BY <1>1, BoundsAssumption DEF save_control_disposition, GInv, TypeOK
<1>5. \A c \in claims : c.id \in Nat /\ c.id < next_id
  BY DEF GInv, TypeOK, Claims, ClaimsInv
<1>6. \A v \in Users : run[v].stage = "Claim"
          => run[v].row.id \in Nat /\ run[v].row.id < next_id
  BY RunShape DEF GInv, TypeOK, SavedInv, Claims
<1>7. TypeOK'
  BY <1>3, <1>4, BoundsAssumption DEF GInv, TypeOK
<1>8. ClaimsInv'
  BY <1>4, <1>5 DEF GInv, ClaimsInv
<1>9. SavedInv'
  BY <1>2, <1>3, <1>4, <1>6 DEF GInv, SavedInv
<1>10. PagesInv'
  BY <1>2, <1>3, <1>4 DEF GInv, PagesInv, Prefix
<1>11. \A d : (Sound(d) => Sound(d)') /\ (Coherent(d) => Coherent(d)')
  BY <1>4, SoundStays DEF GInv
<1>12. RowsInv'
  <2>1. PICK row : row = run'[u].row /\ Sound(row)
    BY <1>2
  <2>2. Sound(row)'
    BY <1>11, <2>1
  <2>3. ASSUME NEW v \in Users, run'[v].stage = "Disposition"
        PROVE  Sound(run[v].row)'
    BY <1>3, <1>11, <2>1, <2>2, <2>3 DEF GInv, RowsInv
  <2> QED
    BY <1>4, <1>11, <2>3 DEF GInv, RowsInv
<1> QED
  BY <1>7, <1>8, <1>9, <1>10, <1>12 DEF GInv

LEMMA CommitInv ==
    ASSUME GInv, NEW u \in Users, commit(u)
    PROVE  GInv'
<1>1. Idle \in Runs /\ Idle.stage = "Idle"
  BY DEF Runs, Idle
<1>2. /\ run' \in [Users -> Runs] /\ run'[u] = Idle
      /\ \A v \in Users \ {u} : run'[v] = run[v]
  BY <1>1 DEF commit, GInv, TypeOK
<1>3. UNCHANGED <<evidence, next_id, today>>
  BY DEF commit
<1>4. claims \subseteq claims'
  BY DEF commit
<1>5. \A d : (Sound(d) => Sound(d)') /\ (Coherent(d) => Coherent(d)')
  BY <1>3, <1>4, SoundStays DEF GInv
<1>6. PagesInv'
  BY <1>1, <1>2, <1>3, <1>4 DEF GInv, PagesInv, Prefix
<1>7. CASE run[u].stage = "Claim"
  <2>1. run[u].row \in Claims /\ claims' = claims \cup {run[u].row} /\ UNCHANGED dispositions
    BY <1>7, RunShape DEF commit, GInv, TypeOK
  <2>2. TypeOK'
    BY <1>2, <1>3, <2>1 DEF GInv, TypeOK
  <2>3. ClaimsInv'
    BY <1>3, <1>7, <2>1 DEF GInv, ClaimsInv, SavedInv
  <2>4. SavedInv'
    BY <1>1, <1>2, <1>3, <1>7, <2>1 DEF GInv, SavedInv
  <2>5. RowsInv'
    BY <1>1, <1>2, <1>5, <2>1 DEF GInv, RowsInv
  <2> QED
    BY <1>6, <2>2, <2>3, <2>4, <2>5 DEF GInv
<1>8. CASE run[u].stage = "Disposition"
  <2>1. /\ run[u].row \in Recorded /\ dispositions' = dispositions \cup {run[u].row}
        /\ UNCHANGED claims
    BY <1>8, RunShape DEF commit, GInv, TypeOK
  <2>2. TypeOK'
    BY <1>2, <1>3, <2>1 DEF GInv, TypeOK
  <2>3. ClaimsInv'
    BY <1>3, <2>1 DEF GInv, ClaimsInv
  <2>4. SavedInv'
    BY <1>1, <1>2, <1>3, <2>1 DEF GInv, SavedInv
  <2>5. \A v \in Users : run'[v].stage = "Disposition" => Sound(run[v].row)'
    BY <1>1, <1>2, <1>5 DEF GInv, RowsInv
  <2>6. \A d \in dispositions' : (from_page(d) => Sound(d)') /\ (d.verified => Coherent(d)')
    <3>1. Sound(run[u].row) /\ Coherent(run[u].row)
      BY <1>8 DEF GInv, RowsInv, Sound
    <3> QED
      BY <1>5, <2>1, <3>1 DEF GInv, RowsInv
  <2>7. RowsInv'
    BY <2>5, <2>6 DEF RowsInv, from_page
  <2> QED
    BY <1>6, <2>2, <2>3, <2>4, <2>7 DEF GInv
<1> QED
  BY <1>7, <1>8 DEF commit

LEMMA RegisterInv ==
    ASSUME GInv, NEW u \in Users, NEW document \in Library, register_evidence(u, document)
    PROVE  GInv'
<1>1. evidence \in Seq(Library) /\ evidence' = Append(evidence, document)
        /\ UNCHANGED <<claims, dispositions, next_id, today, run>>
  BY DEF register_evidence, GInv, TypeOK
<1>2. /\ evidence' \in Seq(Library) /\ DOMAIN evidence \subseteq DOMAIN evidence'
      /\ \A i \in DOMAIN evidence : evidence'[i] = evidence[i]
  BY <1>1, PrefixOfItself, PrefixGrows
<1>3. TypeOK'
  BY <1>1, <1>2, BoundsAssumption DEF register_evidence, GInv, TypeOK
<1>4. ClaimsInv' /\ SavedInv'
  BY <1>1, <1>2 DEF GInv, ClaimsInv, SavedInv
<1>5. PagesInv'
  <2>1. ASSUME NEW v \in Users, run[v].stage \in {"Reading", "Page"}
        PROVE  Prefix(run[v].evidence, evidence')
    BY <1>1, <2>1, PrefixGrows, RunShape DEF GInv, TypeOK, PagesInv
  <2>2. \A v \in Users : run[v].stage \in {"Reading", "Page"}
            => Prefix(run[v].evidence, evidence)'
    BY <1>1, <2>1 DEF Prefix
  <2> QED
    BY <1>1, <2>2 DEF GInv, PagesInv
<1>6. \A d : (Sound(d) => Sound(d)') /\ (Coherent(d) => Coherent(d)')
  BY <1>1, <1>2, SoundStays DEF GInv
<1>7. RowsInv'
  BY <1>1, <1>6 DEF GInv, RowsInv
<1> QED
  BY <1>3, <1>4, <1>5, <1>7 DEF GInv

\* The backfill gives a row the current claims of its own evidence, or nothing.
LEMMA BackfilledRow ==
    ASSUME GInv, NEW d \in dispositions
    PROVE  /\ backfilled(d) \in Recorded \cup Historical
           /\ d.verified => backfilled(d) = d
           /\ from_page(backfilled(d)) => Sound(backfilled(d))
           /\ backfilled(d).verified => Coherent(backfilled(d))
<1>1. d \in Recorded \cup Historical
  BY DEF GInv, TypeOK
<1>2. CASE d.verified
  BY <1>1, <1>2 DEF backfilled, GInv, RowsInv
<1>3. CASE ~ d.verified
  <2> DEFINE basis == matching_claims(d.control, d.evidence)
             unbacked == [d EXCEPT !.mode = "LEGACY_UNVERIFIED"]
             backed == [d EXCEPT !.verified = TRUE, !.mode = "CLAIM", !.basis = basis]
  <2>1. d \in Historical
    BY <1>1, <1>3, RowShape
  <2>2. basis \subseteq latest_claims /\ latest_claims \subseteq claims /\ claims \subseteq Claims
    BY DEF matching_claims, latest_claims, GInv, TypeOK
  <2>3. backfilled(d) = IF basis = {} THEN unbacked ELSE backed
    BY <1>3 DEF backfilled
  <2>4. unbacked \in Historical /\ unbacked.verified = FALSE
    BY <1>3, <2>1 DEF Historical
  <2>5. backed \in Historical
    BY <2>1, <2>2 DEF Historical
  <2>6. backed.basis = basis /\ backed.control = d.control /\ backed.evidence = d.evidence
    BY <2>1 DEF Historical
  <2>7. basis # {} => Coherent(backed)
    <3>1. \A c \in basis : c.control = d.control /\ c.evidence \in d.evidence
      BY DEF matching_claims
    <3>2. \A c, o \in basis : c.evidence = o.evidence => c = o
      BY <2>2, <3>1, LatestUnique DEF OnePerPair, GInv
    <3> HIDE DEF basis, backed
    <3> QED
      BY <2>2, <2>6, <3>1, <3>2 DEF Coherent
  <2> HIDE DEF unbacked, backed
  <2> QED
    BY <1>3, <2>3, <2>4, <2>5, <2>7, RowShape
<1> QED
  BY <1>2, <1>3

LEMMA BackfillInv ==
    ASSUME GInv, backfill_control_disposition_bases
    PROVE  GInv'
<1>1. /\ dispositions' = {backfilled(d) : d \in dispositions}
      /\ UNCHANGED <<evidence, claims, next_id, today, run>>
  BY DEF backfill_control_disposition_bases
<1>2. \A b \in dispositions' : \E d \in dispositions : b = backfilled(d)
  BY <1>1
<1>3. TypeOK'
  BY <1>1, <1>2, BackfilledRow DEF GInv, TypeOK
<1>4. ClaimsInv' /\ SavedInv' /\ PagesInv'
  BY <1>1 DEF GInv, ClaimsInv, SavedInv, PagesInv, Prefix
<1>5. \A d : (Sound(d) => Sound(d)') /\ (Coherent(d) => Coherent(d)')
  BY <1>1, SoundStays DEF GInv
<1>6. \A b \in dispositions' : (from_page(b) => Sound(b)) /\ (b.verified => Coherent(b))
  BY <1>2, BackfilledRow
<1>7. RowsInv'
  BY <1>1, <1>5, <1>6 DEF GInv, RowsInv, from_page
<1> QED
  BY <1>3, <1>4, <1>7 DEF GInv

LEMMA DayInv ==
    ASSUME GInv, advance_day
    PROVE  GInv'
<1>1. UNCHANGED <<evidence, claims, dispositions, next_id, run>>
  BY DEF advance_day
<1>2. TypeOK'
  BY <1>1, BoundsAssumption DEF advance_day, GInv, TypeOK
<1>3. \A d : (Sound(d) => Sound(d)') /\ (Coherent(d) => Coherent(d)')
  BY <1>1, SoundStays DEF GInv
<1>4. RowsInv'
  BY <1>1, <1>3 DEF GInv, RowsInv
<1> QED
  BY <1>1, <1>2, <1>4 DEF GInv, ClaimsInv, SavedInv, PagesInv, Prefix

LEMMA StutterInv ==
    ASSUME GInv, UNCHANGED vars
    PROVE  GInv'
<1>1. UNCHANGED <<evidence, claims, dispositions, next_id, today, run>>
  BY DEF vars
<1>2. \A d : (Sound(d) => Sound(d)') /\ (Coherent(d) => Coherent(d)')
  BY <1>1, SoundStays DEF GInv
<1>3. RowsInv'
  BY <1>1, <1>2 DEF GInv, RowsInv
<1> QED
  BY <1>1, <1>3 DEF GInv, TypeOK, ClaimsInv, SavedInv, PagesInv, Prefix

-----------------------------------------------------------------------------
(* Theorems *)

\* GInv is an invariant of Spec: every table, page and saved row keeps what the
\* properties rest on, whatever interleaves.
THEOREM InductiveInvariant == Spec => []GInv
<1>1. Init => GInv
  BY InitInv
<1>2. GInv /\ [Next]_vars => GInv'
  BY StartInv, LoadInv, ConfirmInv, RecordInv, CommitInv, EndInv, RegisterInv,
     BackfillInv, DayInv, StutterInv DEF Next
<1> QED
  BY <1>1, <1>2, PTL DEF Spec

\* Every variable keeps its type; the facts of a stored claim are all answered.
THEOREM TypeCorrect == Spec => []TypeOK
<1>1. GInv => TypeOK
  BY DEF GInv
<1> QED
  BY <1>1, InductiveInvariant, PTL

\* The recommendation a disposition is recorded with is proven by the claims it
\* cites, unless one of them is newer than the page.
THEOREM RecommendationProven == Spec => []RecommendationIsProven
<1>1. GInv => RecommendationIsProven
  BY DEF GInv, RowsInv, Sound, Proven, RecommendationIsProven
<1> QED
  BY <1>1, InductiveInvariant, PTL

\* Nothing is recorded for a control whose claims support nothing.
THEOREM UnsupportedNotDecided == Spec => []UnsupportedIsNotDecided
<1>1. GInv => UnsupportedIsNotDecided
  BY DEF GInv, RowsInv, Sound, UnsupportedIsNotDecided
<1> QED
  BY <1>1, InductiveInvariant, PTL

\* A verified disposition rests on one claim for each piece of its evidence.
THEOREM BasisCoherent == Spec => []BasisIsCoherent
<1>1. GInv => BasisIsCoherent
  BY DEF GInv, RowsInv, Coherent, BasisIsCoherent
<1> QED
  BY <1>1, InductiveInvariant, PTL

\* A verified disposition is never changed or lost.
THEOREM VerifiedStays == Spec => VerifiedIsFinal
<1>1. GInv /\ [Next]_vars => \A d \in dispositions : d.verified => d \in dispositions'
  <2> SUFFICES ASSUME GInv, [Next]_vars, NEW d \in dispositions, d.verified
               PROVE  d \in dispositions'
    OBVIOUS
  <2>1. CASE backfill_control_disposition_bases
    <3>1. backfilled(d) = d
      BY BackfilledRow
    <3> QED
      BY <2>1, <3>1 DEF backfill_control_disposition_bases
  <2>2. CASE \E u \in Users : commit(u)
    BY <2>2 DEF commit
  <2>3. CASE UNCHANGED dispositions
    BY <2>3
  <2> QED
    BY <2>1, <2>2, <2>3 DEF Next, vars, start_run, load_accepted_control_claims,
       confirm_claim, save_control_claim, record_disposition, save_control_disposition,
       end_run, register_evidence, advance_day
<1>2. GInv /\ [Next]_vars
        => [\A d \in dispositions : d.verified => d \in dispositions']_vars
  BY <1>1
<1> QED
  BY <1>2, InductiveInvariant, PTL DEF Spec, VerifiedIsFinal
=============================================================================
