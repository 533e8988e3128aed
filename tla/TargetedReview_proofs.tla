----------------------- MODULE TargetedReview_proofs -----------------------
(***************************************************************************)
(* Proofs about TargetedReview, for any tabs, role, events, documents and     *)
(* bounds.                                                                 *)
(***************************************************************************)
EXTENDS TargetedReview, TLAPS

-----------------------------------------------------------------------------
(* Sequences that grow or change in one place *)

LEMMA AppendFacts ==
    ASSUME NEW S, NEW s \in Seq(S), NEW x \in S
    PROVE  /\ Append(s, x) \in Seq(S)
           /\ Len(Append(s, x)) = Len(s) + 1
           /\ DOMAIN Append(s, x) = DOMAIN s \cup {Len(s) + 1}
           /\ \A i \in DOMAIN s : Append(s, x)[i] = s[i]
           /\ Append(s, x)[Len(s) + 1] = x
           /\ Len(s) \in Nat /\ DOMAIN s = 1 .. Len(s)
OBVIOUS

LEMMA ExceptFacts ==
    ASSUME NEW S, NEW s \in Seq(S), NEW i \in DOMAIN s, NEW x \in S
    PROVE  /\ [s EXCEPT ![i] = x] \in Seq(S)
           /\ DOMAIN [s EXCEPT ![i] = x] = DOMAIN s
OBVIOUS

-----------------------------------------------------------------------------
(* What the policies return *)

\* Whatever is recorded for an event, the recommendation is one of the actions
\* or none, in one of the domains.
LEMMA RecommendationType ==
    ASSUME NEW event \in Events, NEW v \in Vendors
    PROVE  /\ evaluate_material_change(event, v).action \in AnalystActions \cup {"No Action"}
           /\ evaluate_material_change(event, v).domain \in Domains
<1>1. event.type \in EventTypes /\ event.severity \in 1..4
  BY DEF Events
<1>2. v.ai_enabled \in BOOLEAN
  BY DEF Vendors
<1>3. CASE event.type = "Expired assurance evidence"
  BY <1>3 DEF evaluate_material_change, AnalystActions, Domains
<1>4. CASE event.type \in Incidents
  BY <1>1, <1>4 DEF evaluate_material_change, AnalystActions, Domains, Incidents
<1>5. CASE event.type = "Material vendor change"
  BY <1>2, <1>5 DEF evaluate_material_change, AnalystActions, Domains, Incidents
<1>6. CASE event.type = "Security rating deterioration"
  BY <1>6 DEF evaluate_material_change, AnalystActions, Domains, Incidents
<1> QED
  BY <1>1, <1>3, <1>4, <1>5, <1>6 DEF EventTypes

LEMMA ScopeType ==
    ASSUME NEW domain \in Domains
    PROVE  build_targeted_review_scope(domain) \in Scopes
BY DEF Domains, build_targeted_review_scope, Scopes, Requirements, Sentences

LEMMA ProposedType ==
    ASSUME TypeOK, NEW a \in DOMAIN assessments
    PROVE  proposed_scope(a) \in Scopes
<1>1. assessments[a] \in AssessmentRows
  BY DEF TypeOK
<1>2. Recorded[assessments[a].event] \in Events
  BY <1>1, EventsAssumption DEF AssessmentRows
<1> QED
  BY <1>2, RecommendationType, ScopeType, VendorAssumption DEF proposed_scope, domain_of

LEMMA GapsType ==
    ASSUME TypeOK, NEW a \in DOMAIN assessments
    PROVE  gaps_of(a) \subseteq Requirements
<1>1. assessments[a] \in AssessmentRows
  BY DEF TypeOK
<1>2. assessments[a].approved \subseteq Scopes
  BY <1>1 DEF AssessmentRows
<1>3. \A scope \in assessments[a].approved :
         request_items(scope, evidence, today) \subseteq Requirements
  BY <1>2 DEF request_items, Scopes
<1> QED
  BY <1>3 DEF gaps_of

LEMMA RunShape ==
    ASSUME NEW r \in Runs
    PROVE  /\ r.stage = "Queue" => DOMAIN r.events \subseteq EventIds
                                   /\ \A e \in DOMAIN r.events : r.events[e] \in EventRows
           /\ r.stage = "Decision" =>
                /\ r.event \in EventIds /\ r.action \in AnalystActions
                /\ r.read \in EventRows /\ r.opens \subseteq ReviewTypes
           /\ r.stage = "Scope" => r.assessment \in Nat
           /\ r.stage = "Plan" => r.assessment \in Nat /\ r.gaps \subseteq Requirements
           /\ r.stage = "Request" =>
                /\ r.assessment \in Nat /\ r.gaps \subseteq Requirements
                /\ r.day \in Nat /\ r.seen \in Nat /\ r.package \in Nat
                /\ r.complete \in BOOLEAN
                /\ r.status \in RequestStatuses \cup {"None"}
           /\ r # Idle => r.stage \in {"Queue", "Decision", "Scope", "Plan", "Request"}
BY DEF Runs, Idle

LEMMA StatusTypes ==
    ASSUME NEW action \in AnalystActions
    PROVE  /\ status_after(action) \in EventStatuses
           /\ requires_review_after(action) \in BOOLEAN
           /\ plan_material_action(action) \subseteq ReviewTypes
BY DEF status_after, requires_review_after, plan_material_action, AnalystActions,
       EventStatuses, ReviewTypes

-----------------------------------------------------------------------------
(* Evidence that is reused *)

\* A document that comes after the others is the best for a requirement only if
\* none of the others has its status: where there was current evidence, what is
\* best stays the same.
LEMMA BestStays ==
    ASSUME NEW ev \in Seq(Library), NEW x \in Library, NEW r, NEW d \in Nat,
           NEW e \in matching(r, ev), status_for_evidence(ev[e], d) = "Satisfied"
    PROVE  best_evidence(r, Append(ev, x), d) = best_evidence(r, ev, d)
<1> DEFINE new  == Append(ev, x)
           n    == Len(ev) + 1
           R(y) == rank(status_for_evidence(y, d))
<1>1. /\ DOMAIN new = DOMAIN ev \cup {n} /\ DOMAIN ev = 1 .. Len(ev) /\ Len(ev) \in Nat
      /\ \A i \in DOMAIN ev : new[i] = ev[i]
  BY AppendFacts
<1>2. \A y : R(y) \in 1..3
  BY DEF rank
<1>3. R(ev[e]) = 3 /\ e \in DOMAIN ev
  BY DEF rank, matching
<1>4. /\ matching(r, ev) \subseteq matching(r, new)
      /\ matching(r, new) \subseteq matching(r, ev) \cup {n}
      /\ matching(r, ev) \subseteq DOMAIN ev
  BY <1>1 DEF matching
<1> HIDE DEF new, R
<1>5. \A b : b \in best_evidence(r, ev, d) <=>
        /\ b \in matching(r, ev)
        /\ \A i \in matching(r, ev) :
             R(ev[i]) < R(ev[b]) \/ (R(ev[i]) = R(ev[b]) /\ b <= i)
  BY DEF best_evidence, R
<1>6. \A b : b \in best_evidence(r, new, d) <=>
        /\ b \in matching(r, new)
        /\ \A i \in matching(r, new) :
             R(new[i]) < R(new[b]) \/ (R(new[i]) = R(new[b]) /\ b <= i)
  BY DEF best_evidence, R
<1>7. ASSUME NEW b \in best_evidence(r, ev, d)
      PROVE  b \in best_evidence(r, new, d)
  <2>1. R(ev[b]) = 3 /\ b \in matching(r, ev) /\ b \in DOMAIN ev
    BY <1>2, <1>3, <1>4, <1>5
  <2>2. R(new[n]) < R(new[b]) \/ (R(new[n]) = R(new[b]) /\ b <= n)
    BY <2>1, <1>1, <1>2
  <2>3. \A i \in matching(r, ev) :
          R(new[i]) < R(new[b]) \/ (R(new[i]) = R(new[b]) /\ b <= i)
    BY <2>1, <1>1, <1>4, <1>5
  <2> QED
    BY <2>1, <2>2, <2>3, <1>4, <1>6
<1>8. ASSUME NEW b \in best_evidence(r, new, d)
      PROVE  b \in best_evidence(r, ev, d)
  <2>1. b # n
    BY <1>1, <1>2, <1>3, <1>4, <1>6
  <2>2. b \in matching(r, ev)
    BY <2>1, <1>4, <1>6
  <2> QED
    BY <2>2, <1>1, <1>4, <1>5, <1>6
<1>9. /\ best_evidence(r, ev, d) \subseteq matching(r, ev)
      /\ best_evidence(r, new, d) \subseteq matching(r, new)
  BY DEF best_evidence
<1> QED
  BY <1>7, <1>8, <1>9 DEF new

\* So there is the same to do for it.
LEMMA ActionStays ==
    ASSUME NEW ev \in Seq(Library), NEW x \in Library, NEW r, NEW d \in Nat,
           NEW e \in matching(r, ev), status_for_evidence(ev[e], d) = "Satisfied"
    PROVE  workflow_action(r, Append(ev, x), d) = workflow_action(r, ev, d)
<1>1. best_evidence(r, Append(ev, x), d) = best_evidence(r, ev, d)
  BY BestStays
<1>2. \A b \in best_evidence(r, ev, d) : Append(ev, x)[b] = ev[b]
  BY AppendFacts DEF best_evidence, matching
<1> DEFINE B == best_evidence(r, ev, d)
           status(y) == status_for_evidence(y, d)
<1>3. (\A b \in B : status(Append(ev, x)[b]) = "Expired")
        <=> (\A b \in B : status(ev[b]) = "Expired")
  BY <1>2
<1>4. (\E b \in B : \/ status(Append(ev, x)[b]) = "Expiring Soon"
                    \/ Append(ev, x)[b].exceptions \/ ~Append(ev, x)[b].confident)
        <=> (\E b \in B : \/ status(ev[b]) = "Expiring Soon"
                          \/ ev[b].exceptions \/ ~ev[b].confident)
  BY <1>2
<1> QED
  BY <1>1, <1>3, <1>4 DEF workflow_action

\* What may be reused on a day may be reused on that day after any document is
\* registered.
LEMMA ReuseStays ==
    ASSUME NEW ev \in Seq(Library), NEW x \in Library, NEW r, NEW d \in Nat,
           workflow_action(r, ev, d) = "Reuse"
    PROVE  workflow_action(r, Append(ev, x), d) = "Reuse"
<1>1. PICK e \in best_evidence(r, ev, d) : status_for_evidence(ev[e], d) # "Expired"
  BY Zenon DEF workflow_action
<1>2. status_for_evidence(ev[e], d) # "Expiring Soon"
  BY DEF workflow_action
<1>3. e \in matching(r, ev) /\ status_for_evidence(ev[e], d) = "Satisfied"
  BY <1>1, <1>2 DEF status_for_evidence, best_evidence
<1> QED
  BY <1>3, ActionStays


-----------------------------------------------------------------------------
(* The inductive invariant *)

Undecided(row) == row.action = "None" /\ row.status = "Open"

\* What a run relies on that it read before: an event it decides on was open
\* when it was read, and of the assessments its decision asks for, those it does
\* not open are there; and where it found no request, any there is was made since.
RunInv(t) ==
    LET r == run[t] IN
    /\ r.stage = "Queue" =>
         DOMAIN r.events \subseteq DOMAIN events
         /\ \A e \in DOMAIN r.events : Undecided(r.events[e])
    /\ r.stage = "Decision" =>
         /\ r.event \in DOMAIN events
         /\ Undecided(r.read)
         /\ r.opens \subseteq plan_material_action(r.action)
         /\ \A type \in plan_material_action(r.action) \ r.opens :
              \E a \in DOMAIN assessments :
                assessments[a].type = type /\ contains_marker(assessments[a], r.event)
    /\ r.stage \in {"Scope", "Plan"} => r.assessment \in DOMAIN assessments
    /\ r.stage = "Request" =>
         /\ r.assessment \in DOMAIN assessments
         /\ r.gaps # {}
         /\ r.seen <= Len(packages)
         /\ r.package = 0 =>
              /\ r.status = "None" /\ ~r.complete
              /\ \A p \in DOMAIN packages :
                   packages[p].assessment = r.assessment => r.seen < p
         /\ r.package # 0 => r.package \in DOMAIN packages
         /\ r.complete => \A q \in packages[r.package].requested :
                            workflow_action(q, evidence, r.day) = "Reuse"

EventInv == \A e \in DOMAIN events : events[e].action = "None" => Undecided(events[e])

RInv ==
    /\ TypeOK
    /\ EventInv
    /\ \A t \in Tabs : RunInv(t)
    /\ InReviewHasAssessment
    /\ AskedTwiceOnlyByOverlap

\* What is never taken back while a run is in flight.
Grows ==
    /\ DOMAIN events \subseteq DOMAIN events'
    /\ DOMAIN assessments \subseteq DOMAIN assessments'
    /\ \A a \in DOMAIN assessments :
         /\ assessments'[a].event = assessments[a].event
         /\ assessments'[a].type = assessments[a].type
    /\ DOMAIN packages \subseteq DOMAIN packages'
    /\ \A p \in DOMAIN packages :
         /\ packages'[p].assessment = packages[p].assessment
         /\ packages'[p].requested = packages[p].requested
    /\ \A n \in Nat : n <= Len(packages) =>
         /\ n <= Len(packages')
         /\ \A p \in DOMAIN packages' \ DOMAIN packages : n < p
    /\ \A r \in Requirements, d \in Nat :
         workflow_action(r, evidence, d) = "Reuse" => workflow_action(r, evidence', d) = "Reuse"

LEMMA RunKept ==
    ASSUME TypeOK, NEW t \in Tabs, RunInv(t), run'[t] = run[t], Grows
    PROVE  RunInv(t)'
<1> DEFINE r == run[t]
<1>1. r \in Runs
  BY DEF TypeOK
<1>2. CASE r.stage = "Queue"
  BY <1>2 DEF RunInv, Grows, Undecided
<1>3. CASE r.stage = "Decision"
  BY <1>3 DEF RunInv, Grows, Undecided, contains_marker
<1>4. CASE r.stage = "Scope"
  BY <1>4 DEF RunInv, Grows
<1>5. CASE r.stage = "Plan"
  BY <1>5 DEF RunInv, Grows
<1>6. CASE r.stage = "Request"
  <2>1. r.day \in Nat /\ r.seen \in Nat
    BY <1>1, <1>6, RunShape
  <2>2. /\ r.assessment \in DOMAIN assessments'
        /\ r.gaps # {}
        /\ r.seen <= Len(packages')
        /\ r.package # 0 => r.package \in DOMAIN packages'
    BY <1>6, <2>1 DEF RunInv, Grows
  <2>3. ASSUME r.package = 0
        PROVE  /\ r.status = "None" /\ ~r.complete
               /\ \A p \in DOMAIN packages' :
                   packages'[p].assessment = r.assessment => r.seen < p
    BY <1>6, <2>1, <2>3 DEF RunInv, Grows
  <2>4. ASSUME r.complete, NEW q \in packages'[r.package].requested
        PROVE  workflow_action(q, evidence', r.day) = "Reuse"
    <3>1. r.package \in DOMAIN packages
      BY <1>6, <2>4 DEF RunInv
    <3>2. packages[r.package] \in PackageRows
      BY <3>1 DEF TypeOK
    <3>3. q \in packages[r.package].requested /\ q \in Requirements
      BY <2>4, <3>1, <3>2 DEF Grows, PackageRows
    <3> QED
      BY <1>6, <2>1, <2>4, <3>3 DEF RunInv, Grows
  <2> QED
    BY <1>6, <2>2, <2>3, <2>4 DEF RunInv
<1>7. CASE r = Idle
  BY <1>7 DEF RunInv, Idle
<1> QED
  BY <1>1, <1>2, <1>3, <1>4, <1>5, <1>6, <1>7, RunShape

\* A run that ended relies on nothing.
LEMMA RunEnded ==
    ASSUME NEW t, run'[t] = Idle
    PROVE  RunInv(t)'
BY DEF RunInv, Idle

\* One run moves and the others stay.
LEMMA RunsMove ==
    ASSUME TypeOK, \A t \in Tabs : RunInv(t), NEW t \in Tabs, NEW r \in Runs, go(t, r),
           RunInv(t)', Grows
    PROVE  run' \in [Tabs -> Runs] /\ \A v \in Tabs : RunInv(v)'
<1>1. run' \in [Tabs -> Runs] /\ run'[t] = r /\ \A v \in Tabs \ {t} : run'[v] = run[v]
  BY DEF TypeOK, go
<1> QED
  BY <1>1, RunKept

-----------------------------------------------------------------------------
(* Steps that only read *)

\* A run that reads and moves on keeps the invariant, if what it now relies on
\* is so.
LEMMA ReadStep ==
    ASSUME RInv, NEW t \in Tabs, NEW r \in Runs, go(t, r), RunInv(t)',
           UNCHANGED <<events, assessments, packages, evidence, today>>
    PROVE  RInv'
<1>1. Grows
  BY DEF Grows
<1>2. run' \in [Tabs -> Runs] /\ \A v \in Tabs : RunInv(v)'
  BY <1>1, RunsMove DEF RInv
<1>3. TypeOK'
  BY <1>2 DEF RInv, TypeOK
<1>4. EventInv' /\ InReviewHasAssessment' /\ AskedTwiceOnlyByOverlap'
  BY DEF RInv, EventInv, InReviewHasAssessment, AskedTwiceOnlyByOverlap,
         contains_marker, Undecided
<1> QED
  BY <1>2, <1>3, <1>4 DEF RInv

LEMMA EndRunStep ==
    ASSUME RInv, NEW t \in Tabs, end_run(t)
    PROVE  RInv'
<1>1. Idle \in Runs /\ go(t, Idle)
  BY DEF Runs, end_run
<1>2. run'[t] = Idle
  BY <1>1 DEF go, RInv, TypeOK
<1> QED
  BY <1>1, <1>2, RunEnded, ReadStep DEF end_run

LEMMA StartMonitoringStep ==
    ASSUME RInv, NEW t \in Tabs, start_monitoring(t)
    PROVE  RInv'
<1> DEFINE queue == [e \in actionable |-> events[e]]
           r     == [stage |-> "Queue", events |-> queue]
<1>1. actionable \subseteq DOMAIN events /\ DOMAIN events \subseteq EventIds
  BY DEF actionable, RInv, TypeOK
<1>2. queue \in [actionable -> EventRows]
  BY <1>1 DEF RInv, TypeOK
<1>3. queue \in UNION {[S -> EventRows] : S \in SUBSET EventIds}
  BY <1>1, <1>2
<1>4. r \in Runs
  BY <1>3 DEF Runs
<1>5. \A e \in actionable : Undecided(events[e])
  BY DEF actionable, RInv, EventInv
<1>6. run'[t] = r /\ go(t, r)
  BY DEF start_monitoring, go, RInv, TypeOK
<1>7. RunInv(t)'
  BY <1>1, <1>5, <1>6 DEF RunInv, start_monitoring
<1> QED
  BY <1>4, <1>6, <1>7, ReadStep DEF start_monitoring

LEMMA DecideStep ==
    ASSUME RInv, NEW t \in Tabs, NEW e \in EventIds, NEW action \in Actions,
           decide(t, e, action)
    PROVE  RInv'
<1> DEFINE opens == {type \in plan_material_action(action) : existing_review(type, e) = {}}
           r == [stage |-> "Decision", event |-> e, action |-> action,
                 read |-> run[t].events[e], opens |-> opens]
<1>1. action \in AnalystActions
  BY ActionsAssumption
<1>2. /\ e \in DOMAIN events /\ Undecided(run[t].events[e])
      /\ run[t].events[e] \in EventRows
  <2>1. run[t] \in Runs /\ run[t].stage = "Queue" /\ e \in DOMAIN run[t].events /\ RunInv(t)
    BY DEF decide, RInv, TypeOK
  <2> QED
    BY <2>1, RunShape DEF RunInv
<1>3. opens \subseteq ReviewTypes
  BY <1>1, StatusTypes
<1>4. r \in Runs
  BY <1>1, <1>2, <1>3 DEF Runs
<1>5. run'[t] = r /\ go(t, r)
  BY DEF decide, go, RInv, TypeOK
<1>6. \A type \in plan_material_action(action) \ opens :
        \E a \in DOMAIN assessments :
          assessments[a].type = type /\ contains_marker(assessments[a], e)
  BY DEF existing_review
<1> HIDE DEF opens
<1>7. RunInv(t)'
  <2>1. opens \subseteq plan_material_action(action)
    BY DEF opens
  <2> QED
    BY <2>1, <1>2, <1>5, <1>6 DEF RunInv, decide, contains_marker
<1> QED
  BY <1>4, <1>5, <1>7, ReadStep DEF decide

\* A package is the newest, if there is one.
LEMMA OpenRequestStep ==
    ASSUME RInv, NEW t \in Tabs, open_request(t)
    PROVE  RInv'
<1> DEFINE r == run[t]
           page(p, status, complete) ==
             [stage |-> "Request", assessment |-> r.assessment, gaps |-> r.gaps,
              day |-> today, seen |-> Len(packages),
              package |-> p, status |-> status, complete |-> complete]
<1>1. /\ r.stage = "Plan" /\ r.gaps # {} /\ r.assessment \in DOMAIN assessments
      /\ r.assessment \in Nat /\ r.gaps \subseteq Requirements
      /\ today \in Nat /\ Len(packages) \in Nat /\ run \in [Tabs -> Runs]
      /\ DOMAIN packages = 1 .. Len(packages)
  BY RunShape DEF open_request, shown, RInv, TypeOK, RunInv
<1>2. CASE packages_of(r.assessment) = {} /\ go(t, page(0, "None", FALSE))
  <2>1. page(0, "None", FALSE) \in Runs
    BY <1>1 DEF Runs
  <2>2. run'[t] = page(0, "None", FALSE)
    BY <1>1, <1>2 DEF go
  <2>3. RunInv(t)'
    BY <1>1, <1>2, <2>2 DEF RunInv, open_request, packages_of
  <2> QED
    BY <1>2, <2>1, <2>3, ReadStep DEF open_request
<1>3. ASSUME NEW p \in newest(r.assessment),
             go(t, page(p, packages[p].status,
                        reconciliation_complete(packages[p].requested, evidence, today)))
      PROVE  RInv'
  <2> DEFINE done == reconciliation_complete(packages[p].requested, evidence, today)
             n    == page(p, packages[p].status, done)
  <2>1. p \in DOMAIN packages
    BY DEF newest, packages_of
  <2>2. packages[p] \in PackageRows /\ p \in Nat \ {0}
    BY <2>1 DEF RInv, TypeOK
  <2>3. done \in BOOLEAN
    BY DEF reconciliation_complete
  <2>4. n \in Runs
    BY <1>1, <2>2, <2>3 DEF Runs, PackageRows
  <2>5. run'[t] = n
    BY <1>1, <1>3 DEF go
  <2>6. RunInv(t)'
    BY <1>1, <2>1, <2>2, <2>5 DEF RunInv, open_request, reconciliation_complete
  <2> QED
    BY <1>3, <2>4, <2>6, ReadStep DEF open_request
<1> QED
  BY <1>2, <1>3 DEF open_request

-----------------------------------------------------------------------------
(* Steps that write *)

LEMMA RecordEventStep ==
    ASSUME RInv, NEW t \in Tabs, NEW e \in EventIds, record_event(t, e)
    PROVE  RInv'
<1> DEFINE row == [action |-> "None", status |-> "Open", requires_review |-> TRUE]
<1>1. row \in EventRows
  BY DEF EventRows, EventStatuses
<1>2. /\ DOMAIN events' = DOMAIN events \cup {e}
      /\ \A f \in DOMAIN events' : events'[f] = IF f = e THEN row ELSE events[f]
      /\ events' \in [DOMAIN events' -> EventRows]
  BY <1>1 DEF record_event, RInv, TypeOK
<1>3. Grows
  BY <1>2 DEF Grows, record_event
<1>4. \A v \in Tabs : RunInv(v)'
  BY <1>3, RunKept DEF RInv, record_event
<1>5. TypeOK'
  BY <1>2 DEF RInv, TypeOK, record_event
<1>6. EventInv'
  BY <1>2 DEF RInv, EventInv, Undecided
<1>7. InReviewHasAssessment' /\ AskedTwiceOnlyByOverlap'
  BY <1>2 DEF RInv, InReviewHasAssessment, AskedTwiceOnlyByOverlap, contains_marker,
              record_event
<1> QED
  BY <1>4, <1>5, <1>6, <1>7 DEF RInv, record_event

\* An assessment that is changed in place stays about its event and of its type.
LEMMA AssessmentStep ==
    ASSUME RInv, NEW a \in DOMAIN assessments, NEW row \in AssessmentRows,
           assessments' = [assessments EXCEPT ![a] = row],
           row.event = assessments[a].event, row.type = assessments[a].type,
           run' \in [Tabs -> Runs], \A v \in Tabs : RunInv(v)',
           UNCHANGED <<events, packages, evidence, today>>
    PROVE  RInv'
<1>1. assessments' \in Seq(AssessmentRows) /\ DOMAIN assessments' = DOMAIN assessments
  BY ExceptFacts DEF RInv, TypeOK
<1>2. TypeOK'
  BY <1>1 DEF RInv, TypeOK
<1>3. \A b \in DOMAIN assessments :
        assessments'[b].event = assessments[b].event /\ assessments'[b].type = assessments[b].type
  OBVIOUS
<1>4. EventInv' /\ AskedTwiceOnlyByOverlap'
  BY DEF RInv, EventInv, AskedTwiceOnlyByOverlap, Undecided
<1>5. InReviewHasAssessment'
  BY <1>1, <1>3 DEF RInv, InReviewHasAssessment, contains_marker
<1> QED
  BY <1>2, <1>4, <1>5 DEF RInv

LEMMA StartAssessmentsStep ==
    ASSUME RInv, NEW t \in Tabs, NEW a \in DOMAIN assessments, start_assessments(t, a)
    PROVE  RInv'
<1> DEFINE old == assessments[a]
           row == [old EXCEPT !.proposed = IF @ = {} THEN {proposed_scope(a)} ELSE @]
           r == IF unconfirmed(a) THEN [stage |-> "Scope", assessment |-> a]
                ELSE [stage |-> "Plan", assessment |-> a, gaps |-> gaps_of(a)]
<1>1. old \in AssessmentRows /\ a \in Nat /\ TypeOK /\ run \in [Tabs -> Runs]
  BY DEF RInv, TypeOK
<1>2. proposed_scope(a) \in Scopes /\ gaps_of(a) \subseteq Requirements
  BY <1>1, ProposedType, GapsType
<1>3. /\ row \in AssessmentRows /\ row.event = old.event /\ row.type = old.type
  BY <1>1, <1>2 DEF AssessmentRows
<1>4. assessments' = [assessments EXCEPT ![a] = row]
  BY DEF start_assessments
<1>5. r \in Runs
  BY <1>1, <1>2 DEF Runs
<1>6. go(t, r) /\ run'[t] = r
  BY <1>1 DEF start_assessments, go
<1> HIDE DEF row
<1>7. DOMAIN assessments' = DOMAIN assessments /\ assessments'[a] = row
  BY <1>3, <1>4
<1>8. Grows
  BY <1>3, <1>4, <1>7 DEF Grows, start_assessments
<1>9. RunInv(t)'
  BY <1>3, <1>6, <1>7 DEF RunInv, unconfirmed
<1>10. run' \in [Tabs -> Runs] /\ \A v \in Tabs : RunInv(v)'
  BY <1>5, <1>6, <1>8, <1>9, RunsMove DEF RInv
<1> QED
  BY <1>3, <1>4, <1>10, AssessmentStep DEF start_assessments

LEMMA ConfirmScopeStep ==
    ASSUME RInv, NEW t \in Tabs, confirm_scope(t)
    PROVE  RInv'
<1> DEFINE a   == run[t].assessment
           old == assessments[a]
<1>1. a \in DOMAIN assessments
  BY DEF RInv, RunInv, confirm_scope
<1>2. old \in AssessmentRows /\ a \in Nat /\ TypeOK /\ run \in [Tabs -> Runs]
  BY <1>1 DEF RInv, TypeOK
<1>3. PICK scope \in Adjusted \cup {proposed_scope(a)} :
        assessments' = [assessments EXCEPT
               ![a].proposed = {proposed_scope(a)},
               ![a].approved = {scope}]
  BY DEF confirm_scope
<1>4. proposed_scope(a) \in Scopes /\ scope \in Scopes
  BY <1>1, <1>2, ProposedType, AdjustedAssumption
<1> DEFINE row == [old EXCEPT !.proposed = {proposed_scope(a)},
                              !.approved = {scope}]
<1>5. /\ row \in AssessmentRows /\ row.event = old.event /\ row.type = old.type
  <2>1. {scope} \in SUBSET Scopes
    BY <1>4
  <2>2. {proposed_scope(a)} \in SUBSET Scopes
    BY <1>4
  <2> HIDE DEF a, old
  <2>3. \A P, C \in SUBSET Scopes :
          LET new == [old EXCEPT !.proposed = P, !.approved = C]
          IN  /\ new \in AssessmentRows /\ new.event = old.event /\ new.type = old.type
    BY <1>2 DEF AssessmentRows
  <2> QED
    BY <2>1, <2>2, <2>3
<1>6. assessments' = [assessments EXCEPT ![a] = row]
  BY <1>1, <1>3
<1>7. Idle \in Runs /\ go(t, Idle) /\ run'[t] = Idle
  BY <1>2 DEF confirm_scope, go, Runs
<1> HIDE DEF row
<1>8. DOMAIN assessments' = DOMAIN assessments /\ assessments'[a] = row
  BY <1>1, <1>6
<1>9. Grows
  BY <1>5, <1>6, <1>8 DEF Grows, confirm_scope
<1>10. run' \in [Tabs -> Runs] /\ \A v \in Tabs : RunInv(v)'
  BY <1>7, <1>9, RunEnded, RunsMove DEF RInv
<1> QED
  BY <1>1, <1>5, <1>6, <1>10, AssessmentStep DEF confirm_scope

LEMMA UpdateAssessmentStep ==
    ASSUME RInv, NEW t \in Tabs, NEW a \in DOMAIN assessments, NEW done \in BOOLEAN,
           update_assessment(t, a, done)
    PROVE  RInv'
<1> DEFINE old == assessments[a]
           row == [old EXCEPT !.done = done]
<1>1. old \in AssessmentRows
  BY DEF RInv, TypeOK
<1>2. /\ row \in AssessmentRows /\ row.event = old.event /\ row.type = old.type
  BY <1>1 DEF AssessmentRows
<1>3. assessments' = [assessments EXCEPT ![a] = row]
  BY DEF update_assessment
<1> HIDE DEF row
<1>4. DOMAIN assessments' = DOMAIN assessments /\ assessments'[a] = row
  BY <1>3
<1>5. Grows
  BY <1>2, <1>3, <1>4 DEF Grows, update_assessment
<1>6. run' \in [Tabs -> Runs] /\ \A v \in Tabs : RunInv(v)'
  BY <1>5, RunKept DEF RInv, TypeOK, update_assessment
<1> QED
  BY <1>2, <1>3, <1>6, AssessmentStep DEF update_assessment

\* The review that a decision calls for is there after it: the one that was found,
\* or the one it opens, which is of its own event.
LEMMA CommitDecisionStep ==
    ASSUME RInv, NEW t \in Tabs, commit_decision(t)
    PROVE  RInv'
<1> DEFINE d   == run[t]
           row == events[d.event]
           new == [action |-> written(row.action, d.read.action, d.action),
                   status |-> written(row.status, d.read.status, status_after(d.action)),
                   requires_review |->
                     written(row.requires_review, d.read.requires_review,
                             requires_review_after(d.action))]
           opened(type) == [event |-> d.event, type |-> type, done |-> FALSE,
                            proposed |-> {}, approved |-> {}]
           Told == /\ Grows
                   /\ assessments' \in Seq(AssessmentRows)
                   /\ \A a \in DOMAIN assessments :
                        /\ a \in DOMAIN assessments'
                        /\ assessments'[a].event = assessments[a].event
                        /\ assessments'[a].type = assessments[a].type
                   /\ \A k \in plan_material_action(d.action) : \E a \in DOMAIN assessments' :
                        assessments'[a].type = k /\ contains_marker(assessments'[a], d.event)
<1>1. /\ d.stage = "Decision" /\ d \in Runs /\ RunInv(t) /\ TypeOK /\ run \in [Tabs -> Runs]
      /\ assessments \in Seq(AssessmentRows)
  BY DEF commit_decision, RInv, TypeOK
<1>2. /\ d.event \in DOMAIN events /\ d.event \in EventIds
      /\ d.action \in AnalystActions /\ d.opens \subseteq ReviewTypes
      /\ d.opens \subseteq plan_material_action(d.action)
  BY <1>1, RunShape DEF RunInv
<1>3. row \in EventRows
  BY <1>2 DEF RInv, TypeOK
<1>4. new.action = d.action /\ new.status = status_after(d.action)
  BY <1>1, <1>2 DEF written, RunInv, Undecided, AnalystActions, status_after
<1>5. new \in EventRows
  <2>1. new.requires_review \in BOOLEAN
    BY <1>2, <1>3, StatusTypes DEF written, EventRows
  <2> QED
    BY <1>2, <1>4, <2>1, StatusTypes DEF EventRows
<1>6. events' = [events EXCEPT ![d.event] = new]
  BY DEF commit_decision
<1> HIDE DEF new
<1>7. /\ DOMAIN events' = DOMAIN events /\ events'[d.event] = new
      /\ \A f \in DOMAIN events \ {d.event} : events'[f] = events[f]
      /\ events' \in [DOMAIN events' -> EventRows]
  BY <1>2, <1>5, <1>6 DEF RInv, TypeOK
<1>8. ASSUME d.opens = {}, UNCHANGED assessments
      PROVE  Told
  <2>1. Grows
    BY <1>7, <1>8 DEF Grows, commit_decision
  <2>2. assessments' \in Seq(AssessmentRows) /\ \A a \in DOMAIN assessments :
          /\ a \in DOMAIN assessments'
          /\ assessments'[a].event = assessments[a].event
          /\ assessments'[a].type = assessments[a].type
    BY <1>1, <1>8
  <2>3. \A type \in plan_material_action(d.action) : \E a \in DOMAIN assessments' :
          assessments'[a].type = type /\ contains_marker(assessments'[a], d.event)
    BY <1>1, <1>8 DEF RunInv
  <2> QED
    BY <2>1, <2>2, <2>3
<1>9. ASSUME NEW type \in d.opens, assessments' = Append(assessments, opened(type))
      PROVE  Told
  <2>1. opened(type) \in AssessmentRows
    BY <1>2 DEF AssessmentRows
  <2>2. /\ assessments' \in Seq(AssessmentRows)
        /\ DOMAIN assessments' = DOMAIN assessments \cup {Len(assessments) + 1}
        /\ \A a \in DOMAIN assessments : assessments'[a] = assessments[a]
        /\ assessments'[Len(assessments) + 1] = opened(type)
    BY <1>1, <1>9, <2>1, AppendFacts
  <2>3. Grows
    BY <1>7, <2>2 DEF Grows, commit_decision
  <2>4. contains_marker(opened(type), d.event)
    <3>1. d.event \in Nat
      BY <1>2, EventsAssumption
    <3>2. d.event \div 1 = d.event
      BY <3>1
    <3> QED
      BY <3>2 DEF contains_marker
  <2>5. \A k \in plan_material_action(d.action) : k = type
    BY <1>2 DEF plan_material_action
  <2> QED
    BY <2>2, <2>3, <2>4, <2>5
<1>10. Told
  BY <1>8, <1>9 DEF commit_decision
<1>11. Idle \in Runs /\ go(t, Idle) /\ run'[t] = Idle
  BY <1>1 DEF commit_decision, go, Runs
<1>12. run' \in [Tabs -> Runs] /\ \A v \in Tabs : RunInv(v)'
  BY <1>10, <1>11, RunEnded, RunsMove DEF RInv
<1>13. TypeOK'
  BY <1>7, <1>10, <1>12 DEF RInv, TypeOK, commit_decision
<1>14. EventInv'
  BY <1>2, <1>4, <1>7 DEF RInv, EventInv, AnalystActions, Undecided
<1>15. AskedTwiceOnlyByOverlap'
  BY DEF RInv, AskedTwiceOnlyByOverlap, commit_decision
<1>16. InReviewHasAssessment'
  <2> SUFFICES ASSUME NEW e \in DOMAIN events', events'[e].status = "In Review"
               PROVE  \E a \in DOMAIN assessments' :
                        /\ assessments'[a].type \in plan_material_action(events'[e].action)
                        /\ contains_marker(assessments'[a], e)
    BY DEF InReviewHasAssessment, contains_marker
  <2>1. CASE e = d.event
    <3>1. d.action \in {"Targeted Review", "Full Reassessment"}
      BY <1>2, <1>4, <1>7, <2>1 DEF status_after, AnalystActions
    <3>2. \E k \in plan_material_action(d.action) : TRUE
      BY <3>1 DEF plan_material_action
    <3> QED
      BY <1>4, <1>7, <1>10, <2>1, <3>2
  <2>2. CASE e # d.event
    <3>1. PICK a \in DOMAIN assessments :
            /\ assessments[a].type \in plan_material_action(events[e].action)
            /\ contains_marker(assessments[a], e)
      BY <1>7, <2>2 DEF RInv, InReviewHasAssessment
    <3> QED
      BY <1>7, <1>10, <2>2, <3>1 DEF contains_marker
  <2> QED
    BY <2>1, <2>2
<1> QED
  BY <1>10, <1>12, <1>13, <1>14, <1>15, <1>16 DEF RInv

LEMMA CreateRequestStep ==
    ASSUME RInv, NEW t \in Tabs, create_request(t)
    PROVE  RInv'
<1> DEFINE r   == run[t]
           n   == Len(packages) + 1
           new == [assessment |-> r.assessment, requested |-> r.gaps,
                   status |-> "Draft", seen |-> r.seen]
<1>1. /\ r.stage = "Request" /\ r.package = 0 /\ r \in Runs /\ RunInv(t)
      /\ TypeOK /\ run \in [Tabs -> Runs] /\ packages \in Seq(PackageRows)
  BY DEF create_request, RInv, TypeOK
<1>2. /\ r.gaps # {} /\ r.seen <= Len(packages) /\ r.seen \in Nat
      /\ \A p \in DOMAIN packages :
           packages[p].assessment = r.assessment => r.seen < p
  BY <1>1, RunShape DEF RunInv
<1>3. new \in PackageRows
  <2>1. r.assessment \in Nat /\ r.gaps \subseteq Requirements /\ r.seen \in Nat
    BY <1>1, RunShape
  <2> HIDE DEF r
  <2>2. r.gaps \in (SUBSET Requirements) \ {{}}
    BY <1>2, <2>1
  <2> QED
    BY <2>1, <2>2 DEF PackageRows, RequestStatuses
<1>4. packages' = Append(packages, new)
  BY DEF create_request
<1> HIDE DEF new
<1>5. /\ packages' \in Seq(PackageRows)
      /\ DOMAIN packages' = DOMAIN packages \cup {n}
      /\ \A p \in DOMAIN packages : packages'[p] = packages[p]
      /\ packages'[n] = new
  BY <1>1, <1>3, <1>4, AppendFacts
<1>6. new.assessment = r.assessment /\ new.seen = r.seen
  BY DEF new
<1>7. Grows
  <2>1. Len(packages) \in Nat /\ Len(packages') = n
    BY <1>1, <1>3, <1>4, AppendFacts
  <2> QED
    BY <1>5, <2>1 DEF Grows, create_request
<1>8. Idle \in Runs /\ go(t, Idle) /\ run'[t] = Idle
  BY <1>1 DEF create_request, go, Runs
<1>9. run' \in [Tabs -> Runs] /\ \A v \in Tabs : RunInv(v)'
  BY <1>7, <1>8, RunEnded, RunsMove DEF RInv
<1>10. TypeOK'
  BY <1>5, <1>9 DEF RInv, TypeOK, create_request
<1>11. EventInv' /\ InReviewHasAssessment'
  BY DEF RInv, EventInv, InReviewHasAssessment, create_request, contains_marker, Undecided
<1>12. AskedTwiceOnlyByOverlap'
  BY <1>2, <1>5, <1>6 DEF RInv, AskedTwiceOnlyByOverlap
<1> QED
  BY <1>9, <1>10, <1>11, <1>12 DEF RInv, create_request

LEMMA TransitionStep ==
    ASSUME RInv, NEW t \in Tabs, NEW next \in RequestStatuses, transition(t, next)
    PROVE  RInv'
<1> DEFINE p   == run[t].package
           old == packages[p]
           new == [old EXCEPT !.status = next]
<1>1. /\ run[t].stage = "Request" /\ RunInv(t) /\ TypeOK /\ run \in [Tabs -> Runs]
      /\ packages \in Seq(PackageRows) /\ run[t].status # "None"
  BY DEF transition, can_transition_request, RInv, TypeOK
<1>2. p \in DOMAIN packages
  BY <1>1 DEF RunInv
<1>3. old \in PackageRows
  BY <1>1, <1>2
<1>4. /\ new \in PackageRows /\ new.assessment = old.assessment
      /\ new.requested = old.requested /\ new.seen = old.seen
  BY <1>3 DEF PackageRows
<1>5. packages' = [packages EXCEPT ![p] = new]
  BY DEF transition
<1> HIDE DEF new
<1>6. packages' \in Seq(PackageRows) /\ DOMAIN packages' = DOMAIN packages
  BY <1>1, <1>2, <1>4, <1>5, ExceptFacts
<1>7. \A q \in DOMAIN packages :
        /\ packages'[q].assessment = packages[q].assessment
        /\ packages'[q].requested = packages[q].requested
        /\ packages'[q].seen = packages[q].seen
  BY <1>2, <1>4, <1>5
<1>8. Grows
  BY <1>6, <1>7 DEF Grows, transition
<1>9. Idle \in Runs /\ go(t, Idle) /\ run'[t] = Idle
  BY <1>1 DEF transition, go, Runs
<1>10. run' \in [Tabs -> Runs] /\ \A v \in Tabs : RunInv(v)'
  BY <1>8, <1>9, RunEnded, RunsMove DEF RInv
<1>11. TypeOK'
  BY <1>6, <1>10 DEF RInv, TypeOK, transition
<1>12. EventInv' /\ InReviewHasAssessment'
  BY DEF RInv, EventInv, InReviewHasAssessment, transition, contains_marker, Undecided
<1>13. AskedTwiceOnlyByOverlap'
  BY <1>6, <1>7 DEF RInv, AskedTwiceOnlyByOverlap
<1> QED
  BY <1>10, <1>11, <1>12, <1>13 DEF RInv, transition

\* No page is shown anew, and what a page in flight was told of evidence stays so.
LEMMA RegisterEvidenceStep ==
    ASSUME RInv, NEW t \in Tabs, NEW document \in Library, register_evidence(t, document)
    PROVE  RInv'
<1>1. evidence \in Seq(Library) /\ evidence' = Append(evidence, document)
  BY DEF register_evidence, RInv, TypeOK
<1>2. evidence' \in Seq(Library)
  BY <1>1, AppendFacts
<1>3. \A r \in Requirements, d \in Nat :
        workflow_action(r, evidence, d) = "Reuse" => workflow_action(r, evidence', d) = "Reuse"
  BY <1>1, ReuseStays
<1>4. Grows
  BY <1>3 DEF Grows, register_evidence
<1>5. \A v \in Tabs : RunInv(v)'
  BY <1>4, RunKept DEF RInv, register_evidence
<1>6. TypeOK'
  BY <1>2 DEF RInv, TypeOK, register_evidence
<1>7. EventInv' /\ InReviewHasAssessment' /\ AskedTwiceOnlyByOverlap'
  BY DEF RInv, EventInv, InReviewHasAssessment, AskedTwiceOnlyByOverlap, register_evidence,
         contains_marker, Undecided
<1> QED
  BY <1>5, <1>6, <1>7 DEF RInv, register_evidence

\* A step that leaves the tables and the runs alone: a new day, or nothing.
LEMMA DayStep ==
    ASSUME RInv, UNCHANGED <<events, assessments, packages, evidence, run>>,
           today' \in Nat
    PROVE  RInv'
<1>1. Grows
  BY DEF Grows
<1>2. \A v \in Tabs : RunInv(v)'
  BY <1>1, RunKept DEF RInv
<1>3. TypeOK'
  BY DEF RInv, TypeOK
<1>4. EventInv' /\ InReviewHasAssessment' /\ AskedTwiceOnlyByOverlap'
  BY DEF RInv, EventInv, InReviewHasAssessment, AskedTwiceOnlyByOverlap,
         contains_marker, Undecided
<1> QED
  BY <1>2, <1>3, <1>4 DEF RInv

-----------------------------------------------------------------------------
(* The invariants *)

LEMMA InitInv == Init => RInv
<1> SUFFICES ASSUME Init PROVE RInv
  OBVIOUS
<1>1. \A t \in Tabs : run[t] = Idle
  BY DEF Init
<1>2. DOMAIN events = {} /\ DOMAIN assessments = {} /\ DOMAIN packages = {}
  BY DEF Init
<1>3. TypeOK
  BY <1>2 DEF Init, TypeOK, Runs
<1>4. \A t \in Tabs : RunInv(t)
  BY <1>1 DEF RunInv, Idle
<1> QED
  BY <1>2, <1>3, <1>4 DEF RInv, EventInv, InReviewHasAssessment, AskedTwiceOnlyByOverlap

LEMMA NextInv == RInv /\ [Next]_vars => RInv'
<1> SUFFICES ASSUME RInv, [Next]_vars PROVE RInv'
  OBVIOUS
<1>1. ASSUME NEW t \in Tabs, Monitoring(t)
      PROVE  RInv'
  BY <1>1, RecordEventStep, StartMonitoringStep, DecideStep, CommitDecisionStep
     DEF Monitoring
<1>2. ASSUME NEW t \in Tabs, Review(t)
      PROVE  RInv'
  <2>1. CASE \E a \in DOMAIN assessments :
               start_assessments(t, a) \/ \E done \in BOOLEAN : update_assessment(t, a, done)
    BY <2>1, StartAssessmentsStep, UpdateAssessmentStep
  <2>2. CASE confirm_scope(t)
    BY <2>2, ConfirmScopeStep
  <2>3. CASE open_request(t)
    BY <2>3, OpenRequestStep
  <2>4. CASE create_request(t)
    BY <2>4, CreateRequestStep
  <2>5. CASE mark_sent(t) \/ mark_received(t) \/ close_request(t)
    BY <2>5, TransitionStep DEF mark_sent, mark_received, close_request, RequestStatuses
  <2> QED
    BY <1>2, <2>1, <2>2, <2>3, <2>4, <2>5 DEF Review
<1>3. ASSUME NEW t \in Tabs, end_run(t)
      PROVE  RInv'
  BY <1>3, EndRunStep
<1>4. ASSUME NEW t \in Tabs, NEW document \in Library, register_evidence(t, document)
      PROVE  RInv'
  BY <1>4, RegisterEvidenceStep
<1>5. CASE advance_day
  <2>1. today' \in Nat
    BY <1>5 DEF advance_day, RInv, TypeOK
  <2> QED
    BY <1>5, <2>1, DayStep DEF advance_day
<1>6. CASE UNCHANGED vars
  <2>1. today' \in Nat
    BY <1>6 DEF vars, RInv, TypeOK
  <2> QED
    BY <1>6, <2>1, DayStep DEF vars
<1> QED
  BY <1>1, <1>2, <1>3, <1>4, <1>5, <1>6 DEF Next

\* Whatever the tabs, the role, the vendor, its events and documents and
\* the bounds: the invariant holds in every state of every behaviour.
THEOREM InductiveInvariant == Spec => []RInv
BY InitInv, NextInv, PTL DEF Spec

\* Every variable keeps its type, and no request asks for nothing.
THEOREM TypeCorrect == Spec => []TypeOK
<1>1. RInv => TypeOK
  BY DEF RInv
<1> QED
  BY <1>1, InductiveInvariant, PTL

\* However the runs of the tabs interleave, an event in review has the assessment
\* its decision called for.
THEOREM InReview == Spec => []InReviewHasAssessment
<1>1. RInv => InReviewHasAssessment
  BY DEF RInv
<1> QED
  BY <1>1, InductiveInvariant, PTL

\* However the runs of the tabs interleave, a second request for a review comes
\* only from a run that looked before the first was there.
THEOREM AskedAgainByOverlap == Spec => []AskedTwiceOnlyByOverlap
<1>1. RInv => AskedTwiceOnlyByOverlap
  BY DEF RInv
<1> QED
  BY <1>1, InductiveInvariant, PTL

-----------------------------------------------------------------------------
(* What a step may never do *)

\* A request is closed from the page that found it satisfied.
LEMMA ClosingStep ==
    ASSUME RInv, [Next]_vars, NEW p \in DOMAIN packages, Closing(p)
    PROVE  \E t \in Tabs :
             /\ run[t].stage = "Request"
             /\ run[t].package = p
             /\ \A r \in packages[p].requested :
                  workflow_action(r, evidence, run[t].day) = "Reuse"
<1>1. packages \in Seq(PackageRows) /\ packages[p] \in PackageRows
  BY DEF RInv, TypeOK
<1>2. packages'[p].status = "Closed" /\ packages[p].status # "Closed"
  BY DEF Closing
<1>3. ASSUME NEW row, packages' = Append(packages, row)
      PROVE  FALSE
  BY <1>1, <1>2, <1>3
<1>4. ASSUME NEW t \in Tabs, NEW next \in RequestStatuses, transition(t, next)
      PROVE  run[t].package = p /\ next = "Closed"
  BY <1>1, <1>2, <1>4 DEF transition, PackageRows
<1>5. ASSUME packages' = packages
      PROVE  FALSE
  BY <1>2, <1>5
<1>6. \E t \in Tabs : close_request(t)
  <2>1. ASSUME NEW t \in Tabs, Monitoring(t)
        PROVE  FALSE
    BY <1>5, <2>1 DEF Monitoring, record_event, start_monitoring, decide, commit_decision
  <2>2. ASSUME NEW t \in Tabs, mark_sent(t) \/ mark_received(t)
        PROVE  FALSE
    BY <1>4, <2>2 DEF mark_sent, mark_received, RequestStatuses
  <2>3. ASSUME NEW t \in Tabs, Review(t)
        PROVE  close_request(t)
    BY <1>3, <1>5, <2>2, <2>3
       DEF Review, start_assessments, update_assessment, confirm_scope, open_request,
           create_request
  <2>4. ASSUME NEW t \in Tabs, end_run(t)
        PROVE  FALSE
    BY <1>5, <2>4 DEF end_run
  <2>5. ASSUME NEW t \in Tabs, NEW document \in Library, register_evidence(t, document)
        PROVE  FALSE
    BY <1>5, <2>5 DEF register_evidence
  <2> QED
    BY <1>5, <2>1, <2>3, <2>4, <2>5 DEF Next, advance_day, vars
<1>7. PICK t \in Tabs : close_request(t)
  BY <1>6
<1>8. run[t].stage = "Request" /\ run[t].complete /\ transition(t, "Closed")
  BY <1>7 DEF close_request
<1>9. run[t].package = p
  BY <1>4, <1>8 DEF RequestStatuses
<1> QED
  BY <1>8, <1>9 DEF RInv, RunInv

\* Only a registration changes the evidence, and it comes last.
LEMMA EvidenceStep ==
    ASSUME RInv, [Next]_vars, NEW r \in Requirements, NEW e \in matching(r, evidence),
           status_for_evidence(evidence[e], today) = "Satisfied"
    PROVE  workflow_action(r, evidence', today) = workflow_action(r, evidence, today)
<1>1. evidence \in Seq(Library) /\ today \in Nat
  BY DEF RInv, TypeOK
<1>2. CASE UNCHANGED evidence
  BY <1>2
<1>3. ASSUME NEW t \in Tabs, NEW document \in Library, register_evidence(t, document)
      PROVE  workflow_action(r, evidence', today) = workflow_action(r, evidence, today)
  <2>1. evidence' = Append(evidence, document)
    BY <1>3 DEF register_evidence
  <2> QED
    BY <1>1, <2>1, ActionStays
<1>4. ASSUME NEW t \in Tabs, Monitoring(t) \/ Review(t) \/ end_run(t)
      PROVE  UNCHANGED evidence
  BY <1>4
     DEF Monitoring, Review, end_run, record_event, start_monitoring, decide,
         commit_decision, start_assessments, update_assessment, confirm_scope,
         open_request, create_request, mark_sent, mark_received, close_request,
         transition
<1> QED
  BY <1>2, <1>3, <1>4 DEF Next, advance_day, vars

\* A request is closed only when what it asked for was there, current and trusted,
\* on the day its page was read, and whatever came since has not taken it back.
THEOREM ClosedSatisfied == Spec => ClosedWhenSatisfied
<1>1. RInv /\ [Next]_vars =>
        [\A p \in DOMAIN packages : Closing(p) =>
           \E t \in Tabs :
              /\ run[t].stage = "Request"
              /\ run[t].package = p
              /\ \A r \in packages[p].requested :
                   workflow_action(r, evidence, run[t].day) = "Reuse"]_vars
  BY ClosingStep
<1> QED
  BY <1>1, InductiveInvariant, PTL DEF Spec, ClosedWhenSatisfied

\* Whatever documents there are and whatever is registered: what there is to do
\* for a requirement that has current evidence is what it was.
THEOREM EvidenceKept == Spec => CurrentEvidenceStays
<1>1. RInv /\ [Next]_vars =>
        [\A r \in Requirements :
           (\E e \in matching(r, evidence) :
                status_for_evidence(evidence[e], today) = "Satisfied")
           => workflow_action(r, evidence', today) = workflow_action(r, evidence, today)]_vars
  BY EvidenceStep
<1> QED
  BY <1>1, InductiveInvariant, PTL DEF Spec, CurrentEvidenceStays

=============================================================================
