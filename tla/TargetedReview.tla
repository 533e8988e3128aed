-------------------------- MODULE TargetedReview --------------------------
(***************************************************************************)
(* What becomes of a monitoring event of one vendor.  An analyst decides    *)
(* on it from a recommendation; a decision for a targeted review opens an   *)
(* assessment, whose scope is confirmed; what the scope needs and nobody    *)
(* has is requested from the vendor in a package, which is sent, answered   *)
(* and closed.                                                              *)
(*                                                                         *)
(* Every click is one RUN of a page: it reads rows, which stay as they were *)
(* read until the run ends, and then writes and commits.  There is one      *)
(* configured principal, and any number of browser TABS of theirs, whose    *)
(* runs interleave at every query.  An UPDATE names the columns that differ *)
(* from what was read.  An assessment knows its event by a note,            *)
(* "Monitoring event #<id>.".                                               *)
(***************************************************************************)
EXTENDS TargetedReviewPolicy, Authz

CONSTANTS Tabs,               \* the browser tabs the application is open in
          Role,               \* the role of the configured principal
          Vendor,             \* the vendor
          EventIds,           \* the ids its events get, of a table it shares
          Recorded,           \* the event recorded under each
          Actions,            \* the actions analysts take here
          Adjusted,           \* the scopes they confirm other than the proposed one
          Library,            \* the documents registered here
          MaxAssessments,     \* bound on assessments
          MaxEvidence,        \* bound on evidence rows
          MaxPackages,        \* bound on packages
          MaxDay              \* bound on days

ASSUME RoleAssumption == Role \in Roles
ASSUME VendorAssumption == Vendor \in Vendors
ASSUME EventsAssumption == EventIds \subseteq Nat \ {0} /\ Recorded \in [EventIds -> Events]
ASSUME ActionsAssumption == Actions \subseteq AnalystActions
ASSUME AdjustedAssumption == Adjusted \subseteq Scopes
ASSUME LibraryAssumption == Library \subseteq Documents
ASSUME BoundsAssumption ==
    {MaxAssessments, MaxEvidence, MaxPackages, MaxDay} \subseteq Nat

VARIABLES
    events,         \* monitoring_events of the vendor
    assessments,    \* the assessments decisions opened, in the order of their ids
    packages,       \* evidence_request_packages, in the order of their ids
    evidence,       \* evidence rows of the vendor, in the order of their ids
    today,          \* the current date
    run             \* per tab, the page run in flight

vars == <<events, assessments, packages, evidence, today, run>>

-----------------------------------------------------------------------------
(* The rows and the runs *)

EventStatuses ==
    {"Open", "Closed", "Monitoring", "Evidence Requested", "Escalated", "In Review"}
EventRows ==
    [action : AnalystActions \cup {"None"}, status : EventStatuses,
     requires_review : BOOLEAN]

\* Of the six statuses, done means Completed or Closed.  What was approved is
\* none or one scope; the rationale that an adjusted one needs is a text.
AssessmentRows ==
    [event : EventIds, type : ReviewTypes, done : BOOLEAN,
     proposed : SUBSET Scopes, approved : SUBSET Scopes]

\* A package has a history field: seen, how many there were when the run that
\* made it looked.
PackageRows ==
    [assessment : Nat, requested : (SUBSET Requirements) \ {{}},
     status : RequestStatuses, seen : Nat]

Idle == [stage |-> "Idle"]
Runs ==
    {Idle}
    \cup [stage : {"Queue"}, events : UNION {[S -> EventRows] : S \in SUBSET EventIds}]
    \cup [stage : {"Decision"}, event : EventIds, action : AnalystActions,
          read : EventRows, opens : SUBSET ReviewTypes]
    \cup [stage : {"Scope"}, assessment : Nat]
    \cup [stage : {"Plan"}, assessment : Nat, gaps : SUBSET Requirements]
    \cup [stage : {"Request"}, assessment : Nat, gaps : SUBSET Requirements,
          day : Nat, seen : Nat, package : Nat,
          status : RequestStatuses \cup {"None"}, complete : BOOLEAN]

may_open(t, permission) == run[t] = Idle /\ can(Role, permission)

go(t, next) == run' = [run EXCEPT ![t] = next]

-----------------------------------------------------------------------------
(* Monitoring page *)

recommended(e) == evaluate_material_change(Recorded[e], Vendor).action
domain_of(e) == evaluate_material_change(Recorded[e], Vendor).domain

record_event(t, e) ==
    /\ may_open(t, "monitoring.manage")
    /\ e \notin DOMAIN events
    /\ \A f \in DOMAIN events : f < e
    /\ events' = [f \in DOMAIN events \cup {e} |->
                    IF f = e THEN [action |-> "None", status |-> "Open",
                                   requires_review |-> TRUE]
                    ELSE events[f]]
    /\ UNCHANGED <<assessments, packages, evidence, today, run>>

\* The events that are offered for a decision.
actionable ==
    {e \in DOMAIN events :
        /\ recommended(e) # "No Action"
        /\ events[e].action = "None"
        /\ events[e].status # "Closed"}

start_monitoring(t) ==
    /\ may_open(t, "monitoring.manage")
    /\ go(t, [stage |-> "Queue", events |-> [e \in actionable |-> events[e]]])
    /\ UNCHANGED <<events, assessments, packages, evidence, today>>

\* The note of an assessment contains "Monitoring event #e".
contains_marker(assessment, e) ==
    \E tail \in {1, 10, 100} : assessment.event \div tail = e

\* Mutant: an assessment of either type will do.
any_review(type, e) ==
    {a \in DOMAIN assessments :
        ~assessments[a].done /\ contains_marker(assessments[a], e)}

existing_review(type, e) ==
    {a \in DOMAIN assessments :
        /\ assessments[a].type = type
        /\ ~assessments[a].done
        /\ contains_marker(assessments[a], e)}

decide(t, e, action) ==
    /\ run[t].stage = "Queue"
    /\ e \in DOMAIN run[t].events
    /\ go(t, [stage |-> "Decision", event |-> e, action |-> action,
              read |-> run[t].events[e],
              opens |-> {type \in plan_material_action(action) :
                            existing_review(type, e) = {}}])
    /\ UNCHANGED <<events, assessments, packages, evidence, today>>

\* A column that is set to what was read is not written.
written(column, read, value) == IF value = read THEN column ELSE value

commit_decision(t) ==
    LET d    == run[t]
        row  == events[d.event]
    IN  /\ d.stage = "Decision"
        /\ events' = [events EXCEPT ![d.event] =
             [action |-> written(row.action, d.read.action, d.action),
              status |-> written(row.status, d.read.status, status_after(d.action)),
              requires_review |->
                written(row.requires_review, d.read.requires_review,
                        requires_review_after(d.action))]]
        /\ \/ d.opens = {} /\ UNCHANGED assessments
           \/ /\ Len(assessments) < MaxAssessments
              /\ \E type \in d.opens :
                   assessments' = Append(assessments,
                     [event |-> d.event, type |-> type, done |-> FALSE,
                      proposed |-> {}, approved |-> {}])
        /\ go(t, Idle)
        /\ UNCHANGED <<packages, evidence, today>>

-----------------------------------------------------------------------------
(* Assessments page: scope *)

proposed_scope(a) == build_targeted_review_scope(domain_of(assessments[a].event))

unconfirmed(a) == assessments[a].approved = {}

gaps_of(a) ==
    UNION {request_items(scope, evidence, today) : scope \in assessments[a].approved}

\* The proposal is saved when the page first shows it, in a transaction of its
\* own.  The page then offers the form or the work plan.
start_assessments(t, a) ==
    /\ may_open(t, "assessment.manage")
    /\ assessments[a].type = "Targeted Material Change Review"
    /\ assessments' =
         [assessments EXCEPT ![a].proposed = IF @ = {} THEN {proposed_scope(a)} ELSE @]
    /\ go(t, IF unconfirmed(a) THEN [stage |-> "Scope", assessment |-> a]
             ELSE [stage |-> "Plan", assessment |-> a, gaps |-> gaps_of(a)])
    /\ UNCHANGED <<events, packages, evidence, today>>

confirm_scope(t) ==
    LET a == run[t].assessment
    IN  /\ run[t].stage = "Scope"
        /\ \E scope \in Adjusted \cup {proposed_scope(a)} :
             assessments' = [assessments EXCEPT
               ![a].proposed = {proposed_scope(a)},
               ![a].approved = {scope}]
        /\ go(t, Idle)
        /\ UNCHANGED <<events, packages, evidence, today>>

\* Any status may follow any other.
update_assessment(t, a, done) ==
    /\ may_open(t, "assessment.manage")
    /\ assessments' = [assessments EXCEPT ![a].done = done]
    /\ UNCHANGED <<events, packages, evidence, today, run>>

-----------------------------------------------------------------------------
(* Assessments page: evidence request *)

\* Mutant: a package that is closed is not looked at.
unclosed_packages(a) ==
    {p \in DOMAIN packages : packages[p].assessment = a /\ packages[p].status # "Closed"}

packages_of(a) == {p \in DOMAIN packages : packages[p].assessment = a}

\* The whole panel is shown for a review that has gaps.
shown(gaps) == gaps # {}

newest(a) == {p \in packages_of(a) : \A o \in packages_of(a) : o <= p}

\* The newest package of the review, if any, and how far the evidence there is
\* now satisfies it.
open_request(t) ==
    LET r == run[t]
        page(p, status, complete) ==
            [stage |-> "Request", assessment |-> r.assessment, gaps |-> r.gaps,
             day |-> today, seen |-> Len(packages),
             package |-> p, status |-> status, complete |-> complete]
    IN  /\ r.stage = "Plan"
        /\ shown(r.gaps)
        /\ \/ packages_of(r.assessment) = {} /\ go(t, page(0, "None", FALSE))
           \/ \E p \in newest(r.assessment) :
                go(t, page(p, packages[p].status,
                           reconciliation_complete(packages[p].requested,
                                                   evidence, today)))
        /\ UNCHANGED <<events, assessments, packages, evidence, today>>

create_request(t) ==
    /\ run[t].stage = "Request"
    /\ run[t].package = 0
    /\ Len(packages) < MaxPackages
    /\ packages' = Append(packages,
         [assessment |-> run[t].assessment, requested |-> run[t].gaps,
          status |-> "Draft", seen |-> run[t].seen])
    /\ go(t, Idle)
    /\ UNCHANGED <<events, assessments, evidence, today>>

\* An edge of the request's life, taken from the status that was read.
transition(t, next) ==
    /\ run[t].stage = "Request"
    /\ can_transition_request(run[t].status, next)
    /\ packages' = [packages EXCEPT ![run[t].package].status = next]
    /\ go(t, Idle)
    /\ UNCHANGED <<events, assessments, evidence, today>>

mark_sent(t) == transition(t, "Sent")
mark_received(t) == transition(t, "Received")
close_request(t) == run[t].stage = "Request" /\ run[t].complete /\ transition(t, "Closed")

-----------------------------------------------------------------------------
(* Around the pages *)

\* A page that submits nothing, a form that is refused, or a save that fails.
end_run(t) ==
    /\ run[t] # Idle
    /\ go(t, Idle)
    /\ UNCHANGED <<events, assessments, packages, evidence, today>>

register_evidence(t, document) ==
    /\ may_open(t, "evidence.upload")
    /\ Len(evidence) < MaxEvidence
    /\ evidence' = Append(evidence, document)
    /\ UNCHANGED <<events, assessments, packages, today, run>>

advance_day ==
    /\ today < MaxDay
    /\ today' = today + 1
    /\ UNCHANGED <<events, assessments, packages, evidence, run>>

Init ==
    /\ events = <<>>
    /\ assessments = <<>>
    /\ packages = <<>>
    /\ evidence = <<>>
    /\ today = 0
    /\ run = [t \in Tabs |-> Idle]

Monitoring(t) ==
    \/ \E e \in EventIds : record_event(t, e)
    \/ start_monitoring(t)
    \/ \E e \in EventIds, action \in Actions : decide(t, e, action)
    \/ commit_decision(t)

Review(t) ==
    \/ \E a \in DOMAIN assessments :
         start_assessments(t, a) \/ \E done \in BOOLEAN : update_assessment(t, a, done)
    \/ confirm_scope(t)
    \/ open_request(t)
    \/ create_request(t)
    \/ mark_sent(t)
    \/ mark_received(t)
    \/ close_request(t)

Next ==
    \/ \E t \in Tabs : Monitoring(t) \/ Review(t) \/ end_run(t)
    \/ \E t \in Tabs, document \in Library : register_evidence(t, document)
    \/ advance_day

Spec == Init /\ [][Next]_vars

-----------------------------------------------------------------------------
(* Properties *)

\* Every variable keeps its type; a package never asks for nothing.
TypeOK ==
    /\ DOMAIN events \subseteq EventIds
    /\ events \in [DOMAIN events -> EventRows]
    /\ assessments \in Seq(AssessmentRows)
    /\ packages \in Seq(PackageRows)
    /\ evidence \in Seq(Library)
    /\ today \in Nat
    /\ run \in [Tabs -> Runs]

\* An event that is in review has an assessment of the kind that was decided on:
\* its own, or one of an event whose number begins with its number.
InReviewHasAssessment ==
    \A e \in DOMAIN events : events[e].status = "In Review" =>
        \E a \in DOMAIN assessments :
            /\ assessments[a].type \in plan_material_action(events[e].action)
            /\ contains_marker(assessments[a], e)

\* Nothing keeps two runs from each making a request for one review: no lock and
\* no constraint.  But a second one, whatever became of the first, comes only
\* from a run that looked for requests before the first was there.
AskedTwiceOnlyByOverlap ==
    \A p, q \in DOMAIN packages :
        p < q /\ packages[p].assessment = packages[q].assessment
        => packages[q].seen < p

Closing(p) ==
    packages[p].status # "Closed" /\ packages'[p].status = "Closed"

\* When a request is closed, every document that stood for a requested item on
\* the day the page was read was current and trusted, and still is the one that
\* stands for it: no evidence that came after the page was read takes it back.
ClosedWhenSatisfied ==
    [][\A p \in DOMAIN packages : Closing(p) =>
         \E t \in Tabs :
            /\ run[t].stage = "Request"
            /\ run[t].package = p
            /\ \A r \in packages[p].requested :
                 workflow_action(r, evidence, run[t].day) = "Reuse"]_vars

\* Registering evidence never changes what there is to do for a requirement that
\* has current evidence: nothing is taken back, and nothing is repaired either.
CurrentEvidenceStays ==
    [][\A r \in Requirements :
         (\E e \in matching(r, evidence) :
              status_for_evidence(evidence[e], today) = "Satisfied")
         => workflow_action(r, evidence', today) = workflow_action(r, evidence, today)]_vars
=============================================================================
