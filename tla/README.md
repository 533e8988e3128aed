# Verification of the LMA Vendor Trust Intelligence platform

TLA+ modules that model the parts of this platform in which the order of steps
matters, the TLC configurations that check them on small instances, and
theorems about them that the TLA+ proof system checks for every instance.
Paths are relative to the repository (`src/` is its root: `src/app.py` is the
Streamlit application, `src/src/` its package).

    cd tla
    tlc -workers 2 -config risk_serial.cfg MCRiskActivation.tla     # a run
    tlapm RiskActivation_proofs.tla                                 # a proof module

`PROJECT.json` lists the runs, what each checks, the source lines behind every
definition, the known hazards, and for every property a plausible bug
(a *mutant*, an operator defined next to the one it changes) that breaks it.

## 1. The system

The platform supports third-party risk analysts. A vendor is entered through
intake, its evidence documents are registered, claims about controls are
confirmed from them, controls get dispositions, these govern the vendor's
residual risk, and monitoring events reopen what was decided. Beside the
application lies a sign-in and tenant layer that no page uses yet. Three pages
(control assurance review, New Assessment, guided demo) keep all their work in
the browser session and write no row.

**How it runs.** Every click makes Streamlit run `app.py` from the top with a
new database session (`app.py:217`): the page reads rows, evaluates policies,
and, if a form was submitted, writes and commits; an exception rolls back. The
session has `autoflush=False` and no row versions, takes no locks, hands back
the attributes it loaded first whenever it meets a row again, and its UPDATEs
name only the columns that changed. The database isolates no more than single
statements (SQLite, or PostgreSQL READ COMMITTED). So a *run* (read, decide,
write) in one browser tab interleaves with the runs in others at every query, and
this is where most of the hazards are. The sign-in layer is ordinary threaded
Python: stores that are atomic under a lock, and managers that call them
several times with a clock reading in between. The tenant reads are
transactions that do take locks. In the three browser-only pages the hazard is
Streamlit itself: the next gesture stops a run wherever it touches the session
state, so a handler may have written half of its keys.

| Component | State | Operations | Hard because | Correct when | Module |
|---|---|---|---|---|---|
| Permissions (`authz.py`) | none | `can`, `require` | checked in every service | who may not, does not | `Authz` |
| Risk policies RR-2.0, CE-1.1, CEG-1.0, RRA-1.0, RAV-1.0 | none | pure functions | thresholds of three policies meet | an activation that is ready is valid | `RiskPolicy` |
| Residual risk activation, revalidation cases | vendor score and rating; reviews, executions, cases | review, execute, open a case | stale rows, races on uniqueness, redeployments | what takes effect is what was reviewed | `RiskActivation` |
| Monitoring's effect on the score | the same row | record an event | overwrites an activation | score and rating agree | `RiskActivation` |
| Server sessions (`server_sessions.py`) | records per handle | issue, authenticate, rotate, revoke | threads, clock, outages, capacity, restart | one handle per sign-in, fixed deadline | `ServerSessions`, `SessionContract` |
| OIDC sign-in (`oidc_login.py`) | pending transactions, remembered codes | begin, finish | racing, late, mixed-up callbacks; two clocks | one session per sign-in, for its subject | `OidcLogin` |
| Control claims, sufficiency, dispositions, basis | claims, dispositions, evidence | confirm, decide, backfill | stale pages, two analysts, expiry | a recommendation is proven by what it cites | `ControlPolicy`, `ControlGovernance` |
| Monitoring and material change, targeted review, evidence request | events, assessments, packages, evidence | record, decide, confirm scope, request, send, receive, close | stale pages, two tabs, text matching, gaps that vanish | nothing closed unsatisfied, asked again only by overlap | `TargetedReviewPolicy`, `TargetedReview` |
| Approval workflow, decision gate | assessments, approvals | gate, approve, override | gate read query by query, then one commit | no blocker that stood all along is missed | `VendorDecision` |
| Evidence page | evidence rows, upload in the browser | choose, analyze, register | two commits, a file swapped under its analysis | findings and analysis are of this document | `VendorDecision` |
| Findings, remediation, escalation | findings | create, update, escalate | column-wise UPDATEs of two users | every change is in the audit log | `VendorDecision` |
| Audit log | audit rows | record, deduplicate | check then insert | no change without its row | `VendorDecision` |
| Intake | vendor, engagement | create | two commits | what is audited is whole | `VendorDecision` |
| Tenant-scoped reads, membership guard | memberships, grants, engagements, vendors, locks | read, revoke, move | revocation during a read, queues for locks | what is returned was visible at one moment | `TenantRows`, `ReadContract`, `TenantRead` |
| Evidence access, session identity source | the same rows, issued metadata | preflight, identify | read without locks, session ends in between | metadata outlives its grounds by a minute at most | `TenantRead` |
| MFA review (M3A-M3C), control assurance review (M3D) | reviews in the browser session | confirm, challenge, triage, acknowledge | two reviewers, packages reloaded | met only by decisions of this stay | `ReviewSessions` |
| Upload assessment | draft, evaluated model, annotations, completion | attach, declare, evaluate, annotate, finish | seven writes of one button | the report is of the files as they are now | `AssessmentLedger`, `UploadAssessment` |
| Guided demo | scenario, evidence, annotations, completion | walk, replay, annotate, finish | buttons that carry an earlier run's model | finished is current | `AssessmentLedger`, `GuidedDemo` |
| Worklist, reassessment recommendation | none | pure projections | | | not modelled |
| Document parsing, AI drafts, storage, migrations, rendering, seed | files | | I/O and wording | | not modelled |

The components interact through the database, never by messages: dispositions
feed control effectiveness, which feeds the activation decision; monitoring
events write the score an activation set and open reviews; evidence rows feed
claims and work plans. `RiskActivation`, `ControlGovernance` and
`TargetedReview` each own the tables they write and take the few facts they
read from other tables as inputs that change at any time (dispositions and
guardrail conditions in `RiskActivation`, the residual score and the statuses of
reassessments in `VendorDecision`), so that each covers every behaviour of the
others it could meet. The sign-in layer meets the tenant reads in the session
store alone: `TenantRead` takes from `SessionContract`'s promise that a session
which has ended stays ended. The browser-only pages share a session and nothing
in it; `BrowserSession` puts them side by side.

## 2. The modules

Names follow the source. Where a module names an operator of the code, the
comment above it says what it does and `map` in `PROJECT.json` gives the lines.

### Residual risk: `RiskPolicy`, `RiskActivation`

`RiskPolicy` holds the pure policies as operators: the residual formula and
rating bands of RR-2.0 with its guardrails, control effectiveness CE-1.1, the
input it selects (CEG-1.0), reconciliation, the activation decision RRA-1.0 and
its validity RAV-1.0. Scores are in tenths, as the code rounds them.

`RiskActivation` is one vendor row and the logs around it. Its actions:
`start_run` (a run loads the vendor row), `render`, `evaluate_activation`,
`save_residual_risk_activation_review`, `check_activation` and
`execute_residual_risk_activation` (RAE-1.0: the checks, then the UPDATE and
the commit), `build_revalidation_case_snapshot` and `open_revalidation_case`,
`monitoring_create`, `rollback`, and the changes other pages make:
`save_control_disposition`, `update_assessment`, `change_condition`,
`close_incident`, and `redeploy`, which installs a new policy version and ends
all runs. An UPDATE writes only the columns that differ from what the run
loaded (`update_vendor`), which is how rows of two writers can mix.
Abstractions: what a run reads beside the vendor row is read in one step, since
every other writer commits to one table at a time; a redeployment of any policy
stands for one reason, POLICY_VERSION_OUTDATED; a case never leaves status
Open because no code sets another one.

### Server sessions: `SessionContract`, `ServerSessions`

`SessionContract` is the promise: a handle is opened once and, once retired,
stays retired; a rotation moves the session to a new handle; a request is
accepted only if its handle was live at some moment after the request was made.
`ServerSessions` is `SessionManager` over `InMemorySessionStore`, one action
per store operation under the lock and per clock reading, with request threads,
a wall clock that may step back, store outages and restarts. `Implements` is
the contract under a refinement mapping (`records` to `live`, handles once
stored to `ever`). A handle is random, so an unused one is drawn and nobody
presents one they were not given. The session id is not kept apart from the
handle. `InTurnSpec` restricts `Spec` to requests that come one after another
with each handle and a clock that is not set back: what it takes for a live
session to be kept, which `Spec` does not do.

### Sign-in: `OidcLogin`

`LoginService.begin` and `finish`, `InMemoryLoginTransactions` (create,
consume with its pruning, code memory and shared capacity) and
`IDTokenVerifier`'s checks of a token's times: `iat`, `exp`, `nbf` if it has one,
and, if the age of a sign-on is limited, an `auth_time` there must be. The
provider mints tokens by a clock of its own, may state `nbf` and when the subject
signed on, and browsers return twice, late, or with the parts of two sign-ins.
Cryptography, issuer, audience and endpoints are taken as right. A deployment
(deadlines, capacity, skew, the provider's drift, what its tokens state) is chosen
at the start from the constant `Deployments`; it never changes.

### Tenant reads: `TenantRows`, `ReadContract`, `TenantRead`

`TenantRows`: the rows and what they entitle an identity to. `ReadContract` is the
promise of a read in four steps: asked; vouched for by a session that is live
after the question; decided, which fixes the rows visible at that moment; ended.
`TenantRead` is `TenantReadService` and the evidence preflight statement by
statement, on PostgreSQL (READ COMMITTED) or SQLite: identify (session, query,
session again), the shared guard of the identity or BEGIN IMMEDIATE, five SELECT
... FOR UPDATE in the order memberships, grants, the organization, engagements,
vendors, the projection (read twice and compared, or for `visible_counts` counted
once, the action `count`), a second identification, the validation
of scope and relationships, the windows by a last clock reading, and the commit.
Writers are one statement of anybody's SQL: row lock, trigger with exclusive
identity locks, write; a row that refers to another takes a key lock on it
(`Key`), which the organization's FOR UPDATE holds off: without it a vendor, on
which no lock holds off what is not there yet, could move in behind the queries. A
shared request queues behind an exclusive one that waits; a reader that waits may
time out. `Implements` is the contract with `asks` computed from the step a reader
is at. The preflight takes no lock, so the contract does not speak of it;
`MetadataShortLived` does. Abstractions: a statement locks all its rows at once;
assessments and evidence hang on an engagement by the same joins and are not kept
apart from it; a window is its end; `last_entitled` is history.

### From intake to approval: `VendorDecision`

One vendor: its row and engagement, reassessments, evidence, findings, approvals
and the audit log. A run of the vendor page reads the profile, evidence,
findings and reassessments in four steps and then records a decision or is
displayed; intake and the registration of a document commit twice; a findings
run merges the columns it changed (`merged`) over the row as it is by then; a
run may die before any of its commits (`end_run`). `record_audit_event` drops a
repeat of an actor's event within `Window`. The override's check box exists only
if the last run displayed it (`shown`). `standing` is history: the blockers
there were at every moment since a run began. Abstractions: scores and
extractions are inputs; a file is what its SHA-256 tells apart; monitoring's
effect is another residual score.

### Browser sessions: `ReviewSessions`, `AssessmentLedger`, `UploadAssessment`, `GuidedDemo`, `BrowserSession`

`ReviewSessions`: the control assurance page. A package is its draft facts, the
exception signals of its documents and whether a document is limited; a fact is
what it says of the customer's threshold, about whom, by what kind of source: the
verified kinds establish it, policy and assertion leave it unknown. The
evaluators (MFA, TLS, DR, and families without one) are operators of the package
and the review; the review is kept under the case and the package's digest, and
`render`, which every action ends in, drops one kept for anything else. A
development server may reload edited packages (`reload`). `stay` is history: the
decisions since the package came up. Left out: facts declared inactive and
refusals of exact repeats; a run that is cut on that page loses only its click,
since it writes one key.

`UploadAssessment`: every callback and button of the five stages. `gesture` is a
callback and a run, or a callback whose run is cut; `handler` is a button's writes
one after another, any of which may be the last; `leave_page` forgets widgets. A
model stands for the files it is built from with what is declared of each, which is
all that the fingerprints of its rows and its report depend on; a declaration may be
one that no file is read with (`Refused`), as when its scope is missing, and what
correcting it from the document makes of it is `Stated`. Creating an assessment
clears what there is, taken whole (the button is drawn only while there is no
assessment to clear), and then writes four keys, any of which may be the last:
`screen` is then "Failed" where the page asks for a key that is not there, "Start"
before there is an intake, and "Held back" while a pending change hides the later
stages. `Interrupted` is one cut among these, of Evaluate between its writes of the
model and of the uploads; `UninterruptedSpec` is `Spec` without that one step.
`GuidedDemo` is the walkthrough in the same style, its buttons carrying the model of
the run that drew them. `AssessmentLedger` is what both share: annotations bound to
a row's fingerprint, and a completion bound to model and history.

### Control governance: `ControlPolicy`, `ControlGovernance`

`ControlPolicy`: which candidates a document gives, when a claim may be
generated and accepted (CG-1.1, CCR-1.0), the sufficiency of a control (CS-1.0)
and the recommended disposition (CD-1.0). `ControlGovernance`: a run reads the
evidence, then the claims, and saves a claim or a disposition, which others see
when it is committed; a disposition is saved only with a basis (CBE-1.0); the
backfill verifies old rows. Abstractions: a document is known by what the
policies ask of it; `ExpiryWindow` stands for 60 days; manual evidence and the
document-level fallback are left out (once any claim is accepted every control
takes the control-level path); the fields `page` and `day` of a disposition are
history, for the properties only. The override of the basis has no caller and
the application never calls the backfill; the latter is modelled because its
function is public and tested.

### From an event to a request: `TargetedReviewPolicy`, `TargetedReview`

`TargetedReviewPolicy`: the recommendation for an event, what an analyst's action
does, the scope of a targeted review, which document stands for a requirement, what
there is to do for each (`workflow_action`), and the edges of a request's life.
`TargetedReview`: the Monitoring page (`record_event`, `start_monitoring`, `decide`,
`commit_decision`) and the Assessments page (`start_assessments`, `confirm_scope`,
`update_assessment`, `open_request`, `create_request`, `mark_sent`, `mark_received`,
`close_request`), with evidence and days arriving at any time. The application has
one principal, named in its environment (`auth_context.py`), and no lock: `Tabs` are
the browser tabs in which that principal's runs overlap. The run in flight carries
what the page has read, and a request keeps in `seen`, as history, how many requests
there were when the run that made it looked. Abstractions: requirements that a scope
asks for together are one; controls, exclusions, rationales and materiality are
texts; evidence comes back in the order of its ids (the query names none); "done"
stands for the statuses Completed and Closed; packages, evidence and assessments are
each written by one kind of step, so reading two of them in one step loses nothing.

`Authz` has the roles and permissions all of these check.

## 3. The runs

| Run | Instance | Question |
|---|---|---|
| `risk_serial` | 1 user, 2 assessments, 1 control, 2 reviews, 1 event | do score, rating, activation and case agree at every commit when runs never overlap? |
| `risk_concurrent` | 2 risk managers, 1 assessment, 1 review, 1 event, 1 redeployment of RR-2.0 | do the logs stay right when runs overlap? |
| `risk_stale` (violation) | 2 users, 1 review, 1 event | does an activation replace the score it was reviewed against? |
| `sessions` | 2 threads, 3 handles, capacity 1, idle 2, absolute 3, clock 0..3 that steps both ways, any outage | does the manager implement the contract, evict nobody, and leave no record behind? |
| `sessions_overlap` (violation) | the same without outages, clock 0..4 that only goes forward | does a session inside its deadlines outlive two requests that overlap? |
| `login` | 2 threads, 3 sign-ins, store of 2, 2 codes; or one sign-in with a provider's clock off by the skew, tokens with `nbf` and `auth_time`, sign-ons of up to 2 ticks ago | does every sign-in get at most one session, the right one, in time, and are honest tokens accepted? |
| `governance` | 2 analysts, 2 controls, 2 documents, 3 rows, days 0..2, one old row | is what is recommended proven by what is cited? |
| `review` | 2 tabs of one principal, events #1 and #10, 2 assessments, 2 packages, 2 of 3 documents, days 0..1 | do racing decisions, confirmations and requests keep the review consistent? |
| `tenant` | 2 readers, 1 writer, 2 memberships, 2 grants, 2 engagements, 2 vendors of which either is the organization's, clock 0..2, both databases, 1 statement of the writer | is what a read returns authorized at one moment, and does every read end? |
| `vendor` | 2 users, 2 files of one name, 2 requirements, 2 findings, 1 reassessment, 1 approval, clock 0..2 | does the gate see what stands, is everything audited and registered whole? |
| `browser` | 9 packages of 4 families in 2 versions; 3 files, 2 of them of one name and 1 unreadable, 3 declarations of which 1 is refused, 1 annotation; 2 scenarios and 2 profiles; every cut but `Interrupted` | is a result on the screen always the result of what is in the session? |
| `browser_cut` (violation) | the same with every cut | is the page of an evaluation that of the attached files, wherever Evaluate is cut? |

**Why the bounds are enough.** Two actors are what every race in this code
needs: each is a read of one run and a write of one other. `login` has one
sign-in more than the store holds, `sessions` two handles more than the
capacity, and `governance` room for a claim, a disposition and a second claim
that replaces the first. Deadlines of two and three ticks leave room for a use
inside, at and beyond each of them; the drifting deployment of `login` runs its
clock past the transaction's and both token windows. Days 0..2 put a document
before, on and past its last day; in `review`, where 60 days are 0, day 0 is
"expiring soon" and day 1 "expired" for the same document. Events #1 and #10 are
the smallest ids of which one's text begins the other's. Two packages in `review`
are a request and the second one that only an overlap can make, and one does.
`tenant` needs one write: a read is authorized by rows that one statement can
withdraw, move or duplicate (a second current membership denies as well), and
the write may fall between any two of its statements; at first the
vendor of the granted engagement is the organization's, or the other one is, so
that a vendor may move in as well as out. `vendor` has a blocker of
each kind, a repeat inside and one outside the audit window, and a document with
two exceptions. In `browser` a package has two of the dimensions that a threshold
requires, enough for none, some or all to be met; three files pass the limit of
two.

Slices, stated as constraints in the MC modules, explore sums of small instances
instead of their product where parts do not interact: in `review` two events and two
assessments without packages, and packages and evidence with one assessment (a
decision reads no package, and a package belongs to one assessment); in `login`
races or clocks; in `tenant` one reader over everything, two readers for the lock
they share; in `vendor` the gate over evidence, the gate over a finding and a
reassessment, a finding over time, and registration; in `browser` one page of the
three, and New Assessment with every file and no annotation or with one file and a
finding. Symmetry is used for users in `governance` and `vendor`, for tabs in
`review`, for threads and handles in `sessions` and `sessions_overlap`, and for
threads, states and codes in `login`, never in a run that checks liveness; no
configuration gives any of them a role of its own.

All runs check for deadlock where the configuration does not say otherwise. A
model's bounded counters do end behaviours, but a user can always start a run;
`tenant` has no user, and does stop when its writes and its clock are used up.

**Fairness and liveness.** `TenantRead` states `FairSpec`: weak fairness for the
steps of a read that was begun, its lock timeout among them (a service call runs
to its end in its thread, and PostgreSQL or SQLite ends a statement that waits
too long), and for a writer's statement that waits for an identity lock (the
lock manager grants requests in turn). Writers, users, the clock and the end of
a session are not fair: a writer may keep its row lock for ever.
`EveryReadEnds` holds through the timeout although an UPDATE locks its row before
its identity and readers the other way round; `GuardIsGranted` holds because
later readers queue. Elsewhere no fairness is assumed and no liveness is
checked: every step waits for a click, a request or a callback, and nothing in
the code promises that one comes.

## 4. What the runs show

### Properties that hold

*Residual risk.* Under overlap: a review is executed at most once and an execution
has at most one case (only a UNIQUE constraint stands behind either); an execution
records exactly what was approved; no review outlives its policies. Without overlap
also: the score's rating is that of the score, an activation replaces the score it
was reviewed against and takes effect, and a case is opened on what is current.
*Sessions.* The manager implements the contract under every interleaving, outage and
clock; a sign-in never has two working handles; a record nobody can present is left
behind only when the store fails the withdrawal or removal of it; a sign-in that
finds the store full ends nobody's session. That a session inside its deadlines ends
only with its client or the process is proved of requests that come in turn under a
clock that is not set back, and fails otherwise (`sessions_overlap`). *Sign-in.* One
session per sign-in, for the subject the token was minted for, verified within all
deadlines; no token older than its window is taken, and an honest one within the
skew is turned away only if by our own clock it has expired, does not hold yet, or
its subject signed on too long ago. *Governance.* What a disposition recommends is
proven by the claims it cites as of the day and the claims its page read, unless a
cited claim is newer than the page; nothing is recorded for a control that no claim
supports; the basis of a verified row never changes. *Targeted review.* An event in
review has a review of the right kind, its own or that of an event whose number
begins with its number; a second request for a review comes only from a run that
looked before the first was there; what is closed was satisfied, and stays so under
whatever is registered later. *Tenant reads.* A read implements its contract
whatever is revoked, moved or ends between its statements; the rows it returns are
exactly what its identity may see at the commit; a preflight's metadata outlives its
grounds by a minute at most. *Approval.* A blocker that stood for a whole run is
among the reasons its approval is stored with; nobody overrides a gate unless the
page last shown to him had something against an approval; a change of a finding's
status or target is in the audit log with its values and author, also when a repeat
was dropped; what is audited as registered is whole; an analysis is of the file it
is stored with. *Browser sessions.* A package meets its requirement only by
decisions taken in this stay with it. As long as Evaluate is not cut between its
writes of the model and of the uploads: a page behind the upload stage shows the
model of the files as they are attached and declared now, and none of them is
refused; a review shown as completed is of what stands. With that cut neither holds
(`browser_cut`).

### Disagreements with the code's own documents

Each is a run that TLC finds violated, listed under `findings`.

* `risk_stale`: an activation commits over a score that another user changed
  after this session loaded it; the docstring says the score must still match.
* `sessions_overlap`: two requests with one handle overlap; the one that read the
  clock first reaches the store second, finds a last use later than its reading
  and deletes a session that is inside both deadlines. The documentation lists
  what denies a read; this is none of it.
* `browser_cut`: Evaluate writes the model before the uploads it came from. Cut
  between the two, and with the proposal then taken back, nothing is pending and
  the later pages show the model of files that are not attached. The
  documentation has pending changes block completion until they are evaluated.

### Known, and seen in the models without a run

* CEG-1.0 governs from 80 percent coverage and RRA-1.0 activates, RAV-1.0 asks for
  100: between the two an activation needs revalidation as it commits, under the
  comment "Governed control basis has deteriorated"
  (`src/residual_risk_activation_validity.py:127`). `ReadyIsValidWhenCovered` proves
  that the policies agree at every other coverage.
* The evidence that satisfies a request removes the panel that has the Close
  button: a request that named every gap stays Received (`app.py:5548`, the guard
  of `close_request`), although the page means a complete one to be closed
  (`app.py:6014`).
* Two tabs that confirm one scope at once: the later replaces the earlier without
  having seen it. Two that create a request make two, and only the newest is ever
  shown again (`AskedTwiceOnlyByOverlap` says that nothing else makes a second).
* A request that dawdles past the idle deadline between its store step and its
  second reading of the clock withdraws the session, also when another request
  refreshed it meanwhile.
* A creation of an assessment that is cut between its writes leaves one without a
  model or annotations, on which Evaluate and the later stages fail (KeyError)
  until it is cleared.
* Guardrails are not evaluated again at execution, which takes the blocking
  reasons stored with the review; the page (`src/app.py:2840`) says the service
  "revalidates eligibility".
* Column-wise UPDATEs of two runs can leave a score with another score's rating
  (`risk_serial` shows the rating right without overlap), and an event in review
  with `requires_review` off when another analyst dismissed it meanwhile, which
  takes it off the control tower.
* The value approved on the page is not compared with the one recomputed at the
  submit; the review records the latter.
* A control with status UNSUPPORTED is offered for a decision and can never get
  one, for it cites no evidence and so has no basis. A control-and-document pair
  with an accepted claim cannot be reviewed again.
* A disposition keeps the basis of a claim that was replaced later.
* A request may be set back from Received to Sent by a run that read it earlier.
* Event #1's decision takes an open review of event #10 for its own. It then
  opens none.
* Two users who escalate one finding at once may leave one's name with the
  other's time, as each UPDATE names only the columns that differ from what its
  run read. Of Closed, Open, Closed by one user within five seconds the last
  audit row is dropped as a repeat of the first.
* The override's acknowledgement is given for the reasons the last page
  displayed; the run that stores it may have found others.
* A run that dies between intake's commits leaves a vendor whose gate does not
  ask for its engagement's evidence. An approval may be recorded between the
  commit of a document and that of the findings it gave rise to.
* `docs/Guided_Assessment_Demo.md:114` has a change of scenario start afresh; a
  scenario that Streamlit resets because its page was left keeps the replayed
  evidence and the annotations.
* Two scopes list a sentence ("All other current evidence remains reusable") as
  evidence; it matches no document and is requested from the vendor for ever.
* Data labelled PHI, card data or credentials adds nothing to the exposure of a
  vendor: the list of sensitive labels has "Confidential" in common with
  intake's and no other.

## 5. What is proved

For every value of the constants that satisfies the modules' named ASSUMEs, and
for every number of users, threads, rows and days; the theorems are listed under
`theorems`.

**`RiskActivation_proofs`.** Inductive invariant `IInv`: `TypeOK`; every review
records one decision consistently (`ReviewsSound`); every run in flight carries
what its checks established (`RunSound`: an executing run holds a review that
was executable, under the policies now deployed, because a redeployment ends
all runs); and the four log properties. `ExecutionMatchesReview` alone is not
inductive: at the commit only the run knows what was checked. From `IInv`:
`TypeOK`, `ExecutionMatchesReview`, `AtMostOneExecutionPerReview`,
`CaseTriggerSound`, `OneCasePerExecution`, `ActivatedRatingFollowsScore` and the
action property `ActivationUnderCurrentPolicy`. Uniqueness rests on the UNIQUE
columns, a guard of the insert. The arithmetic lemmas bound scores and coverage
so that types are kept.

The four properties of `risk_serial` are no theorems of `Spec`, which
`risk_stale` refutes; they are theorems of `Spec /\ []Alone`, where `Alone` says
that no two runs are in flight at once, for any number of users. `SerialInv`
adds to `IInv` that what a run has read is what is committed (`UpToDate`): a step
that writes the row ends the only run there is. `ReadyIsValidWhenCovered` bounds
the other disagreement: what RRA-1.0 calls ready RAV-1.0 calls valid, at every
coverage but 80 to 99 percent.

**`ServerSessions_proofs`.** Inductive invariant `HandlesInv`: a drawn handle is
in nobody's hands until its store step, two threads never hold the same drawn
handle, everything stored, returned or worked on was opened, and a sign-in has
at most one record. From it: `TypeOK`, `OneHandlePerLogin`,
`SessionNeverChanges`, `LastSeenOnlyForward`, and `Implements`: the initial
state maps to the contract's, and every action to a step of it or a stutter.
`GivenInv` goes further into who knows a handle: it is with its client or with
the one operation that drew it, never with both. From it `NoOrphans`,
which compares a record with the clients that could use it; `NeverEvicted` needs no
more than types. `LiveSessionIsKept` is no theorem of `Spec`, which
`sessions_overlap` refutes, but of `InTurnSpec`, by two more invariants: nothing was
read or seen later than now (`ClockInv`), and what a request has read of a record
still stands when it comes to write (`TurnInv`).

**`OidcLogin_proofs`.** Inductive invariant `LoginInv`: beside `TypeOK`, a
transaction is pending only until its state is first presented (`StoreInv`); each
call in flight carries the deadline of its own sign-in, and a code or token that the
provider gave for what it says (`CallsInv`); whoever is past consume() is the first
caller with that state and there is no session for it yet (`FlightInv`); and what
held of a call when it issued its session holds of the session (`SessionInv`). From
it `TypeOK`, one session per sign-in and per code, `SubjectOfThisSignIn`,
`VerifiedInTime`, and on the two clocks `HonestTokenAccepted` (over all four checks
of a token's times) and `NoStaleToken`, for any time to live, skew, lifetime, age of
a sign-on and drift that `DeploymentsAssumption` allows.

**`ControlGovernance_proofs`.** Inductive invariant `GInv`, in four parts beside
`TypeOK`: committed claims have ids of their own, below the next one
(`ClaimsInv`), and so has a claim that is saved and not yet committed
(`SavedInv`), so that "the latest claim" is well defined; what a page has read was
true once, because rows are only ever added (`PagesInv`); and a disposition is
coherent and proven from the moment it is saved, before others can see it
(`RowsInv`). The properties speak of committed rows, which is why they are not
inductive themselves. From it: `RecommendationIsProven`,
`UnsupportedIsNotDecided`, `BasisIsCoherent` and `VerifiedIsFinal`.

**`TargetedReview_proofs`.** Inductive invariant `RInv`: beside `TypeOK`, for each
run in flight, what it relies on that it read before (`RunInv`): the event it
decides on was open; the review its decision does not open exists; a run that found
no request for its review was right about those there were when it looked; and what
made a request complete may still be reused. `AskedTwiceOnlyByOverlap` and
`ClosedWhenSatisfied` speak of rows and of one step, and only the runs know why they
hold. What a run relies on is never taken back while it is in flight (`Grows`): rows
are only added, their keys never change, and registering a document, which comes
last in the order of ids, replaces nothing of the best status (`BestStays`,
`ActionStays`). From it: `TypeOK`, `InReviewHasAssessment`,
`AskedTwiceOnlyByOverlap`, `ClosedWhenSatisfied` and `CurrentEvidenceStays`.

**`VendorDecision_proofs`.** Types need three parts, since a run acts on rows it met
earlier (`RunsInv`) and the log is searched for its latest row (`LogIsFinite`).
`RegistrationInv` says of every evidence row which of its exceptions are findings:
all of them if its registration is in the log, none otherwise, whether its run is
still on the way or has died. `GateInv` carries the argument of the gate: what has
been in the way since a run began is, kind by kind, in what its queries have read so
far; a blocker that was there all along was there when its own query ran.
`ShownInv`: an acknowledgement is only displayed next to a blocker, which need not
be the one the run that stores it finds. Together they are `VendorInv`; from it
`TypeOK`, `RegistrationIsWhole`, `AnalysisOfThisFile`, `GateSeesStandingBlockers`,
`OverrideWasShown` and `ChangesAreAudited`. The last needs that a repeat which is
dropped has a row with the same values and author inside the window.

**`TenantRead_proofs`.** The argument is about locks. No two transactions hold a
lock that they may not share (`LockInv`); a writer has locked what it is about to
write (`WriterInv`); and at each statement a read has locked what its queries
returned so far (`ReadInv`, in `Frozen` one line per statement), so that what it
read is still what is committed. With `MetadataInv`, on the clock readings that
the preflight works by, they are `TenantInv`. From it `TypeOK`,
`HeldUntilIssued` and `MetadataShortLived`. `Implements` goes statement by
statement: asking, being vouched for, deciding and ending are steps of the
contract, every other statement is a stutter; the decision is the last reading
of the clock, where `Frozen` says that the rows are those visible at that moment.
The attempts to prove this corrected the model: the lock on the organization was
missing (a vendor could move in behind the queries), and so were the duplicates
that a unique key refuses; and two bounds did not bound what they named.

**`BrowserSession_proofs`.** Three invariants, one per page, since no page writes
the keys of another. `ReviewInv`: what is saved under the key of the case on the
screen was decided in this stay, about the package on the screen (`OnScreen`,
which is why a changed package must drop it), and every decision in it is one its
reviewer allows (`Confirmable`). `UploadInv`: unless the uploads are marked
changed, nothing proposed differs from what was evaluated (`Marked`), and no page
but the first is reached before an assessment exists (`Fresh`). Every callback
keeps this, so do the seven writes of Evaluate wherever they are cut off
(`TakenOver`: once the uploads are taken over, what is still pending changes
nothing), and a run held back by the mark shows nothing. `DemoInv`: a whole page
shows a completion of the walk as it stands, because the run that drew it dropped
any other. From them `TypeOK` and `MetIsEarned`. `NothingPendingBehindReport` and
`FinishedIsCurrent` compare the model with the files as they are now and so need
`Matched`: the model, if there is one, is that of the uploads. It holds of
`UninterruptedSpec`, where they are theorems, for histories of any length; the one
step left out breaks it, and them (`browser_cut`).

**Assumptions.** What the proofs assume of the constants is in the named ASSUMEs,
which TLC evaluates in every run: sizes are natural numbers, sets of ids are
finite where they are counted, a value that stands for "nothing" is none of the
values. Three say something of the code. `RetentionAssumption`: a used code is
remembered at least as long as a transaction lives (15 minutes against at most
300 seconds, `oidc_login.py:239` and `:200`). `InitialAssumption`: the tables start
without duplicates, as their UNIQUE constraints have it. `TransactionsAssumption`:
a transaction reads or writes, never both.

**Proved and no longer run.** `TypeOK` of the first four modules,
`ActivatedRatingFollowsScore`, `OneCasePerExecution`, `SessionNeverChanges`,
`LastSeenOnlyForward` and `VerifiedIsFinal` are theorems
of their specifications for every instance; the runs leave them out.

**Only model-checked.** The liveness of `TenantRead` (`EveryReadEnds`,
`GuardIsGranted`): fairness is out of the prover's reach. Every other property of
a run that passes is a theorem: those of `risk_serial` under `Alone`,
`NothingPendingBehindReport` and `FinishedIsCurrent` of `UninterruptedSpec`, the
rest of `Spec`. The three that a run finds violated are theorems under the same
conditions (`LiveSessionIsKept` of `InTurnSpec`). No module has a RECURSIVE operator.

## 6. What is not modelled

* Document parsing, language-model calls, storage, migrations, seeding, rendering:
  I/O and wording, with no protocol of their own.
* The inherent-risk questionnaire, tiering, applicability and attention scores:
  pure functions whose results the models take as inputs.
* The worklist, and the tables from an event to a recommended reassessment: pure
  projections of other components' results, without state.
* How an uploaded text is turned into comparisons (`upload_evaluation.py`), and
  evidence intelligence: what they compute is the wording of documents.
* Of MFA, TLS and DR evaluation, facts declared inactive; no pilot package has
  one.

What the models take for granted: Streamlit runs a callback to its end, stops a
run only where it reads or writes session state, and may forget the value of a
widget that a run did not draw. A statement is atomic in both databases, and
their locks are granted as their manuals say. A SHA-256 tells files and packages
apart.

## 7. The plan

Done: every component that keeps state has a module, with proofs for all of them,
and every safety property and refinement that a run checks is a theorem.

What is left, in this order:

1. Properties for the hazards that have none: the capacity that pending
   transactions and remembered codes share (`oidc_login.py:216`), a backfill that
   is run again while analysts work (`control_disposition_basis.py:273`; that it
   leaves verified rows alone is `VerifiedIsFinal`), two overlapping
   confirmations of one scope (`app.py:6232`), and what is to become of a satisfied
   request whose panel is gone (`app.py:5548`).
2. Theorems about the policies themselves: that RR-2.0 is monotone in exposure and
   effectiveness, and which guardrails a decision can lose by a better rating.
3. The parts of the policies that are only partly modelled: the document-level
   fallback of the orchestrator and the questionnaire.
